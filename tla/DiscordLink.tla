------------------------------- MODULE DiscordLink -------------------------------
(***************************************************************************)
(* The authorisation of the Discord client: a Reconnector that is enabled  *)
(* by the settings and by a stored token, with the requests that get or    *)
(* discard the token.  Link and Unlink come from the settings window, a    *)
(* dial refreshes a token that expired, the settings worker discards the   *)
(* token of replaced credentials, and the program may end at any point.    *)
(*                                                                         *)
(* Every change of the token counts authGeneration up, and a request that  *)
(* took the count earlier compares it for equality only.  Here upToDate    *)
(* holds the requests whose copy is still equal: the dial that loaded the  *)
(* token now in memory, and each Link that nothing overtook.               *)
(***************************************************************************)
EXTENDS Reconnector

CONSTANTS
  Linkers,     \* calls of the settings window that link,
  Unlinkers,   \* and those that unlink
  Worker,      \* the settings worker
  Settings,    \* Discord settings: switched on or off, with which credentials
  Accounts,    \* Discord accounts a user may link
  None         \* nothing: no token, no settings, no holder of a lock

Users == Linkers \cup Unlinkers

ASSUME DiscordLinkAssumption ==
  /\ Callers = Users \cup {Worker} /\ Worker \notin Users
  /\ \A s \in Settings : s.on \in BOOLEAN
  /\ (Users \cup {Worker}) \cap Conns = {}
  /\ None \notin Callers \cup Conns \cup Accounts

VARIABLES
  cfg,        \* the Discord settings of the store's snapshot
  unsignalled,\* the store has replaced it and not signalled yet
  reload,     \* the one-place channel of reload signals holds one
  client,     \* "off", "loaded", "running"
  worker,     \* where the settings worker is
  seen,       \* the settings the worker has read
  previous,   \* and those it read before
  authLock,   \* who holds authLock over more than one step
  token,      \* the token in memory: a client ID and an account
  file,       \* the token file
  upToDate,   \* the requests whose generation is the current one
  request,    \* where each Link, Unlink and dial is
  connCfg,    \* the settings each dial and Link has read, then the connection's
  dialAccount,\* the account of the token the dial has loaded
  wanted,     \* history: the account linked last, None once a token file was removed
  overtaken   \* history: the Links since whose beginning that changed

historyVars == <<wanted, overtaken>>
authVars == <<authLock, token, file, upToDate, historyVars>>
settingsVars == <<cfg, unsignalled, reload>>
workerVars == <<worker, seen, previous>>
requestVars == <<request, connCfg, dialAccount>>
linkVars == <<authVars, settingsVars, client, workerVars, requestVars>>
allVars == <<vars, linkVars>>

\* The reconnector without the answer of Options.Enabled.
restOfReconnector ==
  <<lifecycleVars, mgr, gen, attempt, published, buf, conn, orphans, watch, snap>>

\* Credentials are a client ID and a secret; a token knows its client ID.
Tokens == [id : {s.id : s \in Settings}, account : Accounts]
Token(s, a) == [id |-> s.id, account |-> a]
CredentialsChanged(s, t) == s.id # t.id \/ s.secret # t.secret

LinkTypeOK ==
  /\ TypeOK
  /\ cfg \in Settings
  /\ unsignalled \in BOOLEAN /\ reload \in BOOLEAN
  /\ client \in {"off", "loaded", "running"}
  /\ worker \in {"none", "idle", "values", "clear", "clearing", "current",
                 "changed", "reconnect", "sending"}
  /\ seen \in Settings \cup {None} /\ previous \in Settings \cup {None}
  /\ authLock \in Callers \cup Conns \cup {None}
  /\ token \in Tokens \cup {None} /\ file \in Tokens \cup {None}
  /\ upToDate \subseteq Users \cup Conns
  /\ request \in [Users \cup Conns ->
       {"idle", "asking", "clearing", "reconnect", "sending",
        "values", "token", "fresh", "exchange", "storing", "open"}]
  /\ connCfg \in [Users \cup Conns -> Settings \cup {None}]
  /\ dialAccount \in Accounts \cup {None}
  /\ wanted \in Accounts \cup {None}
  /\ overtaken \subseteq Linkers

LinkInit ==
  /\ Init
  /\ cfg \in Settings
  /\ ~enabled
  /\ unsignalled = FALSE /\ reload = FALSE
  /\ client = "off"
  /\ worker = "none" /\ seen = None /\ previous = None
  /\ authLock = None
  /\ token = None /\ file = None
  /\ upToDate = {}
  /\ request = [r \in Users \cup Conns |-> "idle"]
  /\ connCfg = [r \in Users \cup Conns |-> None]
  /\ dialAccount = None
  /\ wanted = None /\ overtaken = {}

\* Options.Enabled, asked again whenever the settings or the token change.
Enable(settings, stored) == enabled' = (settings.on /\ stored # None)

-----------------------------------------------------------------------------
(* The settings store, seen from the client; one change is signalled before *)
(* the next.                                                                *)

ChangeSettings(s) ==
  /\ s # cfg
  /\ ~unsignalled
  /\ cfg' = s
  /\ unsignalled' = TRUE
  /\ Enable(s, token)
  /\ UNCHANGED <<restOfReconnector, authVars, reload, client, workerVars, requestVars>>

\* Signals reach a consumer that has subscribed.
Notify ==
  /\ unsignalled
  /\ unsignalled' = FALSE
  /\ reload' = (reload \/ client = "running")
  /\ UNCHANGED <<vars, authVars, cfg, client, workerVars, requestVars>>

-----------------------------------------------------------------------------
(* The critical sections of authLock.  A token is replaced in memory and on *)
(* disk in two steps, between which the lock is held; memory is read        *)
(* without the lock.                                                        *)

At(r, place) == request[r] = place

\* From now on the user wants this account; whoever still asks is too late.
Wants(account) ==
  /\ wanted' = account
  /\ overtaken' = {u \in Linkers : At(u, "asking")}

Lock(r) == authLock = None /\ authLock' = r
Unlock(r) == authLock = r /\ authLock' = None

\* clearToken, first half: the generation moves on, the token is gone.
BeginClear(r) ==
  /\ Lock(r)
  /\ upToDate' = {}
  /\ token' = None
  /\ Enable(cfg, None)
  /\ UNCHANGED <<restOfReconnector, file, historyVars>>

\* Second half: the file is removed, or cannot be, which the user is told.  An
\* Unlink counts from here on: a program that ends between the halves comes up
\* with the account again.
EndClear(r) ==
  /\ Unlock(r)
  /\ \/ file' = None /\ Wants(None)
     \/ UNCHANGED <<file, historyVars>>
  /\ UNCHANGED <<vars, token, upToDate>>

\* Slip: an answer is stored whatever happened since it was asked for.
MayStoreSlip(r) == ~CredentialsChanged(connCfg[r], cfg)

\* storeToken, first half: refused when anything changed the token or the
\* credentials since r began, else the file is replaced, or cannot be.
MayStore(r) == r \in upToDate /\ ~CredentialsChanged(connCfg[r], cfg)

BeginStore(r, account) ==
  /\ Lock(r)
  /\ MayStore(r)
  /\ file' = Token(connCfg[r], account)
  /\ UNCHANGED <<vars, token, upToDate>>

\* Second half: the token is published, the generation moves on.
EndStore(r) ==
  /\ Unlock(r)
  /\ token' = file
  /\ upToDate' = {}
  /\ Enable(cfg, file)
  /\ UNCHANGED <<restOfReconnector, file, historyVars>>

\* loadToken, of the client ID in force; the secret may have changed.
LoadToken ==
  /\ client = "off"
  /\ client' = "loaded"
  /\ token' = IF file # None /\ file.id = cfg.id THEN file ELSE None
  /\ Enable(cfg, token')
  /\ UNCHANGED <<restOfReconnector, authLock, file, upToDate, historyVars, settingsVars,
                 workerVars, requestVars>>

-----------------------------------------------------------------------------
(* Start, the settings worker, and the end of the program.                  *)

\* The worker subscribes and remembers the settings; a change since loadToken
\* is not seen.
ClientStart ==
  /\ client = "loaded"
  /\ Start
  /\ client' = "running"
  /\ worker' = "idle"
  /\ previous' = cfg
  /\ UNCHANGED <<authVars, settingsVars, seen, requestVars>>

WorkerFrame == UNCHANGED <<cfg, unsignalled, client, requestVars>>

WorkerWakes ==
  /\ worker = "idle" /\ reload
  /\ reload' = FALSE
  /\ worker' = "values"
  /\ UNCHANGED <<vars, authVars, seen, previous>>
  /\ WorkerFrame

WorkerReadsValues ==
  /\ worker = "values"
  /\ seen' = cfg
  /\ worker' = IF CredentialsChanged(previous, cfg) THEN "clear" ELSE "current"
  /\ previous' = cfg
  /\ UNCHANGED <<vars, authVars, reload>>
  /\ WorkerFrame

WorkerClears ==
  /\ \/ worker = "clear" /\ BeginClear(Worker) /\ worker' = "clearing"
     \/ worker = "clearing" /\ EndClear(Worker) /\ worker' = "changed"
  /\ UNCHANGED <<reload, seen, previous>>
  /\ WorkerFrame

WorkerCompares ==
  /\ worker \in {"current", "changed"}
  /\ worker' = IF IF current = NoConn THEN worker = "changed" ELSE connCfg[current] # seen
               THEN "reconnect" ELSE "idle"
  /\ seen' = None
  /\ UNCHANGED <<vars, authVars, reload, previous>>
  /\ WorkerFrame

WorkerReconnects ==
  /\ \/ worker = "reconnect" /\ ReconnectRead(Worker) /\ worker' = "sending"
     \/ worker = "reconnect" /\ errChannel = NoConn /\ worker' = "idle" /\ UNCHANGED vars
     \/ worker = "sending" /\ ReconnectSend(Worker) /\ worker' = "idle"
  /\ UNCHANGED <<authVars, reload, seen, previous>>
  /\ WorkerFrame

WorkerStep == WorkerWakes \/ WorkerReadsValues \/ WorkerClears \/ WorkerCompares \/ WorkerReconnects

\* The program ends, or crashes, anywhere; settings and file stay.
Exit ==
  /\ client = "running"
  /\ stopChannel' = "nil" /\ lifecycle' = FALSE /\ enabled' = FALSE
  /\ mgr' = "none" /\ gen' = NoConn /\ attempt' = 0
  /\ current' = NoConn /\ errChannel' = NoConn
  /\ buf' = [c \in Conns |-> "empty"] /\ conn' = [c \in Conns |-> "none"]
  /\ orphans' = {} /\ watch' = [c \in Conns |-> "none"]
  /\ snap' = [k \in Callers |-> NoConn]
  /\ unsignalled' = FALSE /\ reload' = FALSE
  /\ client' = "off"
  /\ worker' = "none" /\ seen' = None /\ previous' = None
  /\ authLock' = None /\ token' = None /\ upToDate' = {}
  /\ request' = [r \in Users \cup Conns |-> "idle"]
  /\ connCfg' = [r \in Users \cup Conns |-> None]
  /\ dialAccount' = None /\ overtaken' = {}
  /\ UNCHANGED <<cfg, file, wanted>>

-----------------------------------------------------------------------------
(* Link and Unlink.                                                         *)

UserFrame == UNCHANGED <<settingsVars, client, workerVars, dialAccount>>

Go(r, place) == request' = [request EXCEPT ![r] = place]
Forget(r) == connCfg' = [connCfg EXCEPT ![r] = None]

\* The settings and the generation are taken together, under the lock.
LinkBegins(u) ==
  /\ u \in Linkers
  /\ client = "running" /\ authLock = None
  /\ At(u, "idle") /\ Go(u, "asking")
  /\ connCfg' = [connCfg EXCEPT ![u] = cfg]
  /\ upToDate' = upToDate \cup {u}
  /\ overtaken' = overtaken \ {u}
  /\ UNCHANGED <<vars, authLock, token, file, wanted>>
  /\ UserFrame

\* Declined, timed out, refused by the store, or not written.
LinkFails(u) ==
  /\ At(u, "asking") /\ Go(u, "idle")
  /\ Forget(u)
  /\ upToDate' = upToDate \ {u}
  /\ overtaken' = overtaken \ {u}
  /\ UNCHANGED <<vars, authLock, token, file, wanted>>
  /\ UserFrame

LinkStores(u) ==
  /\ At(u, "asking") /\ Go(u, "storing")
  /\ \E account \in Accounts :
       /\ BeginStore(u, account)
       /\ \/ u \notin overtaken /\ Wants(account)
          \/ u \in overtaken /\ UNCHANGED historyVars
  /\ UNCHANGED connCfg
  /\ UserFrame

LinkStored(u) ==
  /\ At(u, "storing") /\ Go(u, "reconnect")
  /\ EndStore(u)
  /\ Forget(u)
  /\ UserFrame

UnlinkClears(u) ==
  /\ u \in Unlinkers
  /\ \/ client = "running" /\ At(u, "idle") /\ BeginClear(u) /\ Go(u, "clearing")
     \/ At(u, "clearing") /\ EndClear(u) /\ Go(u, "reconnect")
  /\ UNCHANGED connCfg
  /\ UserFrame

UserReconnects(u) ==
  /\ \/ At(u, "reconnect") /\ ReconnectRead(u) /\ Go(u, "sending")
     \/ At(u, "reconnect") /\ errChannel = NoConn /\ Go(u, "idle") /\ UNCHANGED vars
     \/ At(u, "sending") /\ ReconnectSend(u) /\ Go(u, "idle")
  /\ UNCHANGED <<authVars, connCfg>>
  /\ UserFrame

User(u) ==
  \/ LinkBegins(u) \/ LinkFails(u) \/ LinkStores(u) \/ LinkStored(u)
  \/ UnlinkClears(u) \/ UserReconnects(u)

-----------------------------------------------------------------------------
(* The dial, in its goroutine.                                              *)

DialFrame == UNCHANGED <<settingsVars, client, workerVars>>

DialReads(c) ==
  /\ At(c, "values") /\ Go(c, "token")
  /\ connCfg' = [connCfg EXCEPT ![c] = cfg]
  /\ UNCHANGED <<vars, authVars, dialAccount>>
  /\ DialFrame

DialLoadsToken(c) ==
  /\ At(c, "token") /\ Go(c, "fresh")
  /\ token # None
  /\ upToDate' = upToDate \cup {c}
  /\ dialAccount' = token.account
  /\ UNCHANGED <<vars, authLock, token, file, historyVars, connCfg>>
  /\ DialFrame

\* ensureFreshToken: the token is still the one in memory; it is used, or has
\* expired and is exchanged.
DialChecksToken(c) ==
  /\ At(c, "fresh") /\ authLock = None
  /\ MayStore(c)
  /\ \E next \in {"exchange", "open"} : Go(c, next)
  /\ UNCHANGED <<vars, authVars, connCfg, dialAccount>>
  /\ DialFrame

\* The exchange gave another token of the same account.
RefreshStores(c) ==
  /\ At(c, "exchange") /\ Go(c, "storing")
  /\ BeginStore(c, dialAccount)
  /\ UNCHANGED <<historyVars, connCfg, dialAccount>>
  /\ DialFrame

RefreshStored(c) ==
  /\ At(c, "storing") /\ Go(c, "open")
  /\ EndStore(c)
  /\ UNCHANGED <<connCfg, dialAccount>>
  /\ DialFrame

\* The dial ends: authenticated, or failed at any of its steps.
DialEnds(c, result) ==
  /\ request[c] \in {"token", "fresh", "exchange", "open"}
  /\ result = "open" => At(c, "open")
  /\ Dialed(c, result)
  /\ Go(c, "idle")
  /\ upToDate' = upToDate \ {c}
  /\ dialAccount' = None
  /\ UNCHANGED <<authLock, token, file, historyVars, connCfg>>
  /\ DialFrame

Dial(c) ==
  \/ DialReads(c) \/ DialLoadsToken(c) \/ DialChecksToken(c)
  \/ RefreshStores(c) \/ RefreshStored(c)
  \/ \E result \in {"open", "failed"} : DialEnds(c, result)

-----------------------------------------------------------------------------
(* The callbacks, and the steps of the reconnector that run none.           *)

CallbackFrame == UNCHANGED <<authVars, settingsVars, client, workerVars, dialAccount>>

LinkBeginDial(c) ==
  /\ BeginDial(c)
  /\ Go(c, "values")
  /\ UNCHANGED connCfg
  /\ CallbackFrame

\* Slip: onUp trusts the settings of the dial.
LinkOnUpSlip ==
  /\ OnUp(FALSE)
  /\ UNCHANGED <<request, connCfg>>
  /\ CallbackFrame

\* onUp looks at the settings again now that the connection is published.
LinkOnUp ==
  /\ mgr = "onUp"
  /\ OnUp(connCfg[gen] # cfg)
  /\ UNCHANGED <<request, connCfg>>
  /\ CallbackFrame

\* The connection is gone, and its settings with it.
LinkCloses ==
  /\ DialFailed \/ DisabledWhileDialing \/ CloseDropped
  /\ Forget(gen)
  /\ UNCHANGED request
  /\ CallbackFrame

PlainManager ==
  /\ WaitElapsed \/ GateClosed \/ DialSucceeded \/ StillEnabled \/ Publish
       \/ SelectError \/ OnDown \/ Drop
  /\ UNCHANGED linkVars

LinkManager == PlainManager \/ LinkOnUp \/ LinkCloses \/ \E c \in Conns : LinkBeginDial(c)

LinkWatch(c) ==
  /\ WatchFails(c) \/ WatchReports(c) \/ WatchReturns(c)
  /\ UNCHANGED linkVars

LinkBreaks(c) == TransportBreaks(c) /\ UNCHANGED linkVars

LinkNext ==
  \/ \E s \in Settings : ChangeSettings(s)
  \/ Notify \/ LoadToken \/ ClientStart \/ Exit
  \/ WorkerStep \/ LinkManager
  \/ \E u \in Users : User(u)
  \/ \E c \in Conns : Dial(c) \/ LinkBreaks(c) \/ LinkWatch(c)

LinkSpec == LinkInit /\ [][LinkNext]_allVars

-----------------------------------------------------------------------------
\* "Older requests must not undo Unlink or a newer Link" (client.go:92): the
\* account in memory and on disk is the one the user linked last, and there is
\* none once an Unlink has removed the file, whatever answers were on their way,
\* and wherever the program ended and started again after that.
LinkedAccountIsWanted ==
  /\ file # None => file.account = wanted
  /\ token # None /\ authLock = None => token.account = wanted

LinkInv == LinkTypeOK /\ LinkedAccountIsWanted

\* As in the serial client, no change of the settings is forgotten, at any
\* point of a dial: an off switch or other credentials reach the connection.
SettingsAreNoticed ==
  client = "running" /\ current # NoConn /\ connCfg[current] # cfg =>
    \/ unsignalled \/ reload
    \/ worker \in {"values", "reconnect"}
    \/ worker \in {"clear", "clearing", "current", "changed"} /\ seen = cfg
    \/ worker = "sending" /\ snap[Worker] = current
    \/ mgr \in {"onUp", "onDown", "drop"}
    \/ buf[current] # "empty"

\* "Unlink forgets the stored token, which also drops the connection"
\* (auth.go:74): when no Unlink is under way, a connection that serves has a
\* token, or is about to go.
UnlinkDropsConnection ==
  mgr = "select" /\ token = None /\ worker = "idle" /\ ~reload /\ ~unsignalled
  /\ (\A u \in Users : request[u] = "idle") =>
    buf[current] # "empty" \/ conn[current] = "broken"

=============================================================================
