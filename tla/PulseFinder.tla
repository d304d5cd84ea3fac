------------------------------ MODULE PulseFinder ------------------------------
(***************************************************************************)
(* The PulseAudio session finder of internal/audio: the connection         *)
(* callbacks, the read loop that turns server events into jobs, the one    *)
(* worker that runs them, and Release.  The connection manager is reduced  *)
(* to the order in which it calls them: dial, publish, OnUp; OnDown, drop, *)
(* close (module Reconnector has the whole of it).                         *)
(*                                                                         *)
(* A connection carries one stream of messages: events and the replies to  *)
(* requests, in the order the server sent them.                            *)
(***************************************************************************)
EXTENDS Naturals, Sequences, FiniteSets, SequencesExt

CONSTANTS
  Streams,   \* indices of sink inputs, sinks and sources
  KindOf,    \* the kind of each
  Kinds,     \* the kinds, in the order they are enumerated
  Masters,   \* the default devices, in the order they are refreshed
  Devices,   \* what can be a default device
  Hidden,    \* inputs without a name, monitor sources
  Conns,     \* connections, in the order of their dials
  NoDevice,  \* there is no default device
  NoConn, None,
  MaxWork,   \* paWorkChanSize
  MaxWire    \* bound: messages on their way

ASSUME PulseAssumption ==
  /\ Streams \subseteq Nat /\ Conns \subseteq Nat
  /\ Devices \subseteq Nat /\ Devices # {}
  /\ Kinds \in Seq(Range(Kinds)) \ {<<>>} /\ Masters \in Seq(Range(Masters)) \ {<<>>}
  /\ KindOf \in [Streams -> Range(Kinds)]
  /\ Hidden \subseteq Streams
  /\ Streams \cap Range(Masters) = {}
  /\ NoConn \notin Conns /\ NoDevice \in Nat \ Devices
  /\ MaxWork \in Nat \ {0} /\ MaxWire \in Nat \ {0}

VARIABLES
  streams,   \* what the server plays
  used,      \* indices the server has given out
  default,   \* its default devices
  wire,      \* messages each connection has yet to read
  reading,   \* the event each read loop holds
  link,      \* each connection: its transport and its closedCh
  manager,   \* where the manager loop is
  current,   \* what Current returns
  finder,    \* Start and Release
  clearing,  \* sessions clearSessions has yet to report and release
  workChan,
  pc,        \* where the worker is in its job
  asks,      \* requests its job has yet to make
  using,     \* the connection it has looked up
  infos,     \* what the answer in hand names, taken smallest first
  adding,    \* the session it has yet to report as added
  removing,  \* the session it has yet to report as removed, and release
  held,      \* the session maps and the master sessions
  mixed,     \* sessions the handler has been given and not been taken from
  missed,    \* history: an event was dropped since the maps were cleared
  overtaken  \* history: the maps were cleared during a job, or what such a job
             \* reported late is mixed still, or an event of a closed
             \* connection was queued

serverVars == <<streams, used, default>>
connVars == <<wire, reading, link>>
managerVars == <<manager, current, finder>>
workerVars == <<pc, asks, using, infos, adding, removing>>
mapVars == <<held, mixed, clearing>>
historyVars == <<missed, overtaken>>
vars == <<serverVars, connVars, managerVars, workChan, workerVars, mapVars, historyVars>>

-----------------------------------------------------------------------------
(* Jobs, requests and sessions.                                             *)

Job(op, id) == [op |-> op, id |-> id]
Jobs == [op : {"new", "remove"}, id : Streams] \cup {Job("master", None), Job("sync", None)}

RefreshMaster == [i \in DOMAIN Masters |-> Job("master", Masters[i])]
EnumerateExisting == [i \in DOMAIN Kinds |-> Job("list", Kinds[i])]
Requests == [op : {"master"}, id : Range(Masters)] \cup [op : {"list"}, id : Range(Kinds)]
              \cup [op : {"new", "remove"}, id : Streams]

RequestsOf(job) ==
  CASE job.op = "sync" -> RefreshMaster \o EnumerateExisting
    [] job.op = "master" -> RefreshMaster
    [] OTHER -> <<job>>

\* What the server answers: an error is an empty answer, also when a master
\* is asked for and there is no default device.
Answer(ask) ==
  CASE ask.op = "master" -> {default[ask.id]} \ {NoDevice}
    [] ask.op = "list" -> {i \in streams : KindOf[i] = ask.id}
    [] OTHER -> {ask.id} \cap streams

Sessions == [id : Streams \cup Range(Masters), device : Streams \cup Devices,
             conn : Conns, copy : Nat]

ASSUME NoneAssumption == None \notin Jobs \cup Sessions

\* A session of the finder's that has not been released.
Owned == held \cup clearing \cup ({removing} \ {None})

\* The copy tells apart sessions that were made for the same thing.
NewSession(id, device, conn) ==
  LET made(n) == [id |-> id, device |-> device, conn |-> conn, copy |-> n]
  IN  made(CHOOSE n \in 0..Cardinality(Owned \cup mixed) : made(n) \notin Owned \cup mixed)

PulseTypeOK ==
  /\ streams \subseteq used /\ used \subseteq Streams
  /\ default \in [Range(Masters) -> Devices \cup {NoDevice}]
  /\ wire \in [Conns -> Seq(Jobs \cup {Job("reply", None)})]
  /\ reading \in [Conns -> Jobs \cup {None}]
  /\ link \in [Conns -> {"fresh", "open", "broken", "noticed", "closed"}]
  /\ manager \in {"down", "dialed", "up", "clearing", "stopped"}
  /\ current \in Conns \cup {NoConn}
  /\ finder \in {"new", "running", "draining", "clearing", "released"}
  /\ workChan \in Seq(Jobs) /\ Len(workChan) <= MaxWork
  /\ pc \in {"idle", "delete", "look", "asked", "answered", "add", "insert", "report", "exited"}
  /\ asks \in Seq(Requests)
  /\ using \in Conns \cup {NoConn}
  /\ infos \subseteq Streams \cup Devices
  /\ {adding, removing} \subseteq Sessions \cup {None}
  /\ held \cup clearing \cup mixed \subseteq Sessions
  /\ {missed, overtaken} \subseteq BOOLEAN

Init ==
  /\ streams \in SUBSET Streams /\ used = streams
  /\ default \in [Range(Masters) -> {Min(Devices), NoDevice}]  \* bound: names do not matter
  /\ wire = [c \in Conns |-> <<>>] /\ reading = [c \in Conns |-> None]
  /\ link = [c \in Conns |-> "fresh"]
  /\ manager = "down" /\ current = NoConn /\ finder = "new"
  /\ workChan = <<>>
  /\ pc = "idle" /\ asks = <<>> /\ using = NoConn /\ infos = {}
  /\ adding = None /\ removing = None
  /\ held = {} /\ mixed = {} /\ clearing = {}
  /\ missed = FALSE /\ overtaken = FALSE

-----------------------------------------------------------------------------
(* The sound server.  It tells every connection what changes, and gives an  *)
(* index out once in its life.                                              *)

\* Bound: the server is of interest while there is a manager.
Running == finder # "new" /\ manager # "stopped"

Emit(event) ==
  /\ Running
  /\ \A c \in Conns : link[c] = "open" => Len(wire[c]) < MaxWire
  /\ wire' = [c \in Conns |-> IF link[c] = "open" THEN Append(wire[c], event) ELSE wire[c]]

ServerFrame ==
  UNCHANGED <<reading, link, managerVars, workChan, workerVars, mapVars, historyVars>>

StreamAppears(i) ==
  /\ i \notin used
  /\ used' = used \cup {i}
  /\ streams' = streams \cup {i}
  /\ Emit(Job("new", i))
  /\ UNCHANGED default
  /\ ServerFrame

StreamEnds(i) ==
  /\ i \in streams
  /\ streams' = streams \ {i}
  /\ Emit(Job("remove", i))
  /\ UNCHANGED <<used, default>>
  /\ ServerFrame

\* Another device is the default, or there is none any more.
DefaultChanges(m, d) ==
  /\ default[m] < d  \* bound: each once, and once none of them
  /\ default' = [default EXCEPT ![m] = d]
  /\ Emit(Job("master", None))
  /\ UNCHANGED <<streams, used>>
  /\ ServerFrame

\* Bound: a connection fails while another is left to be made.
Replaceable == \E c \in Conns : link[c] = "fresh"

\* A new server counts its streams from the beginning.
ServerRestarts ==
  /\ Running /\ Replaceable
  /\ streams' = {} /\ used' = {}
  /\ link' = [c \in Conns |-> IF link[c] = "open" THEN "broken" ELSE link[c]]
  /\ wire' = [c \in Conns |-> <<>>]
  /\ UNCHANGED <<default, reading, managerVars, workChan, workerVars, mapVars, historyVars>>

\* The server takes up the request of the worker.
ServerAnswers ==
  /\ pc = "asked"
  /\ link[using] = "open"
  /\ pc' = "answered"
  /\ infos' = Answer(Head(asks))
  /\ wire' = [wire EXCEPT ![using] = Append(@, Job("reply", None))]
  /\ UNCHANGED <<serverVars, reading, link, managerVars, workChan, asks, using, adding,
                 removing, mapVars, historyVars>>

-----------------------------------------------------------------------------
(* A connection.                                                            *)

TransportFrame(c) ==
  UNCHANGED <<serverVars, reading, managerVars, workChan, workerVars, mapVars, historyVars>>

\* Silently, or with an end of file that the callback observes.
TransportBreaks(c) ==
  /\ link[c] = "open" /\ Replaceable
  /\ link' = [link EXCEPT ![c] = "broken"]
  /\ wire' = [wire EXCEPT ![c] = <<>>]
  /\ TransportFrame(c)

ConnectionClosed(c) ==
  /\ link[c] = "open" /\ Replaceable
  /\ link' = [link EXCEPT ![c] = "noticed"]
  /\ wire' = [wire EXCEPT ![c] = <<>>]
  /\ TransportFrame(c)

\* forceClose: a request failed below the protocol.
ForceClose(c) ==
  link' = IF link[c] = "broken" THEN [link EXCEPT ![c] = "noticed"] ELSE link

Keepalive(c) ==
  /\ link[c] = "broken"
  /\ ForceClose(c)
  /\ UNCHANGED wire
  /\ TransportFrame(c)

\* SetVolume and GetVolume of a session, called by the mixer.
SetVolume(s) ==
  /\ s \in mixed
  /\ link[s.conn] = "broken"
  /\ ForceClose(s.conn)
  /\ UNCHANGED wire
  /\ TransportFrame(s.conn)

\* What follows a request: the next one of the job, or the next job.
AfterRequest(rest) == IF rest = <<>> THEN "idle" ELSE "look"

EndRequest ==
  /\ asks' = Tail(asks)
  /\ pc' = AfterRequest(Tail(asks))
  /\ using' = NoConn
  /\ infos' = {}

\* The read loop takes the next message: a reply goes to the worker, if it
\* waits for it still.
ReadEvent(c) ==
  /\ reading[c] = None /\ wire[c] # <<>>
  /\ Head(wire[c]).op # "reply"
  /\ reading' = [reading EXCEPT ![c] = Head(wire[c])]
  /\ wire' = [wire EXCEPT ![c] = Tail(@)]
  /\ UNCHANGED <<serverVars, link, managerVars, workChan, workerVars, mapVars, historyVars>>

ReadReply(c) ==
  /\ reading[c] = None /\ wire[c] # <<>>
  /\ Head(wire[c]).op = "reply"
  /\ wire' = [wire EXCEPT ![c] = Tail(@)]
  /\ IF pc = "answered" /\ using = c
     THEN IF infos = {}
          THEN EndRequest
          ELSE /\ pc' = IF Head(asks).op = "master" THEN "insert" ELSE "add"
               /\ UNCHANGED <<asks, using, infos>>
     ELSE UNCHANGED <<pc, asks, using, infos>>
  /\ UNCHANGED <<serverVars, reading, link, managerVars, workChan, adding, removing,
                 mapVars, historyVars>>

\* Slip: a full channel is waited for.
DispatchWorkSlip(job) ==
  /\ Len(workChan) < MaxWork
  /\ workChan' = Append(workChan, job)
  /\ UNCHANGED missed

\* A full channel drops the job.
DispatchWork(job) ==
  IF Len(workChan) < MaxWork
  THEN workChan' = Append(workChan, job) /\ UNCHANGED missed
  ELSE missed' = TRUE /\ UNCHANGED workChan

HandleSubscribeEvent(c) ==
  /\ reading[c] # None
  /\ DispatchWork(reading[c])
  /\ reading' = [reading EXCEPT ![c] = None]
  /\ overtaken' = (overtaken \/ link[c] = "closed")
  /\ UNCHANGED <<serverVars, wire, link, managerVars, workerVars, mapVars>>

-----------------------------------------------------------------------------
(* The manager and its callbacks.                                           *)

ManagerFrame == UNCHANGED <<serverVars, reading, workerVars, mixed>>

Start ==
  /\ finder = "new"
  /\ finder' = "running"
  /\ UNCHANGED <<wire, link, manager, current, workChan, held, clearing, historyVars>>
  /\ ManagerFrame

Dial(c) ==
  /\ manager = "down" /\ finder = "running"
  /\ link[c] = "fresh" /\ \A d \in Conns : link[d] = "fresh" => c <= d
  /\ link' = [link EXCEPT ![c] = "open"]
  /\ manager' = "dialed"
  /\ UNCHANGED <<wire, current, finder, workChan, held, clearing, historyVars>>
  /\ ManagerFrame

\* The connection is published, and OnUp queues the first enumeration.
OnUp(c) ==
  /\ manager = "dialed"
  /\ link[c] \notin {"fresh", "closed"}
  /\ current' = c
  /\ DispatchWork(Job("sync", None))
  /\ manager' = "up"
  /\ UNCHANGED <<wire, link, finder, held, clearing, overtaken>>
  /\ ManagerFrame

\* Slip: the maps are collected and kept.
ClearSessionsSlip ==
  /\ clearing' = held
  /\ UNCHANGED held

\* clearSessions takes all there is, under the lock.
ClearSessions ==
  /\ clearing' = held
  /\ held' = {}

OnDown ==
  /\ manager = "up"
  /\ link[current] = "noticed"
  /\ ClearSessions
  /\ manager' = "clearing"
  /\ missed' = FALSE
  /\ overtaken' = (pc # "idle" \/ mixed # held)
  /\ UNCHANGED <<wire, link, current, finder, workChan>>
  /\ ManagerFrame

\* Slip: the session is released without a removed event.
ClearOneSlip(s) ==
  /\ s \in clearing
  /\ clearing' = clearing \ {s}
  /\ UNCHANGED <<serverVars, connVars, managerVars, workChan, workerVars, held, mixed,
                 historyVars>>

\* The handler's removed event, then Release.
ClearOne(s) ==
  /\ s \in clearing
  /\ clearing' = clearing \ {s}
  /\ mixed' = mixed \ {s}
  /\ UNCHANGED <<serverVars, connVars, managerVars, workChan, workerVars, held, historyVars>>

\* drop, and Close.
Drop ==
  /\ manager = "clearing" /\ clearing = {}
  /\ link' = [link EXCEPT ![current] = "closed"]
  /\ current' = NoConn
  /\ manager' = "down"
  /\ UNCHANGED <<wire, finder, workChan, held, clearing, historyVars>>
  /\ ManagerFrame

\* Stop has returned, whatever the manager was at, and stopCh is closed.
ReleaseStops ==
  /\ finder \in {"new", "running"}
  /\ manager \in {"down", "up"}
  /\ link' = IF current = NoConn THEN link ELSE [link EXCEPT ![current] = "closed"]
  /\ current' = NoConn
  /\ manager' = "stopped"
  /\ finder' = "draining"
  /\ UNCHANGED <<wire, workChan, held, clearing, historyVars>>
  /\ ManagerFrame

\* Slip: the worker is not waited for.
ReleaseClearsSlip ==
  /\ finder = "draining"
  /\ finder' = "clearing"
  /\ ClearSessions
  /\ UNCHANGED <<wire, link, manager, current, workChan, historyVars>>
  /\ ManagerFrame

ReleaseClears ==
  /\ finder = "draining" /\ pc = "exited"
  /\ finder' = "clearing"
  /\ ClearSessions
  /\ UNCHANGED <<wire, link, manager, current, workChan, historyVars>>
  /\ ManagerFrame

ReleaseReturns ==
  /\ finder = "clearing" /\ clearing = {}
  /\ finder' = "released"
  /\ UNCHANGED <<wire, link, manager, current, workChan, held, clearing, historyVars>>
  /\ ManagerFrame

-----------------------------------------------------------------------------
(* The worker.                                                              *)

WorkerFrame == UNCHANGED <<serverVars, reading, managerVars, clearing, historyVars>>

\* Both ready, a job and stopCh: either may be taken.
EventWorker ==
  /\ pc = "idle" /\ finder # "new"
  /\ \/ /\ workChan # <<>>
        /\ workChan' = Tail(workChan)
        /\ asks' = RequestsOf(Head(workChan))
        /\ pc' = IF Head(workChan).op = "remove" THEN "delete" ELSE "look"
     \/ /\ finder = "draining"
        /\ pc' = "exited"
        /\ UNCHANGED <<workChan, asks>>
  /\ UNCHANGED <<wire, link, using, infos, adding, removing, held, mixed>>
  /\ WorkerFrame

\* The next thing the answer names, or the next request.
NextInfo ==
  IF infos = {Min(infos)}
  THEN EndRequest
  ELSE infos' = infos \ {Min(infos)} /\ pc' = "add" /\ UNCHANGED <<asks, using>>

Current ==
  /\ pc = "look"
  /\ IF current = NoConn
     THEN EndRequest
     ELSE using' = current /\ pc' = "asked" /\ UNCHANGED <<asks, infos>>
  /\ UNCHANGED <<wire, link, workChan, adding, removing, held, mixed>>
  /\ WorkerFrame

RequestFails ==
  /\ pc \in {"asked", "answered"}
  /\ link[using] # "open"
  /\ ForceClose(using)
  /\ EndRequest
  /\ UNCHANGED <<wire, workChan, adding, removing, held, mixed>>
  /\ WorkerFrame

\* addSinkInputFromInfo and its kin look the connection up again.
AddFromInfo ==
  /\ pc = "add"
  /\ IF current = NoConn \/ Min(infos) \in Hidden
     THEN NextInfo
     ELSE using' = current /\ pc' = "insert" /\ UNCHANGED <<asks, infos>>
  /\ UNCHANGED <<wire, link, workChan, adding, removing, held, mixed>>
  /\ WorkerFrame

Exists(id) == \E s \in held : s.id = id

\* Under the lock: a stream that is there already is left alone.
AddInserts ==
  /\ pc = "insert" /\ Head(asks).op # "master"
  /\ IF Exists(Min(infos))
     THEN NextInfo /\ UNCHANGED <<adding, held>>
     ELSE /\ adding' = NewSession(Min(infos), Min(infos), using)
          /\ held' = held \cup {adding'}
          /\ pc' = "report" /\ UNCHANGED <<asks, using, infos>>
  /\ UNCHANGED <<wire, link, workChan, removing, mixed>>
  /\ WorkerFrame

\* refreshMasterSink, refreshMasterSource: always a new session.
MasterSwaps ==
  /\ pc = "insert" /\ Head(asks).op = "master"
  /\ LET m == Head(asks).id
         old == {s \in held : s.id = m}
     IN  /\ adding' = NewSession(m, Min(infos), using)
         /\ held' = (held \ old) \cup {adding'}
         /\ removing' = IF old = {} THEN None ELSE CHOOSE s \in old : TRUE
  /\ pc' = "report"
  /\ UNCHANGED <<wire, link, workChan, asks, using, infos, mixed>>
  /\ WorkerFrame

\* Outside the lock: the old master goes and is released, then the new
\* session is reported.
ReportRemoved ==
  /\ pc = "report" /\ removing # None
  /\ mixed' = mixed \ {removing}
  /\ removing' = None
  /\ pc' = IF adding = None THEN "idle" ELSE "report"
  /\ UNCHANGED <<wire, link, workChan, asks, using, infos, adding, held>>
  /\ WorkerFrame

ReportAdded ==
  /\ pc = "report" /\ removing = None
  /\ mixed' = mixed \cup {adding}
  /\ adding' = None
  /\ NextInfo
  /\ UNCHANGED <<wire, link, workChan, removing, held>>
  /\ WorkerFrame

Delete(i) ==
  /\ removing' = CHOOSE s \in held : s.id = i
  /\ held' = held \ {removing'}

\* removeSinkInput and its kin.
RemoveDeletes ==
  /\ pc = "delete"
  /\ LET i == Head(asks).id
     IN  IF Exists(i) THEN Delete(i) /\ pc' = "report"
                      ELSE pc' = "idle" /\ UNCHANGED <<removing, held>>
  /\ asks' = <<>>
  /\ UNCHANGED <<wire, link, workChan, using, infos, adding, mixed>>
  /\ WorkerFrame

-----------------------------------------------------------------------------
Worker ==
  \/ EventWorker \/ Current \/ RequestFails \/ AddFromInfo \/ AddInserts
  \/ MasterSwaps \/ ReportRemoved \/ ReportAdded \/ RemoveDeletes

Manager ==
  \/ OnDown \/ Drop
  \/ \E c \in Conns : Dial(c) \/ OnUp(c)
  \/ \E s \in clearing : ClearOne(s)

Release == ReleaseClears \/ ReleaseReturns

ReadLoop(c) == ReadEvent(c) \/ ReadReply(c) \/ HandleSubscribeEvent(c)

Next ==
  \/ \E i \in Streams : StreamAppears(i) \/ StreamEnds(i)
  \/ \E m \in Range(Masters), d \in Devices \cup {NoDevice} : DefaultChanges(m, d)
  \/ ServerRestarts \/ ServerAnswers
  \/ \E c \in Conns : TransportBreaks(c) \/ ConnectionClosed(c) \/ Keepalive(c) \/ ReadLoop(c)
  \/ \E s \in mixed : SetVolume(s)
  \/ Start \/ ReleaseStops
  \/ Manager \/ Worker \/ Release

Spec == Init /\ [][Next]_vars

\* A request is answered or times out, and the read loops run (fair together,
\* so the less is assumed of each).  The manager, Release, the keepalive and
\* the other steps of the worker are not assumed to go on.
FairSpec ==
  /\ Spec
  /\ WF_vars(ServerAnswers \/ RequestFails)
  /\ WF_vars(\E c \in Conns : ReadLoop(c))

-----------------------------------------------------------------------------
(* What the finder owes its handler.                                        *)

\* A session leaves the maps once: the worker's removal and the clearing by
\* the manager or by Release never report and release the same session, and
\* a stream has one session.
OneRemover ==
  /\ held \cap clearing = {}
  /\ removing \notin clearing
  /\ \A s, t \in held : s.id = t.id => s = t

\* "releases a removed session only after the handler for its removed event
\* returns": the handler has no session that was released, unless the maps
\* were cleared during a job, which may report its session after the clearing
\* released it, or an event of a closed connection was queued.
KnownIsOwned == ~overtaken => mixed \subseteq Owned

PulseInv == PulseTypeOK /\ OneRemover /\ KnownIsOwned

Quiet ==
  /\ finder = "running" /\ manager = "up" /\ link[current] = "open"
  /\ workChan = <<>> /\ pc = "idle"
  /\ \A c \in Conns : wire[c] = <<>> /\ reading[c] = None

\* Masters whose device is gone: the request for a new one fails, and what
\* is held for it stays.
Gone == {m \in Range(Masters) : default[m] = NoDevice}

\* When all events are handled, the handler knows the sessions of exactly
\* the server's streams and default devices, over the present connection,
\* unless an event was dropped or the maps were cleared during a job.  While
\* there is no default device the session of the last one may be known still.
FollowsServer ==
  Quiet /\ ~missed /\ ~overtaken =>
    /\ mixed = held
    /\ \A s \in held : s.conn = current
    /\ {<<s.id, s.device>> : s \in {t \in held : t.id \notin Gone}} =
         {<<i, i>> : i \in streams \ Hidden} \cup
         {<<m, default[m]>> : m \in Range(Masters) \ Gone}

\* When Release returns, no session is left that was not released, and the
\* worker no longer makes any.
ReleaseLeavesNothing ==
  finder = "released" => Owned = {} /\ pc = "exited"

\* The read loop that queues the worker's jobs also brings it its replies:
\* a request is answered or fails whatever the length of the queue.
WorkerIsAnswered == pc = "asked" ~> pc \notin {"asked", "answered"}
=============================================================================
