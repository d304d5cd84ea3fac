-------------------------- MODULE WindowsFinderProofs --------------------------
(***************************************************************************)
(* Proofs about WindowsFinder: what the finder owes the handler and the    *)
(* system, for any devices, flows and audio sessions and any capacity of   *)
(* the queue, whether or not sessions and defaults change together, and    *)
(* however many calls fail.                                                *)
(***************************************************************************)
EXTENDS WindowsFinder, SequenceTheorems, FiniteSetTheorems, FunctionTheorems, TLAPS

-----------------------------------------------------------------------------
(* Queues.                                                                  *)

\* An entry at the end: the places before it are as they were.
LEMMA Appended ==
  ASSUME NEW S, NEW seq \in Seq(S), NEW e \in S
  PROVE  /\ Append(seq, e) \in Seq(S) /\ Len(Append(seq, e)) = Len(seq) + 1
         /\ Len(seq) \in Nat /\ DOMAIN seq = 1..Len(seq)
         /\ DOMAIN Append(seq, e) = 1..(Len(seq) + 1)
         /\ \A i \in 1..Len(seq) : Append(seq, e)[i] = seq[i]
         /\ Append(seq, e)[Len(seq) + 1] = e
         /\ Range(Append(seq, e)) = Range(seq) \cup {e}
<1>1. /\ Append(seq, e) \in Seq(S) /\ Len(Append(seq, e)) = Len(seq) + 1 /\ Len(seq) \in Nat
      /\ DOMAIN seq = 1..Len(seq) /\ DOMAIN Append(seq, e) = 1..(Len(seq) + 1)
      /\ \A i \in 1..Len(seq) : Append(seq, e)[i] = seq[i]
      /\ Append(seq, e)[Len(seq) + 1] = e
  BY AppendProperties, LenProperties
<1>2. Range(Append(seq, e)) \subseteq Range(seq) \cup {e}
  BY <1>1 DEF Range
<1>3. Range(seq) \cup {e} \subseteq Range(Append(seq, e))
  BY <1>1 DEF Range
<1> QED
  BY <1>1, <1>2, <1>3

\* The first entry goes: the others move up by one.
LEMMA Popped ==
  ASSUME NEW S, NEW seq \in Seq(S), seq # <<>>
  PROVE  /\ Head(seq) \in S /\ Tail(seq) \in Seq(S) /\ Len(Tail(seq)) = Len(seq) - 1
         /\ Len(seq) \in Nat /\ Len(seq) >= 1 /\ Head(seq) = seq[1]
         /\ DOMAIN seq = 1..Len(seq) /\ DOMAIN Tail(seq) = 1..(Len(seq) - 1)
         /\ \A i \in 1..(Len(seq) - 1) : Tail(seq)[i] = seq[i + 1]
         /\ Range(seq) = {Head(seq)} \cup Range(Tail(seq))
<1>1. /\ Tail(seq) \in Seq(S) /\ Len(Tail(seq)) = Len(seq) - 1
      /\ Len(seq) \in Nat /\ Len(seq) >= 1
      /\ DOMAIN seq = 1..Len(seq) /\ DOMAIN Tail(seq) = 1..(Len(seq) - 1)
      /\ \A i \in 1..(Len(seq) - 1) : Tail(seq)[i] = seq[i + 1]
      /\ Head(seq) = seq[1] /\ Head(seq) \in S
  BY HeadTailProperties, LenProperties, EmptySeq
<1>2. \A i \in DOMAIN seq : seq[i] \in {Head(seq)} \cup Range(Tail(seq))
  <2> TAKE i \in DOMAIN seq
  <2>1. CASE i = 1
    BY <1>1, <2>1
  <2>2. CASE i # 1
    <3>1. i - 1 \in 1..(Len(seq) - 1) /\ Tail(seq)[i - 1] = seq[i]
      BY <1>1, <2>2
    <3> QED
      BY <1>1, <3>1 DEF Range
  <2> QED
    BY <2>1, <2>2
<1>3. {Head(seq)} \cup Range(Tail(seq)) \subseteq Range(seq)
  BY <1>1 DEF Range
<1> QED
  BY <1>1, <1>2, <1>3 DEF Range

\* How often an entry is in a queue.
Count(seq, x) == Cardinality({i \in DOMAIN seq : seq[i] = x})

\* An entry is in a queue finitely often.
LEMMA CountType ==
  ASSUME NEW S, NEW seq \in Seq(S), NEW x
  PROVE  IsFiniteSet({i \in DOMAIN seq : seq[i] = x}) /\ Count(seq, x) \in Nat
<1>1. Len(seq) \in Nat /\ DOMAIN seq = 1..Len(seq)
  BY LenProperties
<1>2. IsFiniteSet(1..Len(seq))
  BY <1>1, FS_Interval
<1>3. IsFiniteSet({i \in DOMAIN seq : seq[i] = x})
  BY <1>1, <1>2, FS_Subset
<1> QED
  BY <1>3, FS_CardinalityType DEF Count

\* One more at the end counts for itself alone.
LEMMA CountAppended ==
  ASSUME NEW S, NEW seq \in Seq(S), NEW e \in S, NEW x
  PROVE  Count(Append(seq, e), x) = Count(seq, x) + (IF e = x THEN 1 ELSE 0)
<1> DEFINE I == {i \in DOMAIN seq : seq[i] = x}
           J == {i \in DOMAIN Append(seq, e) : Append(seq, e)[i] = x}
           n == Len(seq)
<1>1. IsFiniteSet(I) /\ Count(seq, x) = Cardinality(I) /\ Cardinality(I) \in Nat
  BY CountType DEF Count
<1>2. n \in Nat /\ n + 1 \notin I
  BY Appended
<1>3. e = x => J = I \cup {n + 1}
  BY Appended
<1>4. e # x => J = I
  BY Appended
<1>5. Count(Append(seq, e), x) = Cardinality(J)
  BY DEF Count
<1> HIDE DEF I, J, n
<1>6. Cardinality(I \cup {n + 1}) = Cardinality(I) + 1
  BY <1>1, <1>2, FS_AddElement
<1>7. CASE e = x
  BY <1>1, <1>3, <1>5, <1>6, <1>7
<1>8. CASE e # x
  BY <1>1, <1>4, <1>5, <1>8
<1> QED
  BY <1>7, <1>8

\* So does the first entry that goes.
LEMMA CountPopped ==
  ASSUME NEW S, NEW seq \in Seq(S), seq # <<>>, NEW x
  PROVE  Count(seq, x) = Count(Tail(seq), x) + (IF Head(seq) = x THEN 1 ELSE 0)
<1> DEFINE I == {i \in DOMAIN seq : seq[i] = x}
           J == {i \in DOMAIN Tail(seq) : Tail(seq)[i] = x}
           up == [i \in I \ {1} |-> i - 1]
<1>1. IsFiniteSet(I) /\ Count(seq, x) = Cardinality(I) /\ Cardinality(I) \in Nat
  BY CountType DEF Count
<1>2. Count(Tail(seq), x) = Cardinality(J) /\ (1 \in I <=> Head(seq) = x)
  BY Popped DEF Count
<1>3. up \in Bijection(I \ {1}, J)
  <2>1. \A i \in I \ {1} : i - 1 \in J
    BY Popped
  <2>2. \A j \in J : j + 1 \in I \ {1} /\ (j + 1) - 1 = j
    BY Popped
  <2>3. \A i, j \in I \ {1} : i - 1 = j - 1 => i = j
    BY Popped
  <2>4. up \in Injection(I \ {1}, J)
    BY <2>1, <2>3 DEF Injection, IsInjective
  <2>5. up \in Surjection(I \ {1}, J)
    BY <2>1, <2>2 DEF Surjection
  <2> QED
    BY <2>4, <2>5 DEF Bijection
<1>4. ExistsBijection(I \ {1}, J)
  BY <1>3 DEF ExistsBijection
<1> HIDE DEF I, J, up
<1>5. IsFiniteSet(I \ {1}) /\ Cardinality(I \ {1}) = IF 1 \in I THEN Cardinality(I) - 1
                                                                ELSE Cardinality(I)
  BY <1>1, FS_RemoveElement
<1>6. Cardinality(J) = Cardinality(I \ {1})
  BY <1>4, <1>5, FS_Bijection
<1>7. CASE 1 \in I
  BY <1>1, <1>2, <1>5, <1>6, <1>7
<1>8. CASE 1 \notin I
  BY <1>1, <1>2, <1>5, <1>6, <1>8
<1> QED
  BY <1>7, <1>8

\* A set of none or one counts whether something is a member.
LEMMA Counted ==
  ASSUME NEW S, NEW s
  PROVE  /\ Cardinality({x \in {1} : s \in S}) = IF s \in S THEN 1 ELSE 0
         /\ \A t : Cardinality({x \in {1} : s = t}) = IF s = t THEN 1 ELSE 0
<1>1. Cardinality({}) = 0 /\ Cardinality({1}) = 1
  BY FS_EmptySet, FS_Singleton
<1>2. {x \in {1} : s \in S} = IF s \in S THEN {1} ELSE {}
  OBVIOUS
<1>3. \A t : {x \in {1} : s = t} = IF s = t THEN {1} ELSE {}
  OBVIOUS
<1> QED
  BY <1>1, <1>2, <1>3

-----------------------------------------------------------------------------
(* The inductive invariant.                                                 *)

Creating == {device} \ {NoDevice}

\* What the place of the worker says of what it has in its hands.
WorkerInv ==
  /\ pc = "new" => /\ workChan = <<>> /\ managers = {} /\ tracked = {}
                   /\ devices = {} /\ device = NoDevice
  /\ pc \in {"new", "devices"} => ~ready
  /\ pc \in {"masters", "idle"} => ready
  /\ ready => devices = {}
  /\ device # NoDevice => /\ pc \in {"listen", "snapshot", "sessions", "insert"}
                          /\ device \notin managers /\ FlowOf[device] = Output
                          /\ \A s \in controls : DeviceOf[s] = device
                          /\ adding # Nothing => DeviceOf[adding] = device
  /\ pc \in {"listen", "snapshot"} => device # NoDevice
  /\ pc \in {"sessions", "insert"} /\ device = NoDevice => ready
  /\ controls # {} => pc \in {"sessions", "insert"}
  /\ adding # Nothing <=> pc = "insert"
  /\ \A t \in tracked : adding # Nothing => Id(t) # Id(adding)
  /\ devices \cap (managers \cup Creating) = {}
  /\ ~ready \/ pc = "masters" => master = [f \in Flows |-> NoDevice]

\* The worker listens to the devices it manages, and is told of the end of
\* the sessions it tracks, as far as no registration failed.
Listenable ==
  {d \in managers : FlowOf[d] = Output} \cup (IF pc = "listen" THEN {} ELSE Creating)

ListeningInv ==
  /\ listening \subseteq Listenable /\ registered \subseteq tracked
  /\ ~failed => listening = Listenable /\ registered = tracked

\* The handler was told of what is tracked, managed or a master.
Reportable == tracked \cup managers \cup Creating \cup {f \in Flows : master[f] # NoDevice}

KnownInv ==
  /\ known \subseteq Reportable /\ tracked \subseteq known
  /\ ~failed => known = Reportable

\* A session lives on a device in use, and once.
LiveInv ==
  \A s \in Natives :
    /\ native[s] = "live" => DeviceOf[s] \in active
    /\ Job("remove", s) \in Range(workChan) => native[s] \in {"disconnected", "expired"}
    /\ s \in controls \cup {adding} \cup tracked \/ Job("add", s) \in Range(workChan)
         => native[s] # "absent"

Hears == Hearing /\ ~missed /\ ~failed

About(d) == {Job("appeared", d), Job("gone", d)}

\* The devices there are managers for, or will be.
Managed == managers \cup Creating \cup devices

\* The jobs about a device alternate.  The last one says whether it is in
\* use, and without any its manager does.
DevicesInv ==
  Hears => \A d \in Devices :
    /\ Range(workChan) \cap About(d) = {} => (d \in active <=> d \in Managed)
    /\ \A p \in DOMAIN workChan :
         /\ workChan[p] = Job("gone", d) /\ d \in active =>
              \E q \in DOMAIN workChan : q > p /\ workChan[q] = Job("appeared", d)
         /\ workChan[p] = Job("appeared", d) /\ d \notin active =>
              \E q \in DOMAIN workChan : q > p /\ workChan[q] = Job("gone", d)
         /\ workChan[p] = Job("appeared", d) /\ d \in Managed =>
              \E q \in DOMAIN workChan : q < p /\ workChan[q] = Job("gone", d)
         /\ \A r \in DOMAIN workChan :
              p < r /\ workChan[p] = Job("appeared", d) /\ workChan[r] = Job("appeared", d) =>
                \E q \in DOMAIN workChan : p < q /\ q < r /\ workChan[q] = Job("gone", d)

\* The job of a session that lives comes after those of its device.
CreatedInv ==
  Hears => \A s \in Natives : native[s] = "live" =>
    \A p, q \in DOMAIN workChan :
      workChan[p] = Job("add", s) /\ workChan[q] \in About(DeviceOf[s]) => q < p

\* What is tracked has a manager, and so has what is about to be.
OwnerInv ==
  Hears => \A s \in Natives :
    s \in tracked \/ s = adding \/ (s \in controls /\ native[s] = "live") =>
      DeviceOf[s] \in managers \cup Creating

\* What is tracked and has ended is about to go.
EndedInv ==
  Hears => \A s \in tracked \cup ({adding} \ {Nothing}) :
    \/ native[s] = "live" \/ s \in silent
    \/ Job("remove", s) \in Range(workChan) \/ Job("gone", DeviceOf[s]) \in Range(workChan)

\* What lives is tracked, or is about to be found.
FoundInv ==
  Hears /\ ~mistaken => \A s \in Natives : native[s] = "live" =>
    \/ s \in tracked \cup shadowed \cup controls \cup {adding}
    \/ Job("add", s) \in Range(workChan) \/ Job("appeared", DeviceOf[s]) \in Range(workChan)
    \/ DeviceOf[s] \in devices
    \/ DeviceOf[s] = device /\ pc \in {"listen", "snapshot"}

\* A default device has its master session, or is about to get it.
MasterInv ==
  Hears => \A f \in Flows \ swallowed :
    \/ master[f] = default[f]
    \/ Job("default", f) \in Range(workChan) \/ ~ready \/ pc = "masters"

WindowsIInv ==
  /\ WinTypeOK /\ WorkerInv /\ ListeningInv /\ KnownInv /\ RefsAccounted /\ LiveInv
  /\ DevicesInv /\ CreatedInv /\ OwnerInv /\ EndedInv /\ FoundInv /\ MasterInv
  /\ CleanupLeavesNothing
-----------------------------------------------------------------------------
(* Types, in groups of variables.                                           *)

SystemTypeOK ==
  /\ active \subseteq Devices
  /\ native \in [Natives -> {"absent", "live", "disconnected", "expired"}]
  /\ default \in [Flows -> Devices \cup {NoDevice}]

QueueTypeOK == workChan \in Seq(Jobs) /\ Len(workChan) <= MaxWork /\ missed \in BOOLEAN

WorkerTypeOK ==
  /\ pc \in {"new", "devices", "listen", "snapshot", "sessions", "insert", "masters", "idle",
             "ended"}
  /\ cancelled \in BOOLEAN /\ ready \in BOOLEAN
  /\ devices \subseteq Devices /\ device \in Devices \cup {NoDevice}
  /\ controls \subseteq Natives /\ adding \in Natives \cup {Nothing}

MapTypeOK ==
  /\ managers \subseteq Devices /\ listening \subseteq Devices
  /\ registered \subseteq tracked /\ tracked \subseteq Natives
  /\ master \in [Flows -> Devices \cup {NoDevice}]
  /\ known \subseteq Natives \cup Devices \cup Flows

RefsTypeOK == refs \in [Natives -> Nat]

HistoryTypeOK ==
  /\ window \subseteq Flows /\ swallowed \subseteq Flows
  /\ mistaken \in BOOLEAN /\ failed \in BOOLEAN
  /\ shadowed \subseteq Natives /\ silent \subseteq Natives

\* The type invariant, in the groups above.
LEMMA TypeGroups ==
  WinTypeOK <=> /\ SystemTypeOK /\ QueueTypeOK /\ WorkerTypeOK /\ MapTypeOK /\ RefsTypeOK
                /\ HistoryTypeOK
BY DEF WinTypeOK, SystemTypeOK, QueueTypeOK, WorkerTypeOK, MapTypeOK, RefsTypeOK, HistoryTypeOK

\* The jobs there are.
LEMMA JobsOf ==
  /\ \A d \in Devices : Job("appeared", d) \in Jobs /\ Job("gone", d) \in Jobs
  /\ \A s \in Natives : Job("add", s) \in Jobs /\ Job("remove", s) \in Jobs
  /\ \A f \in Flows : Job("default", f) \in Jobs
BY DEF Job, Jobs

\* Each kind of job is about a device, a session or a flow.
LEMMA JobKinds ==
  ASSUME NEW job \in Jobs
  PROVE  /\ job.op \in {"appeared", "gone"} => job.what \in Devices
         /\ job.op \in {"add", "remove"} => job.what \in Natives
         /\ job.op = "default" => job.what \in Flows
         /\ job = Job(job.op, job.what)
BY DEF Job, Jobs

\* A job that is queued goes to the end, one that does not fit is missed.
Enqueued(job) ==
  /\ workChan' = Append(workChan, job) /\ missed' = missed
  /\ Range(workChan') = Range(workChan) \cup {job}

Dropped == workChan' = workChan /\ missed' = TRUE

\* DispatchWork queues the job or misses it.
LEMMA Dispatched ==
  ASSUME QueueTypeOK, NEW job \in Jobs, DispatchWork(job)
  PROVE  QueueTypeOK' /\ (Enqueued(job) \/ Dropped)
<1>1. CASE Len(workChan) < MaxWork
  <2>1. workChan' = Append(workChan, job) /\ missed' = missed
    BY <1>1 DEF DispatchWork
  <2>2. /\ Append(workChan, job) \in Seq(Jobs) /\ Len(workChan) \in Nat
        /\ Len(Append(workChan, job)) = Len(workChan) + 1
        /\ Range(Append(workChan, job)) = Range(workChan) \cup {job}
    BY Appended DEF QueueTypeOK
  <2> QED
    BY <1>1, <2>1, <2>2, WindowsAssumption DEF QueueTypeOK, Enqueued
<1>2. CASE ~(Len(workChan) < MaxWork)
  BY <1>2 DEF DispatchWork, QueueTypeOK, Dropped
<1> QED
  BY <1>1, <1>2

\* The callbacks queue a job each, or none.
LEMMA HeardJob ==
  ASSUME QueueTypeOK, NEW job \in Jobs, Heard(job)
  PROVE  /\ QueueTypeOK'
         /\ IF Hearing THEN Enqueued(job) \/ Dropped ELSE UNCHANGED <<workChan, missed>>
BY Dispatched DEF Heard, QueueTypeOK

\* So does the callback of a session that ends, if the session is listened
\* to.
LEMMA RemovalJob ==
  ASSUME QueueTypeOK, NEW s \in Natives, Removal(s)
  PROVE  /\ QueueTypeOK'
         /\ IF s \in registered THEN Enqueued(Job("remove", s)) \/ Dropped
                                ELSE UNCHANGED <<workChan, missed>>
BY Dispatched, JobsOf DEF Removal, QueueTypeOK

\* The worker takes the first job, and the others move up.
LEMMA Taken ==
  ASSUME QueueTypeOK, NEW op, Take(op)
  PROVE  /\ pc = "idle" /\ Head(workChan) \in Jobs /\ Head(workChan).op = op
         /\ workChan # <<>> /\ workChan' = Tail(workChan) /\ missed' = missed
         /\ QueueTypeOK'
         /\ Range(workChan) = {Head(workChan)} \cup Range(workChan')
<1>1. /\ pc = "idle" /\ workChan # <<>> /\ Head(workChan).op = op
      /\ workChan' = Tail(workChan) /\ missed' = missed
  BY DEF Take, SystemFrame
<1> QED
  BY <1>1, Popped, WindowsAssumption DEF QueueTypeOK

\* The notification is registered before the sessions are counted.
LEMMA CreationOrder ==
  /\ CreationSteps[1] = "listen"
  /\ After("listen") = "snapshot" /\ After("snapshot") = "sessions"
<1>1. CreationSteps[1] = "listen" /\ CreationSteps[2] = "snapshot" /\ CreationSteps[3] = "sessions"
  BY DEF CreationSteps
<1>2. (CHOOSE i \in 1..2 : CreationSteps[i] = "listen") = 1
  BY <1>1
<1>3. (CHOOSE i \in 1..2 : CreationSteps[i] = "snapshot") = 2
  BY <1>1
<1> QED
  BY <1>1, <1>2, <1>3 DEF After

\* The queue stays within its capacity.
LEMMA QueueTyped ==
  ASSUME WindowsIInv, [Next]_vars
  PROVE  QueueTypeOK'
<1> USE TypeGroups
    DEF WindowsIInv, QueueTypeOK, vars, systemVars, workerVars, mapVars, historyVars
<1>1. ASSUME NEW d \in Removable, DeviceAppears(d)
      PROVE  QueueTypeOK'
  BY <1>1, HeardJob, JobsOf, WindowsAssumption DEF DeviceAppears, CallbackFrame
<1>2. ASSUME NEW d \in Removable, DeviceGoes(d)
      PROVE  QueueTypeOK'
  BY <1>2, HeardJob, JobsOf, WindowsAssumption DEF DeviceGoes, CallbackFrame
<1>3. ASSUME NEW s \in Natives, SessionStarts(s)
      PROVE  QueueTypeOK'
  BY <1>3, Dispatched, JobsOf DEF SessionStarts, CallbackFrame
<1>4. ASSUME NEW s \in Natives, SessionDisconnects(s)
      PROVE  QueueTypeOK'
  BY <1>4, RemovalJob DEF SessionDisconnects, CallbackFrame
<1>5. ASSUME NEW s \in Natives, SessionExpires(s)
      PROVE  QueueTypeOK'
  BY <1>5, RemovalJob DEF SessionExpires, CallbackFrame
<1>6. ASSUME NEW f \in Flows, WindowElapses(f)
      PROVE  QueueTypeOK'
  BY <1>6 DEF WindowElapses, CallbackFrame
<1>7. ASSUME NEW f \in Flows, NEW d \in Devices \cup {NoDevice}, DefaultDeviceChanged(f, d)
      PROVE  QueueTypeOK'
  BY <1>7, Dispatched, JobsOf DEF DefaultDeviceChanged, CallbackFrame
<1>8. CASE WorkerBegins
  BY <1>8 DEF WorkerBegins, WorkerFrame, SystemFrame
<1>9. CASE DevicesInitialized
  BY <1>9 DEF DevicesInitialized, WorkerFrame, SystemFrame
<1>10. CASE Listen
  BY <1>10 DEF Listen, SystemFrame, Outcome
<1>11. CASE EnumerateDeviceSessions
  BY <1>11 DEF EnumerateDeviceSessions, SystemFrame, Outcome, LiveOn
<1>12. CASE ManagerCreated
  BY <1>12 DEF ManagerCreated, WorkerFrame, SystemFrame
<1>13. ASSUME NEW d \in Devices, InitializeDevice(d)
      PROVE  QueueTypeOK'
  BY <1>13 DEF InitializeDevice, CreateDeviceManager, SystemFrame, Outcome, NoDeviceManager
<1>14. ASSUME NEW s \in Natives, AddSessionFails(s)
      PROVE  QueueTypeOK'
  BY <1>14 DEF AddSessionFails, Drop, Done, SystemFrame, Outcome
<1>15. ASSUME NEW s \in Natives, AddSessionQueries(s)
      PROVE  QueueTypeOK'
  BY <1>15 DEF AddSessionQueries, DropDuplicate, Drop, Done, WorkerFrame, SystemFrame
<1>16. CASE AddSessionTracks
  BY <1>16 DEF AddSessionTracks, SystemFrame, Outcome
<1>17. CASE InitializeMasterSessions
  BY <1>17 DEF InitializeMasterSessions, SystemFrame, Outcome
<1>18. CASE HandleDeviceAdded
  BY <1>18, Taken DEF HandleDeviceAdded, CreateDeviceManager, Take, SystemFrame, Outcome,
    NoDeviceManager
<1>19. CASE HandleDeviceRemoved
  BY <1>19, Taken
  DEF HandleDeviceRemoved, RemoveDeviceManager, RemoveSessions, SessionsOf, Take,
      SystemFrame
<1>20. CASE HandleSessionCreated
  BY <1>20, Taken DEF HandleSessionCreated, Take, SystemFrame
<1>21. CASE HandleSessionEnded
  BY <1>21, Taken DEF HandleSessionEnded, RemoveSessions, Take, SystemFrame
<1>22. CASE HandleDefaultChanged
  BY <1>22, Taken DEF HandleDefaultChanged, RefreshMaster, Take, SystemFrame, Outcome
<1>23. CASE WorkerStops
  BY <1>23 DEF WorkerStops, Cleanup, RemoveSessions, SessionsOf, WorkerFrame, SystemFrame
<1>24. CASE Release
  BY <1>24 DEF Release
<1>25. CASE UNCHANGED vars
  BY <1>25
<1> QED
  BY <1>1, <1>2, <1>3, <1>4, <1>5, <1>6, <1>7, <1>8, <1>9, <1>10, <1>11, <1>12, <1>13,
     <1>14, <1>15, <1>16, <1>17, <1>18, <1>19, <1>20, <1>21, <1>22, <1>23, <1>24, <1>25
  DEF Next, Callbacks, Worker

\* The devices, sessions and defaults of the system keep their types.
LEMMA SystemTyped ==
  ASSUME WindowsIInv, [Next]_vars
  PROVE  SystemTypeOK'
<1> USE TypeGroups
    DEF WindowsIInv, SystemTypeOK, vars, systemVars, workerVars, mapVars, historyVars
<1>1. ASSUME NEW d \in Removable, DeviceAppears(d)
      PROVE  SystemTypeOK'
  BY <1>1, WindowsAssumption DEF DeviceAppears, CallbackFrame
<1>2. ASSUME NEW d \in Removable, DeviceGoes(d)
      PROVE  SystemTypeOK'
  BY <1>2 DEF DeviceGoes, CallbackFrame
<1>3. ASSUME NEW s \in Natives, SessionStarts(s)
      PROVE  SystemTypeOK'
  BY <1>3 DEF SessionStarts, CallbackFrame
<1>4. ASSUME NEW s \in Natives, SessionDisconnects(s)
      PROVE  SystemTypeOK'
  BY <1>4 DEF SessionDisconnects, CallbackFrame
<1>5. ASSUME NEW s \in Natives, SessionExpires(s)
      PROVE  SystemTypeOK'
  BY <1>5 DEF SessionExpires, CallbackFrame
<1>6. ASSUME NEW f \in Flows, WindowElapses(f)
      PROVE  SystemTypeOK'
  BY <1>6 DEF WindowElapses, CallbackFrame
<1>7. ASSUME NEW f \in Flows, NEW d \in Devices \cup {NoDevice}, DefaultDeviceChanged(f, d)
      PROVE  SystemTypeOK'
  BY <1>7 DEF DefaultDeviceChanged, CallbackFrame
<1>8. CASE WorkerBegins
  BY <1>8 DEF WorkerBegins, WorkerFrame, SystemFrame
<1>9. CASE DevicesInitialized
  BY <1>9 DEF DevicesInitialized, WorkerFrame, SystemFrame
<1>10. CASE Listen
  BY <1>10 DEF Listen, SystemFrame, Outcome
<1>11. CASE EnumerateDeviceSessions
  BY <1>11 DEF EnumerateDeviceSessions, SystemFrame, Outcome, LiveOn
<1>12. CASE ManagerCreated
  BY <1>12 DEF ManagerCreated, WorkerFrame, SystemFrame
<1>13. ASSUME NEW d \in Devices, InitializeDevice(d)
      PROVE  SystemTypeOK'
  BY <1>13 DEF InitializeDevice, CreateDeviceManager, SystemFrame, Outcome, NoDeviceManager
<1>14. ASSUME NEW s \in Natives, AddSessionFails(s)
      PROVE  SystemTypeOK'
  BY <1>14 DEF AddSessionFails, Drop, Done, SystemFrame, Outcome
<1>15. ASSUME NEW s \in Natives, AddSessionQueries(s)
      PROVE  SystemTypeOK'
  BY <1>15 DEF AddSessionQueries, DropDuplicate, Drop, Done, WorkerFrame, SystemFrame
<1>16. CASE AddSessionTracks
  BY <1>16 DEF AddSessionTracks, SystemFrame, Outcome
<1>17. CASE InitializeMasterSessions
  BY <1>17 DEF InitializeMasterSessions, SystemFrame, Outcome
<1>18. CASE HandleDeviceAdded
  BY <1>18 DEF HandleDeviceAdded, CreateDeviceManager, Take, SystemFrame, Outcome,
    NoDeviceManager
<1>19. CASE HandleDeviceRemoved
  BY <1>19
  DEF HandleDeviceRemoved, RemoveDeviceManager, RemoveSessions, SessionsOf, Take,
      SystemFrame
<1>20. CASE HandleSessionCreated
  BY <1>20 DEF HandleSessionCreated, Take, SystemFrame
<1>21. CASE HandleSessionEnded
  BY <1>21 DEF HandleSessionEnded, RemoveSessions, Take, SystemFrame
<1>22. CASE HandleDefaultChanged
  BY <1>22 DEF HandleDefaultChanged, RefreshMaster, Take, SystemFrame, Outcome
<1>23. CASE WorkerStops
  BY <1>23 DEF WorkerStops, Cleanup, RemoveSessions, SessionsOf, WorkerFrame, SystemFrame
<1>24. CASE Release
  BY <1>24 DEF Release
<1>25. CASE UNCHANGED vars
  BY <1>25
<1> QED
  BY <1>1, <1>2, <1>3, <1>4, <1>5, <1>6, <1>7, <1>8, <1>9, <1>10, <1>11, <1>12, <1>13,
     <1>14, <1>15, <1>16, <1>17, <1>18, <1>19, <1>20, <1>21, <1>22, <1>23, <1>24, <1>25
  DEF Next, Callbacks, Worker

\* The place of the worker and what it has in its hands keep their types.
LEMMA WorkerTyped ==
  ASSUME WindowsIInv, [Next]_vars
  PROVE  WorkerTypeOK'
<1> USE TypeGroups
    DEF WindowsIInv, WorkerTypeOK, vars, systemVars, workerVars, mapVars, historyVars
<1>1. ASSUME NEW d \in Removable, DeviceAppears(d)
      PROVE  WorkerTypeOK'
  BY <1>1 DEF DeviceAppears, CallbackFrame
<1>2. ASSUME NEW d \in Removable, DeviceGoes(d)
      PROVE  WorkerTypeOK'
  BY <1>2 DEF DeviceGoes, CallbackFrame
<1>3. ASSUME NEW s \in Natives, SessionStarts(s)
      PROVE  WorkerTypeOK'
  BY <1>3 DEF SessionStarts, CallbackFrame
<1>4. ASSUME NEW s \in Natives, SessionDisconnects(s)
      PROVE  WorkerTypeOK'
  BY <1>4 DEF SessionDisconnects, CallbackFrame
<1>5. ASSUME NEW s \in Natives, SessionExpires(s)
      PROVE  WorkerTypeOK'
  BY <1>5 DEF SessionExpires, CallbackFrame
<1>6. ASSUME NEW f \in Flows, WindowElapses(f)
      PROVE  WorkerTypeOK'
  BY <1>6 DEF WindowElapses, CallbackFrame
<1>7. ASSUME NEW f \in Flows, NEW d \in Devices \cup {NoDevice}, DefaultDeviceChanged(f, d)
      PROVE  WorkerTypeOK'
  BY <1>7 DEF DefaultDeviceChanged, CallbackFrame
<1>8. CASE WorkerBegins
  BY <1>8 DEF WorkerBegins, WorkerFrame, SystemFrame, SystemTypeOK
<1>9. CASE DevicesInitialized
  BY <1>9 DEF DevicesInitialized, WorkerFrame, SystemFrame
<1>10. CASE Listen
  BY <1>10, CreationOrder DEF Listen, SystemFrame, Outcome
<1>11. CASE EnumerateDeviceSessions
  BY <1>11, CreationOrder DEF EnumerateDeviceSessions, SystemFrame, Outcome, LiveOn
<1>12. CASE ManagerCreated
  BY <1>12 DEF ManagerCreated, WorkerFrame, SystemFrame
<1>13. ASSUME NEW d \in Devices, InitializeDevice(d)
      PROVE  WorkerTypeOK'
  BY <1>13, CreationOrder DEF InitializeDevice, CreateDeviceManager, SystemFrame, Outcome,
    NoDeviceManager
<1>14. ASSUME NEW s \in Natives, AddSessionFails(s)
      PROVE  WorkerTypeOK'
  BY <1>14 DEF AddSessionFails, Drop, Done, SystemFrame, Outcome
<1>15. ASSUME NEW s \in Natives, AddSessionQueries(s)
      PROVE  WorkerTypeOK'
  BY <1>15 DEF AddSessionQueries, DropDuplicate, Drop, Done, WorkerFrame, SystemFrame
<1>16. CASE AddSessionTracks
  BY <1>16 DEF AddSessionTracks, SystemFrame, Outcome
<1>17. CASE InitializeMasterSessions
  BY <1>17 DEF InitializeMasterSessions, SystemFrame, Outcome
<1>18. CASE HandleDeviceAdded
  BY <1>18, CreationOrder, Taken, JobKinds
  DEF HandleDeviceAdded, CreateDeviceManager, Take, SystemFrame, Outcome, NoDeviceManager
<1>19. CASE HandleDeviceRemoved
  BY <1>19
  DEF HandleDeviceRemoved, RemoveDeviceManager, RemoveSessions, SessionsOf, Take,
      SystemFrame
<1>20. CASE HandleSessionCreated
  BY <1>20, Taken, JobKinds DEF HandleSessionCreated, Take, SystemFrame
<1>21. CASE HandleSessionEnded
  BY <1>21 DEF HandleSessionEnded, RemoveSessions, Take, SystemFrame
<1>22. CASE HandleDefaultChanged
  BY <1>22 DEF HandleDefaultChanged, RefreshMaster, Take, SystemFrame, Outcome
<1>23. CASE WorkerStops
  BY <1>23 DEF WorkerStops, Cleanup, RemoveSessions, SessionsOf, WorkerFrame, SystemFrame
<1>24. CASE Release
  BY <1>24 DEF Release
<1>25. CASE UNCHANGED vars
  BY <1>25
<1> QED
  BY <1>1, <1>2, <1>3, <1>4, <1>5, <1>6, <1>7, <1>8, <1>9, <1>10, <1>11, <1>12, <1>13,
     <1>14, <1>15, <1>16, <1>17, <1>18, <1>19, <1>20, <1>21, <1>22, <1>23, <1>24, <1>25
  DEF Next, Callbacks, Worker

\* The managers, the tracked sessions and the masters keep their types.
LEMMA MapTyped ==
  ASSUME WindowsIInv, [Next]_vars
  PROVE  MapTypeOK'
<1> USE TypeGroups
    DEF WindowsIInv, MapTypeOK, vars, systemVars, workerVars, mapVars, historyVars
<1>1. ASSUME NEW d \in Removable, DeviceAppears(d)
      PROVE  MapTypeOK'
  BY <1>1 DEF DeviceAppears, CallbackFrame
<1>2. ASSUME NEW d \in Removable, DeviceGoes(d)
      PROVE  MapTypeOK'
  BY <1>2 DEF DeviceGoes, CallbackFrame
<1>3. ASSUME NEW s \in Natives, SessionStarts(s)
      PROVE  MapTypeOK'
  BY <1>3 DEF SessionStarts, CallbackFrame
<1>4. ASSUME NEW s \in Natives, SessionDisconnects(s)
      PROVE  MapTypeOK'
  BY <1>4 DEF SessionDisconnects, CallbackFrame
<1>5. ASSUME NEW s \in Natives, SessionExpires(s)
      PROVE  MapTypeOK'
  BY <1>5 DEF SessionExpires, CallbackFrame
<1>6. ASSUME NEW f \in Flows, WindowElapses(f)
      PROVE  MapTypeOK'
  BY <1>6 DEF WindowElapses, CallbackFrame
<1>7. ASSUME NEW f \in Flows, NEW d \in Devices \cup {NoDevice}, DefaultDeviceChanged(f, d)
      PROVE  MapTypeOK'
  BY <1>7 DEF DefaultDeviceChanged, CallbackFrame
<1>8. CASE WorkerBegins
  BY <1>8 DEF WorkerBegins, WorkerFrame, SystemFrame
<1>9. CASE DevicesInitialized
  BY <1>9 DEF DevicesInitialized, WorkerFrame, SystemFrame
<1>10. CASE Listen
  BY <1>10 DEF Listen, SystemFrame, Outcome, WorkerTypeOK, WorkerInv
<1>11. CASE EnumerateDeviceSessions
  BY <1>11 DEF EnumerateDeviceSessions, SystemFrame, Outcome, LiveOn
<1>12. CASE ManagerCreated
  BY <1>12 DEF ManagerCreated, WorkerFrame, SystemFrame, WorkerTypeOK
<1>13. ASSUME NEW d \in Devices, InitializeDevice(d)
      PROVE  MapTypeOK'
  BY <1>13 DEF InitializeDevice, CreateDeviceManager, SystemFrame, Outcome, NoDeviceManager
<1>14. ASSUME NEW s \in Natives, AddSessionFails(s)
      PROVE  MapTypeOK'
  BY <1>14 DEF AddSessionFails, Drop, Done, SystemFrame, Outcome
<1>15. ASSUME NEW s \in Natives, AddSessionQueries(s)
      PROVE  MapTypeOK'
  BY <1>15 DEF AddSessionQueries, DropDuplicate, Drop, Done, WorkerFrame, SystemFrame
<1>16. CASE AddSessionTracks
  BY <1>16 DEF AddSessionTracks, SystemFrame, Outcome, WorkerTypeOK, WorkerInv
<1>17. CASE InitializeMasterSessions
  BY <1>17 DEF InitializeMasterSessions, SystemFrame, Outcome, SystemTypeOK
<1>18. CASE HandleDeviceAdded
  BY <1>18, Taken, JobKinds DEF HandleDeviceAdded, CreateDeviceManager, Take, SystemFrame,
    Outcome, NoDeviceManager
<1>19. CASE HandleDeviceRemoved
  BY <1>19
  DEF HandleDeviceRemoved, RemoveDeviceManager, RemoveSessions, SessionsOf, Take,
      SystemFrame
<1>20. CASE HandleSessionCreated
  BY <1>20 DEF HandleSessionCreated, Take, SystemFrame
<1>21. CASE HandleSessionEnded
  BY <1>21 DEF HandleSessionEnded, RemoveSessions, Take, SystemFrame
<1>22. CASE HandleDefaultChanged
  BY <1>22, Taken, JobKinds
  DEF HandleDefaultChanged, RefreshMaster, Take, SystemFrame, Outcome, SystemTypeOK
<1>23. CASE WorkerStops
  BY <1>23 DEF WorkerStops, Cleanup, RemoveSessions, SessionsOf, WorkerFrame, SystemFrame
<1>24. CASE Release
  BY <1>24 DEF Release
<1>25. CASE UNCHANGED vars
  BY <1>25
<1> QED
  BY <1>1, <1>2, <1>3, <1>4, <1>5, <1>6, <1>7, <1>8, <1>9, <1>10, <1>11, <1>12, <1>13,
     <1>14, <1>15, <1>16, <1>17, <1>18, <1>19, <1>20, <1>21, <1>22, <1>23, <1>24, <1>25
  DEF Next, Callbacks, Worker

\* The debounce times and the histories keep their types.
LEMMA HistoryTyped ==
  ASSUME WindowsIInv, [Next]_vars
  PROVE  HistoryTypeOK'
<1> USE TypeGroups
    DEF WindowsIInv, HistoryTypeOK, vars, systemVars, workerVars, mapVars, historyVars
<1>1. ASSUME NEW d \in Removable, DeviceAppears(d)
      PROVE  HistoryTypeOK'
  BY <1>1 DEF DeviceAppears, CallbackFrame
<1>2. ASSUME NEW d \in Removable, DeviceGoes(d)
      PROVE  HistoryTypeOK'
  BY <1>2 DEF DeviceGoes, CallbackFrame
<1>3. ASSUME NEW s \in Natives, SessionStarts(s)
      PROVE  HistoryTypeOK'
  BY <1>3 DEF SessionStarts, CallbackFrame
<1>4. ASSUME NEW s \in Natives, SessionDisconnects(s)
      PROVE  HistoryTypeOK'
  BY <1>4 DEF SessionDisconnects, CallbackFrame
<1>5. ASSUME NEW s \in Natives, SessionExpires(s)
      PROVE  HistoryTypeOK'
  BY <1>5 DEF SessionExpires, CallbackFrame
<1>6. ASSUME NEW f \in Flows, WindowElapses(f)
      PROVE  HistoryTypeOK'
  BY <1>6 DEF WindowElapses, CallbackFrame
<1>7. ASSUME NEW f \in Flows, NEW d \in Devices \cup {NoDevice}, DefaultDeviceChanged(f, d)
      PROVE  HistoryTypeOK'
  BY <1>7 DEF DefaultDeviceChanged, CallbackFrame
<1>8. CASE WorkerBegins
  BY <1>8 DEF WorkerBegins, WorkerFrame, SystemFrame
<1>9. CASE DevicesInitialized
  BY <1>9 DEF DevicesInitialized, WorkerFrame, SystemFrame
<1>10. CASE Listen
  BY <1>10 DEF Listen, SystemFrame, Outcome
<1>11. CASE EnumerateDeviceSessions
  BY <1>11 DEF EnumerateDeviceSessions, SystemFrame, Outcome, LiveOn
<1>12. CASE ManagerCreated
  BY <1>12 DEF ManagerCreated, WorkerFrame, SystemFrame
<1>13. ASSUME NEW d \in Devices, InitializeDevice(d)
      PROVE  HistoryTypeOK'
  BY <1>13 DEF InitializeDevice, CreateDeviceManager, SystemFrame, Outcome, NoDeviceManager
<1>14. ASSUME NEW s \in Natives, AddSessionFails(s)
      PROVE  HistoryTypeOK'
  BY <1>14 DEF AddSessionFails, Drop, Done, SystemFrame, Outcome
<1>15. ASSUME NEW s \in Natives, AddSessionQueries(s)
      PROVE  HistoryTypeOK'
  BY <1>15 DEF AddSessionQueries, DropDuplicate, Drop, Done, WorkerFrame, SystemFrame
<1>16. CASE AddSessionTracks
  BY <1>16 DEF AddSessionTracks, SystemFrame, Outcome
<1>17. CASE InitializeMasterSessions
  BY <1>17 DEF InitializeMasterSessions, SystemFrame, Outcome
<1>18. CASE HandleDeviceAdded
  BY <1>18 DEF HandleDeviceAdded, CreateDeviceManager, Take, SystemFrame, Outcome,
    NoDeviceManager
<1>19. CASE HandleDeviceRemoved
  BY <1>19
  DEF HandleDeviceRemoved, RemoveDeviceManager, RemoveSessions, SessionsOf, Take,
      SystemFrame
<1>20. CASE HandleSessionCreated
  BY <1>20 DEF HandleSessionCreated, Take, SystemFrame
<1>21. CASE HandleSessionEnded
  BY <1>21 DEF HandleSessionEnded, RemoveSessions, Take, SystemFrame
<1>22. CASE HandleDefaultChanged
  BY <1>22 DEF HandleDefaultChanged, RefreshMaster, Take, SystemFrame, Outcome
<1>23. CASE WorkerStops
  BY <1>23 DEF WorkerStops, Cleanup, RemoveSessions, SessionsOf, WorkerFrame, SystemFrame
<1>24. CASE Release
  BY <1>24 DEF Release
<1>25. CASE UNCHANGED vars
  BY <1>25
<1> QED
  BY <1>1, <1>2, <1>3, <1>4, <1>5, <1>6, <1>7, <1>8, <1>9, <1>10, <1>11, <1>12, <1>13,
     <1>14, <1>15, <1>16, <1>17, <1>18, <1>19, <1>20, <1>21, <1>22, <1>23, <1>24, <1>25
  DEF Next, Callbacks, Worker

\* All types are kept where those of the references are.
LEMMA TypeKept ==
  ASSUME WindowsIInv, [Next]_vars, RefsTypeOK'
  PROVE  WinTypeOK'
<1>1. /\ SystemTypeOK' /\ QueueTypeOK' /\ WorkerTypeOK' /\ MapTypeOK' /\ HistoryTypeOK'
  BY SMTT(30), SystemTyped, QueueTyped, WorkerTyped, MapTyped, HistoryTyped
<1> QED
  BY <1>1 DEF WinTypeOK, SystemTypeOK, QueueTypeOK, WorkerTypeOK, MapTypeOK, RefsTypeOK,
              HistoryTypeOK

-----------------------------------------------------------------------------
(* Every part of the invariant is kept.                                     *)

\* What the worker has in its hands fits its place, in every step.
LEMMA WorkerKept ==
  ASSUME WindowsIInv, [Next]_vars
  PROVE  WorkerInv'
<1> USE TypeGroups
    DEF WindowsIInv, WorkerInv, WorkerTypeOK, Creating, Id, vars, systemVars, workerVars,
        mapVars, historyVars
<1>1. ASSUME NEW d \in Removable, DeviceAppears(d)
      PROVE  WorkerInv'
  BY <1>1, HeardJob, JobsOf, WindowsAssumption DEF DeviceAppears, CallbackFrame, Hearing
<1>2. ASSUME NEW d \in Removable, DeviceGoes(d)
      PROVE  WorkerInv'
  BY <1>2, HeardJob, JobsOf, WindowsAssumption DEF DeviceGoes, CallbackFrame, Hearing
<1>3. ASSUME NEW s \in Natives, SessionStarts(s)
      PROVE  WorkerInv'
  BY <1>3, Dispatched, JobsOf DEF SessionStarts, CallbackFrame, ListeningInv, Listenable
<1>4. ASSUME NEW s \in Natives, SessionDisconnects(s)
      PROVE  WorkerInv'
  BY <1>4, RemovalJob DEF SessionDisconnects, CallbackFrame, ListeningInv
<1>5. ASSUME NEW s \in Natives, SessionExpires(s)
      PROVE  WorkerInv'
  BY <1>5, RemovalJob DEF SessionExpires, CallbackFrame, ListeningInv
<1>6. ASSUME NEW f \in Flows, WindowElapses(f)
      PROVE  WorkerInv'
  BY <1>6 DEF WindowElapses, CallbackFrame
<1>7. ASSUME NEW f \in Flows, NEW d \in Devices \cup {NoDevice}, DefaultDeviceChanged(f, d)
      PROVE  WorkerInv'
  BY <1>7, Dispatched, JobsOf DEF DefaultDeviceChanged, CallbackFrame, Hearing
<1>8. CASE WorkerBegins
  BY <1>8 DEF WorkerBegins, WorkerFrame, SystemFrame
<1>9. CASE DevicesInitialized
  BY <1>9 DEF DevicesInitialized, WorkerFrame, SystemFrame
<1>10. CASE Listen
  BY <1>10, CreationOrder DEF Listen, SystemFrame, Outcome
<1>11. CASE EnumerateDeviceSessions
  BY <1>11, CreationOrder DEF EnumerateDeviceSessions, SystemFrame, Outcome, LiveOn
<1>12. CASE ManagerCreated
  BY <1>12 DEF ManagerCreated, WorkerFrame, SystemFrame
<1>13. ASSUME NEW d \in Devices, InitializeDevice(d)
      PROVE  WorkerInv'
  <2>1. /\ pc = "devices" /\ d \in devices /\ devices' = devices \ {d} /\ CreateDeviceManager(d)
        /\ UNCHANGED <<workChan, ready, controls, adding, tracked, master>>
    BY <1>13 DEF InitializeDevice
  <2>2. CASE NoDeviceManager
    BY <2>1, <2>2 DEF NoDeviceManager
  <2>3. CASE ~NoDeviceManager /\ FlowOf[d] = Output
    <3>1. pc' = "listen" /\ device' = d /\ UNCHANGED managers /\ d \notin managers
      BY <2>1, <2>3, CreationOrder DEF CreateDeviceManager
    <3>2. controls = {} /\ adding = Nothing /\ device = NoDevice /\ d # NoDevice
      BY <2>1, WindowsAssumption
    <3>3. devices' \cap (managers' \cup Creating') = {} /\ (ready => devices' = {})
      BY <2>1, <2>3, <3>1, <3>2
    <3>4. \A t \in tracked' : adding' # Nothing => Id(t)' # Id(adding)'
      BY <2>1, <3>2
    <3> QED
      BY <2>1, <2>3, <3>1, <3>2, <3>3, <3>4
  <2>4. CASE ~NoDeviceManager /\ FlowOf[d] # Output
    <3>1. /\ pc' = (IF ready THEN "idle" ELSE "devices") /\ managers' = managers \cup {d}
          /\ UNCHANGED device
      BY <2>1, <2>4 DEF CreateDeviceManager
    <3> QED
      BY <2>1, <2>4, <3>1
  <2> QED
    BY <2>2, <2>3, <2>4
<1>14. ASSUME NEW s \in Natives, AddSessionFails(s)
      PROVE  WorkerInv'
  BY <1>14 DEF AddSessionFails, Drop, Done, SystemFrame, Outcome
<1>15. ASSUME NEW s \in Natives, AddSessionQueries(s)
      PROVE  WorkerInv'
  <2>1. /\ pc = "sessions" /\ s \in controls
        /\ UNCHANGED <<workChan, ready, devices, device, managers, tracked, master>>
    BY <1>15 DEF AddSessionQueries
  <2>2. CASE \E t \in tracked : Id(t) = Id(s)
    <3>1. /\ controls' = controls \ {s} /\ adding' = adding
          /\ pc' = IF device = NoDevice /\ controls' = {} THEN "idle" ELSE "sessions"
      BY <1>15, <2>2 DEF AddSessionQueries, DropDuplicate, Drop, Done
    <3> QED
      BY <2>1, <3>1
  <2>3. CASE ~\E t \in tracked : Id(t) = Id(s)
    <3>1. adding' = s /\ controls' = controls \ {s} /\ pc' = "insert" /\ s # Nothing
      BY <1>15, <2>3, WindowsAssumption DEF AddSessionQueries
    <3> QED
      BY <2>1, <2>3, <3>1
  <2> QED
    BY <2>2, <2>3
<1>16. CASE AddSessionTracks
  BY <1>16 DEF AddSessionTracks, SystemFrame, Outcome
<1>17. CASE InitializeMasterSessions
  BY <1>17 DEF InitializeMasterSessions, SystemFrame, Outcome
<1>18. CASE HandleDeviceAdded
  <2> DEFINE d == Head(workChan).what
  <2>1. /\ pc = "idle" /\ CreateDeviceManager(d) /\ d \in Devices
        /\ UNCHANGED <<ready, devices, controls, adding, tracked, master>>
    BY <1>18, Taken, JobKinds DEF HandleDeviceAdded
  <2> HIDE DEF d
  <2>2. CASE NoDeviceManager
    BY <2>1, <2>2 DEF NoDeviceManager
  <2>3. CASE ~NoDeviceManager /\ FlowOf[d] = Output
    <3>1. pc' = "listen" /\ device' = d /\ UNCHANGED managers /\ d \notin managers
      BY <2>1, <2>3, CreationOrder DEF CreateDeviceManager
    <3>2. controls = {} /\ adding = Nothing /\ device = NoDevice /\ d # NoDevice
      BY <2>1, WindowsAssumption
    <3>3. devices' \cap (managers' \cup Creating') = {} /\ (ready => devices' = {})
      BY <2>1, <2>3, <3>1, <3>2
    <3>4. \A t \in tracked' : adding' # Nothing => Id(t)' # Id(adding)'
      BY <2>1, <3>2
    <3> QED
      BY <2>1, <2>3, <3>1, <3>2, <3>3, <3>4
  <2>4. CASE ~NoDeviceManager /\ FlowOf[d] # Output
    <3>1. /\ pc' = (IF ready THEN "idle" ELSE "devices") /\ managers' = managers \cup {d}
          /\ UNCHANGED device
      BY <2>1, <2>4 DEF CreateDeviceManager
    <3> QED
      BY <2>1, <2>4, <3>1
  <2> QED
    BY <2>2, <2>3, <2>4
<1>19. CASE HandleDeviceRemoved
  BY <1>19, Taken
  DEF HandleDeviceRemoved, RemoveDeviceManager, RemoveSessions, SessionsOf, Take,
      SystemFrame
<1>20. CASE HandleSessionCreated
  BY SMTT(30), <1>20, Taken DEF HandleSessionCreated, Take, SystemFrame
<1>21. CASE HandleSessionEnded
  BY <1>21, Taken DEF HandleSessionEnded, RemoveSessions, Take, SystemFrame
<1>22. CASE HandleDefaultChanged
  BY <1>22, Taken DEF HandleDefaultChanged, RefreshMaster, Take, SystemFrame, Outcome
<1>23. CASE WorkerStops
  BY <1>23 DEF WorkerStops, Cleanup, RemoveSessions, SessionsOf, WorkerFrame, SystemFrame
<1>24. CASE Release
  BY <1>24 DEF Release
<1>25. CASE UNCHANGED vars
  BY <1>25
<1> QED
  BY <1>1, <1>2, <1>3, <1>4, <1>5, <1>6, <1>7, <1>8, <1>9, <1>10, <1>11, <1>12, <1>13,
     <1>14, <1>15, <1>16, <1>17, <1>18, <1>19, <1>20, <1>21, <1>22, <1>23, <1>24, <1>25
  DEF Next, Callbacks, Worker

\* The finder keeps listening to the devices it manages and to the sessions
\* it tracks, and to no others.
LEMMA ListeningKept ==
  ASSUME WindowsIInv, [Next]_vars
  PROVE  ListeningInv'
<1> USE TypeGroups
    DEF WindowsIInv, ListeningInv, Listenable, WorkerInv, Creating, WorkerTypeOK, HistoryTypeOK,
        vars, systemVars, workerVars, mapVars, historyVars
<1>1. ASSUME NEW d \in Removable, DeviceAppears(d)
      PROVE  ListeningInv'
  BY <1>1, HeardJob, JobsOf, WindowsAssumption DEF DeviceAppears, CallbackFrame
<1>2. ASSUME NEW d \in Removable, DeviceGoes(d)
      PROVE  ListeningInv'
  BY <1>2, HeardJob, JobsOf, WindowsAssumption DEF DeviceGoes, CallbackFrame
<1>3. ASSUME NEW s \in Natives, SessionStarts(s)
      PROVE  ListeningInv'
  BY <1>3, Dispatched, JobsOf DEF SessionStarts, CallbackFrame
<1>4. ASSUME NEW s \in Natives, SessionDisconnects(s)
      PROVE  ListeningInv'
  BY <1>4, RemovalJob DEF SessionDisconnects, CallbackFrame
<1>5. ASSUME NEW s \in Natives, SessionExpires(s)
      PROVE  ListeningInv'
  BY <1>5, RemovalJob DEF SessionExpires, CallbackFrame
<1>6. ASSUME NEW f \in Flows, WindowElapses(f)
      PROVE  ListeningInv'
  BY <1>6 DEF WindowElapses, CallbackFrame
<1>7. ASSUME NEW f \in Flows, NEW d \in Devices \cup {NoDevice}, DefaultDeviceChanged(f, d)
      PROVE  ListeningInv'
  BY <1>7, Dispatched, JobsOf DEF DefaultDeviceChanged, CallbackFrame
<1>8. CASE WorkerBegins
  BY <1>8 DEF WorkerBegins, WorkerFrame, SystemFrame
<1>9. CASE DevicesInitialized
  BY <1>9 DEF DevicesInitialized, WorkerFrame, SystemFrame
<1>10. CASE Listen
  BY <1>10, CreationOrder DEF Listen, SystemFrame, Outcome
<1>11. CASE EnumerateDeviceSessions
  BY <1>11, CreationOrder DEF EnumerateDeviceSessions, SystemFrame, Outcome, LiveOn
<1>12. CASE ManagerCreated
  BY <1>12 DEF ManagerCreated, WorkerFrame, SystemFrame
<1>13. ASSUME NEW d \in Devices, InitializeDevice(d)
      PROVE  ListeningInv'
  BY <1>13, CreationOrder DEF InitializeDevice, CreateDeviceManager, SystemFrame, Outcome,
    NoDeviceManager
<1>14. ASSUME NEW s \in Natives, AddSessionFails(s)
      PROVE  ListeningInv'
  BY <1>14 DEF AddSessionFails, Drop, Done, SystemFrame, Outcome
<1>15. ASSUME NEW s \in Natives, AddSessionQueries(s)
      PROVE  ListeningInv'
  BY <1>15 DEF AddSessionQueries, DropDuplicate, Drop, Done, WorkerFrame, SystemFrame
<1>16. CASE AddSessionTracks
  BY <1>16 DEF AddSessionTracks, SystemFrame, Outcome
<1>17. CASE InitializeMasterSessions
  BY <1>17 DEF InitializeMasterSessions, SystemFrame, Outcome
<1>18. CASE HandleDeviceAdded
  BY <1>18, Taken, CreationOrder, JobKinds
  DEF HandleDeviceAdded, CreateDeviceManager, Take, SystemFrame, Outcome, NoDeviceManager
<1>19. CASE HandleDeviceRemoved
  <2> DEFINE d == Head(workChan).what
  <2>1. pc = "idle" /\ RemoveDeviceManager(d) /\ UNCHANGED <<pc, device, failed>>
    BY <1>19, Taken DEF HandleDeviceRemoved
  <2> HIDE DEF d
  <2>2. CASE d \in managers
    <3>1. /\ managers' = managers \ {d} /\ listening' = listening \ {d}
          /\ tracked' = tracked \ SessionsOf(d) /\ registered' = registered \ SessionsOf(d)
      BY <2>1, <2>2 DEF RemoveDeviceManager, RemoveSessions
    <3>2. Creating = {} /\ Creating' = {} /\ Listenable' = Listenable \ {d}
      BY <2>1, <3>1
    <3> QED
      BY <2>1, <3>1, <3>2
  <2>3. CASE d \notin managers
    BY <2>1, <2>3 DEF RemoveDeviceManager
  <2> QED
    BY <2>2, <2>3
<1>20. CASE HandleSessionCreated
  BY <1>20, Taken DEF HandleSessionCreated, Take, SystemFrame
<1>21. CASE HandleSessionEnded
  BY <1>21, Taken DEF HandleSessionEnded, RemoveSessions, Take, SystemFrame
<1>22. CASE HandleDefaultChanged
  BY <1>22, Taken DEF HandleDefaultChanged, RefreshMaster, Take, SystemFrame, Outcome
<1>23. CASE WorkerStops
  BY <1>23 DEF WorkerStops, Cleanup, RemoveSessions, SessionsOf, WorkerFrame, SystemFrame
<1>24. CASE Release
  BY <1>24 DEF Release
<1>25. CASE UNCHANGED vars
  BY <1>25
<1> QED
  BY <1>1, <1>2, <1>3, <1>4, <1>5, <1>6, <1>7, <1>8, <1>9, <1>10, <1>11, <1>12, <1>13,
     <1>14, <1>15, <1>16, <1>17, <1>18, <1>19, <1>20, <1>21, <1>22, <1>23, <1>24, <1>25
  DEF Next, Callbacks, Worker

\* Every change of the maps is reported to the handler in the step that makes
\* it.
LEMMA KnownKept ==
  ASSUME WindowsIInv, [Next]_vars
  PROVE  KnownInv'
<1> USE TypeGroups
    DEF WindowsIInv, KnownInv, Reportable, WorkerInv, Creating, WorkerTypeOK, MapTypeOK,
        HistoryTypeOK, vars, systemVars, workerVars, mapVars, historyVars
<1>1. ASSUME NEW d \in Removable, DeviceAppears(d)
      PROVE  KnownInv'
  BY <1>1, HeardJob, JobsOf, WindowsAssumption DEF DeviceAppears, CallbackFrame
<1>2. ASSUME NEW d \in Removable, DeviceGoes(d)
      PROVE  KnownInv'
  BY <1>2, HeardJob, JobsOf, WindowsAssumption DEF DeviceGoes, CallbackFrame
<1>3. ASSUME NEW s \in Natives, SessionStarts(s)
      PROVE  KnownInv'
  BY <1>3, Dispatched, JobsOf DEF SessionStarts, CallbackFrame
<1>4. ASSUME NEW s \in Natives, SessionDisconnects(s)
      PROVE  KnownInv'
  BY <1>4, RemovalJob DEF SessionDisconnects, CallbackFrame
<1>5. ASSUME NEW s \in Natives, SessionExpires(s)
      PROVE  KnownInv'
  BY <1>5, RemovalJob DEF SessionExpires, CallbackFrame
<1>6. ASSUME NEW f \in Flows, WindowElapses(f)
      PROVE  KnownInv'
  BY <1>6 DEF WindowElapses, CallbackFrame
<1>7. ASSUME NEW f \in Flows, NEW d \in Devices \cup {NoDevice}, DefaultDeviceChanged(f, d)
      PROVE  KnownInv'
  BY <1>7, Dispatched, JobsOf DEF DefaultDeviceChanged, CallbackFrame
<1>8. CASE WorkerBegins
  BY <1>8 DEF WorkerBegins, WorkerFrame, SystemFrame
<1>9. CASE DevicesInitialized
  BY <1>9 DEF DevicesInitialized, WorkerFrame, SystemFrame
<1>10. CASE Listen
  BY <1>10, CreationOrder DEF Listen, SystemFrame, Outcome
<1>11. CASE EnumerateDeviceSessions
  BY <1>11, CreationOrder DEF EnumerateDeviceSessions, SystemFrame, Outcome, LiveOn
<1>12. CASE ManagerCreated
  BY <1>12 DEF ManagerCreated, WorkerFrame, SystemFrame
<1>13. ASSUME NEW d \in Devices, InitializeDevice(d)
      PROVE  KnownInv'
  BY <1>13, CreationOrder, WindowsAssumption
  DEF InitializeDevice, CreateDeviceManager, SystemFrame, Outcome, NoDeviceManager
<1>14. ASSUME NEW s \in Natives, AddSessionFails(s)
      PROVE  KnownInv'
  BY <1>14 DEF AddSessionFails, Drop, Done, SystemFrame, Outcome
<1>15. ASSUME NEW s \in Natives, AddSessionQueries(s)
      PROVE  KnownInv'
  BY <1>15 DEF AddSessionQueries, DropDuplicate, Drop, Done, WorkerFrame, SystemFrame
<1>16. CASE AddSessionTracks
  BY <1>16 DEF AddSessionTracks, SystemFrame, Outcome
<1>17. CASE InitializeMasterSessions
  BY <1>17 DEF InitializeMasterSessions, SystemFrame, Outcome
<1>18. CASE HandleDeviceAdded
  BY <1>18, Taken, CreationOrder, JobKinds, WindowsAssumption
  DEF HandleDeviceAdded, CreateDeviceManager, Take, SystemFrame, Outcome, NoDeviceManager
<1>19. CASE HandleDeviceRemoved
  BY <1>19, Taken, WindowsAssumption
  DEF HandleDeviceRemoved, RemoveDeviceManager, RemoveSessions, SessionsOf, Take,
      SystemFrame
<1>20. CASE HandleSessionCreated
  BY <1>20, Taken DEF HandleSessionCreated, Take, SystemFrame
<1>21. CASE HandleSessionEnded
  BY <1>21, Taken, WindowsAssumption
  DEF HandleSessionEnded, RemoveSessions, Take, SystemFrame
<1>22. CASE HandleDefaultChanged
  <2>1. PICK f \in Flows : RefreshMaster(f) /\ UNCHANGED <<tracked, managers, device>>
    BY <1>22, Taken, JobKinds DEF HandleDefaultChanged
  <2>2. PICK d \in {default[f], NoDevice} : master' = [master EXCEPT ![f] = d]
    BY <2>1 DEF RefreshMaster
  <2>3. {g \in Flows : master'[g] # NoDevice} =
          IF master'[f] = NoDevice THEN {g \in Flows : master[g] # NoDevice} \ {f}
                                   ELSE {g \in Flows : master[g] # NoDevice} \cup {f}
    BY <2>2
  <2>4. known' = (IF master'[f] = NoDevice THEN known \ {f} ELSE known \cup {f})
    BY <2>1 DEF RefreshMaster
  <2>5. ~failed' => ~failed
    BY <2>1 DEF RefreshMaster, Outcome
  <2> QED
    BY <2>1, <2>3, <2>4, <2>5, WindowsAssumption
<1>23. CASE WorkerStops
  BY <1>23, WindowsAssumption
  DEF WorkerStops, Cleanup, RemoveSessions, SessionsOf, WorkerFrame, SystemFrame
<1>24. CASE Release
  BY <1>24 DEF Release
<1>25. CASE UNCHANGED vars
  BY <1>25
<1> QED
  BY <1>1, <1>2, <1>3, <1>4, <1>5, <1>6, <1>7, <1>8, <1>9, <1>10, <1>11, <1>12, <1>13,
     <1>14, <1>15, <1>16, <1>17, <1>18, <1>19, <1>20, <1>21, <1>22, <1>23, <1>24, <1>25
  DEF Next, Callbacks, Worker

\* A session lives once, on a device in use; a job to remove it means it has
\* ended.
LEMMA LiveKept ==
  ASSUME WindowsIInv, [Next]_vars
  PROVE  LiveInv'
<1> USE TypeGroups
    DEF WindowsIInv, LiveInv, Job, SystemTypeOK, vars, systemVars, workerVars, mapVars,
        historyVars
<1>1. ASSUME NEW d \in Removable, DeviceAppears(d)
      PROVE  LiveInv'
  <2>1. /\ UNCHANGED <<controls, adding, tracked>>
        /\ native' = native
    BY <1>1 DEF DeviceAppears, CallbackFrame
  <2>2. Range(workChan') \subseteq Range(workChan) \cup {Job("appeared", d)}
    BY <1>1, HeardJob, JobsOf, WindowsAssumption DEF DeviceAppears, Enqueued, Dropped
  <2> QED
    BY <1>1, <2>1, <2>2 DEF DeviceAppears
<1>2. ASSUME NEW d \in Removable, DeviceGoes(d)
      PROVE  LiveInv'
  <2>1. /\ UNCHANGED <<controls, adding, tracked>>
        /\ native' = [s \in Natives |-> IF DeviceOf[s] = d /\ native[s] = "live"
                                     THEN "disconnected" ELSE native[s]]
    BY <1>2 DEF DeviceGoes, CallbackFrame
  <2>2. Range(workChan') \subseteq Range(workChan) \cup {Job("gone", d)}
    BY <1>2, HeardJob, JobsOf, WindowsAssumption DEF DeviceGoes, Enqueued, Dropped
  <2> QED
    BY <1>2, <2>1, <2>2 DEF DeviceGoes
<1>3. ASSUME NEW s \in Natives, SessionStarts(s)
      PROVE  LiveInv'
  <2>1. /\ UNCHANGED <<controls, adding, tracked>>
        /\ native' = [native EXCEPT ![s] = "live"] /\ active' = active
    BY <1>3 DEF SessionStarts, CallbackFrame
  <2>2. Range(workChan') \subseteq Range(workChan) \cup {Job("add", s)}
    BY <1>3, Dispatched, JobsOf DEF SessionStarts, Enqueued, Dropped
  <2> QED
    BY <1>3, <2>1, <2>2 DEF SessionStarts
<1>4. ASSUME NEW s \in Natives, SessionDisconnects(s)
      PROVE  LiveInv'
  <2>1. /\ UNCHANGED <<controls, adding, tracked>>
        /\ native' = [native EXCEPT ![s] = "disconnected"]
    BY <1>4 DEF SessionDisconnects, CallbackFrame
  <2>2. Range(workChan') \subseteq Range(workChan) \cup {Job("remove", s)}
    BY <1>4, RemovalJob DEF SessionDisconnects, Enqueued, Dropped
  <2> QED
    BY <1>4, <2>1, <2>2 DEF SessionDisconnects
<1>5. ASSUME NEW s \in Natives, SessionExpires(s)
      PROVE  LiveInv'
  <2>1. /\ UNCHANGED <<controls, adding, tracked>>
        /\ native' = [native EXCEPT ![s] = "expired"]
    BY <1>5 DEF SessionExpires, CallbackFrame
  <2>2. Range(workChan') \subseteq Range(workChan) \cup {Job("remove", s)}
    BY <1>5, RemovalJob DEF SessionExpires, Enqueued, Dropped
  <2> QED
    BY <1>5, <2>1, <2>2 DEF SessionExpires
<1>6. ASSUME NEW f \in Flows, WindowElapses(f)
      PROVE  LiveInv'
  BY <1>6 DEF WindowElapses, CallbackFrame
<1>7. ASSUME NEW f \in Flows, NEW d \in Devices \cup {NoDevice}, DefaultDeviceChanged(f, d)
      PROVE  LiveInv'
  <2>1. /\ UNCHANGED <<controls, adding, tracked>>
        /\ native' = native
    BY <1>7 DEF DefaultDeviceChanged, CallbackFrame
  <2>2. Range(workChan') \subseteq Range(workChan) \cup {Job("default", f)}
    BY <1>7, Dispatched, JobsOf DEF DefaultDeviceChanged, Enqueued, Dropped
  <2> QED
    BY <1>7, <2>1, <2>2 DEF DefaultDeviceChanged
<1>8. CASE WorkerBegins
  BY <1>8 DEF WorkerBegins, WorkerFrame, SystemFrame
<1>9. CASE DevicesInitialized
  BY <1>9 DEF DevicesInitialized, WorkerFrame, SystemFrame
<1>10. CASE Listen
  BY <1>10 DEF Listen, SystemFrame, Outcome
<1>11. CASE EnumerateDeviceSessions
  BY <1>11 DEF EnumerateDeviceSessions, SystemFrame, Outcome, LiveOn
<1>12. CASE ManagerCreated
  BY <1>12 DEF ManagerCreated, WorkerFrame, SystemFrame
<1>13. ASSUME NEW d \in Devices, InitializeDevice(d)
      PROVE  LiveInv'
  BY <1>13 DEF InitializeDevice, CreateDeviceManager, SystemFrame, Outcome, NoDeviceManager
<1>14. ASSUME NEW s \in Natives, AddSessionFails(s)
      PROVE  LiveInv'
  BY <1>14 DEF AddSessionFails, Drop, Done, SystemFrame, Outcome
<1>15. ASSUME NEW s \in Natives, AddSessionQueries(s)
      PROVE  LiveInv'
  BY <1>15 DEF AddSessionQueries, DropDuplicate, Drop, Done, WorkerFrame, SystemFrame
<1>16. CASE AddSessionTracks
  <2>1. /\ UNCHANGED <<active, native, workChan, controls>> /\ tracked' = tracked \cup {adding}
        /\ adding' = Nothing /\ Nothing \notin Natives
    BY <1>16, WindowsAssumption DEF AddSessionTracks, SystemFrame, Outcome
  <2> QED
    BY <2>1
<1>17. CASE InitializeMasterSessions
  BY <1>17 DEF InitializeMasterSessions, SystemFrame, Outcome
<1>18. CASE HandleDeviceAdded
  BY <1>18, Taken DEF HandleDeviceAdded, CreateDeviceManager, Take, SystemFrame, Outcome,
    NoDeviceManager
<1>19. CASE HandleDeviceRemoved
  BY <1>19, Taken
  DEF HandleDeviceRemoved, RemoveDeviceManager, RemoveSessions, SessionsOf, Take,
      SystemFrame
<1>20. CASE HandleSessionCreated
  <2>1. /\ UNCHANGED <<active, native, adding, tracked>> /\ controls' = {Head(workChan).what}
    BY <1>20 DEF HandleSessionCreated, Take, SystemFrame
  <2>2. /\ Job("add", Head(workChan).what) \in Range(workChan)
        /\ Range(workChan') \subseteq Range(workChan)
    BY <1>20, Taken, JobKinds DEF HandleSessionCreated
  <2> QED
    BY <2>1, <2>2
<1>21. CASE HandleSessionEnded
  BY <1>21, Taken DEF HandleSessionEnded, RemoveSessions, Take, SystemFrame
<1>22. CASE HandleDefaultChanged
  BY <1>22, Taken DEF HandleDefaultChanged, RefreshMaster, Take, SystemFrame, Outcome
<1>23. CASE WorkerStops
  BY <1>23 DEF WorkerStops, Cleanup, RemoveSessions, SessionsOf, WorkerFrame, SystemFrame
<1>24. CASE Release
  BY <1>24 DEF Release
<1>25. CASE UNCHANGED vars
  BY <1>25
<1> QED
  BY <1>1, <1>2, <1>3, <1>4, <1>5, <1>6, <1>7, <1>8, <1>9, <1>10, <1>11, <1>12, <1>13,
     <1>14, <1>15, <1>16, <1>17, <1>18, <1>19, <1>20, <1>21, <1>22, <1>23, <1>24, <1>25
  DEF Next, Callbacks, Worker

\* The references of a session that are due, by who holds them.
Added(s) == Count(workChan, Job("add", s))
Held(s) == (IF s \in controls THEN 1 ELSE 0) + (IF s = adding THEN 1 ELSE 0)
             + (IF s \in tracked THEN 1 ELSE 0)
RefsDue == \A s \in Natives : /\ Added(s) \in Nat /\ refs[s] >= Added(s) + Held(s)
                              /\ ~missed => refs[s] = Added(s) + Held(s)

\* The references that are due, counted by who holds them, are those of
\* RefsAccounted.
LEMMA DueForm ==
  ASSUME QueueTypeOK
  PROVE  RefsAccounted <=> RefsDue
<1>1. \A s \in Natives : Queued(s) = Added(s)
  BY DEF Queued, Added, Count
<1>2. \A s \in Natives : Added(s) \in Nat
  BY CountType, JobsOf DEF QueueTypeOK, Added
<1>3. \A s \in Natives : InHand(s) + Kept(s) = Held(s)
  BY ZenonT(40), Counted DEF InHand, Kept, Held
<1>4. \A s \in Natives : /\ InHand(s) \in Nat /\ Kept(s) \in Nat
  <2>1. \A s \in Natives : /\ Kept(s) = IF s \in tracked THEN 1 ELSE 0
                           /\ InHand(s) = (IF s \in controls THEN 1 ELSE 0) + (IF s = adding THEN 1 ELSE 0)
    BY Counted DEF InHand, Kept
  <2> QED
    BY <2>1
<1> QED
  BY <1>1, <1>2, <1>3, <1>4 DEF RefsAccounted, RefsDue

\* A job that creates no session is no reference.
LEMMA OtherJob ==
  ASSUME QueueTypeOK, NEW job \in Jobs, \A s \in Natives : job # Job("add", s),
         Enqueued(job) \/ Dropped \/ UNCHANGED <<workChan, missed>>
  PROVE  (\A s \in Natives : Added(s)' = Added(s)) /\ (~missed' => ~missed)
<1>1. CASE Enqueued(job)
  <2>1. \A s \in Natives : Count(Append(workChan, job), Job("add", s)) = Count(workChan, Job("add", s)) + 0
    BY CountAppended DEF QueueTypeOK
  <2>2. \A s \in Natives : Count(workChan, Job("add", s)) \in Nat
    BY CountType DEF QueueTypeOK
  <2> QED
    BY <1>1, <2>1, <2>2 DEF Enqueued, Added
<1>2. CASE Dropped \/ UNCHANGED <<workChan, missed>>
  BY <1>2 DEF Dropped, Added, QueueTypeOK
<1> QED
  BY <1>1, <1>2

\* Nor is one that the worker takes and that creates no session.
LEMMA OtherTaken ==
  ASSUME QueueTypeOK, NEW op, op # "add", Take(op)
  PROVE  \A s \in Natives : Added(s)' = Added(s)
<1>1. workChan # <<>> /\ workChan' = Tail(workChan) /\ Head(workChan).op = op
  BY Taken
<1>2. \A s \in Natives : Head(workChan) # Job("add", s)
  BY <1>1 DEF Job
<1>3. \A s \in Natives : Count(workChan, Job("add", s)) = Count(Tail(workChan), Job("add", s)) + 0
  BY <1>1, <1>2, CountPopped DEF QueueTypeOK
<1>4. \A s \in Natives : Count(Tail(workChan), Job("add", s)) \in Nat
  BY <1>1, CountType, Popped DEF QueueTypeOK
<1> QED
  BY <1>1, <1>3, <1>4 DEF Added

\* The references of the sessions that are given up are given back.
LEMMA RemovalDue ==
  ASSUME RefsTypeOK, RefsDue, NEW S \in SUBSET tracked, RemoveSessions(S),
         \A s \in Natives : Added(s)' = Added(s),
         UNCHANGED <<controls, adding, missed>>
  PROVE  RefsTypeOK' /\ RefsDue'
BY DEF RefsTypeOK, RefsDue, RemoveSessions, Held

\* References are taken and given back with the sessions they are of.
LEMMA RefsHeld ==
  ASSUME WindowsIInv, [Next]_vars, RefsDue
  PROVE  RefsTypeOK' /\ RefsDue'
<1> USE TypeGroups
    DEF WindowsIInv, WorkerInv, RefsTypeOK, RefsDue, WorkerTypeOK, MapTypeOK, Held,
        vars, systemVars, workerVars, mapVars, historyVars
<1>1. ASSUME NEW d \in Removable, DeviceAppears(d)
      PROVE  RefsTypeOK' /\ RefsDue'
  <2>1. /\ UNCHANGED <<refs, controls, adding, tracked>>
        /\ Enqueued(Job("appeared", d)) \/ Dropped \/ UNCHANGED <<workChan, missed>>
    BY <1>1, HeardJob, JobsOf, WindowsAssumption DEF DeviceAppears, CallbackFrame
  <2>2. Job("appeared", d) \in Jobs /\ \A t \in Natives : Job("appeared", d) # Job("add", t)
    BY <1>1, JobsOf, WindowsAssumption DEF Job
  <2> QED
    BY <2>1, <2>2, OtherJob
<1>2. ASSUME NEW d \in Removable, DeviceGoes(d)
      PROVE  RefsTypeOK' /\ RefsDue'
  <2>1. /\ UNCHANGED <<refs, controls, adding, tracked>>
        /\ Enqueued(Job("gone", d)) \/ Dropped \/ UNCHANGED <<workChan, missed>>
    BY <1>2, HeardJob, JobsOf, WindowsAssumption DEF DeviceGoes, CallbackFrame
  <2>2. Job("gone", d) \in Jobs /\ \A t \in Natives : Job("gone", d) # Job("add", t)
    BY <1>2, JobsOf, WindowsAssumption DEF Job
  <2> QED
    BY <2>1, <2>2, OtherJob
<1>3. ASSUME NEW s \in Natives, SessionStarts(s)
      PROVE  RefsTypeOK' /\ RefsDue'
  <2>1. UNCHANGED <<controls, adding, tracked>>
    BY <1>3 DEF SessionStarts, CallbackFrame
  <2>2. CASE DeviceOf[s] \notin listening
    <3>1. UNCHANGED <<workChan, missed, refs>>
      BY <1>3, <2>2 DEF SessionStarts
    <3> QED
      BY <2>1, <3>1 DEF Added
  <2>3. CASE DeviceOf[s] \in listening
    <3>1. refs' = [refs EXCEPT ![s] = refs[s] + 1] /\ (Enqueued(Job("add", s)) \/ Dropped)
      BY <1>3, <2>3, Dispatched, JobsOf DEF SessionStarts
    <3>2. CASE Enqueued(Job("add", s))
      <4>1. \A t \in Natives : Added(t)' = Added(t) + (IF t = s THEN 1 ELSE 0)
        <5>1. \A t \in Natives : Job("add", s) = Job("add", t) <=> t = s
          BY DEF Job
        <5>2. \A t \in Natives : Count(Append(workChan, Job("add", s)), Job("add", t))
                   = Count(workChan, Job("add", t)) + (IF Job("add", s) = Job("add", t) THEN 1 ELSE 0)
          BY <1>3, CountAppended, JobsOf DEF QueueTypeOK
        <5> QED
          BY <3>2, <5>1, <5>2 DEF Enqueued, Added
      <4>2. missed' = missed
        BY <3>2 DEF Enqueued
      <4>3. \A t \in Natives : Held(t)' = Held(t) /\ Held(t) \in Nat /\ refs[t] \in Nat
        BY <2>1
      <4>4. \A t \in Natives : refs'[t] = refs[t] + (IF t = s THEN 1 ELSE 0)
        BY <1>3, <3>1
      <4>5. refs' \in [Natives -> Nat]
        BY <1>3, <3>1
      <4> HIDE DEF Held
      <4>6. ASSUME NEW t \in Natives
            PROVE  /\ Added(t)' \in Nat /\ refs'[t] >= Added(t)' + Held(t)'
                   /\ ~missed' => refs'[t] = Added(t)' + Held(t)'
        <5>1. /\ Added(t) \in Nat /\ refs[t] >= Added(t) + Held(t)
              /\ ~missed => refs[t] = Added(t) + Held(t)
          OBVIOUS
        <5> HIDE DEF WindowsIInv, RefsDue, WorkerInv, WorkerTypeOK, MapTypeOK, RefsTypeOK
        <5>2. CASE t = s
          BY <4>1, <4>2, <4>3, <4>4, <5>1, <5>2
        <5>3. CASE t # s
          BY <4>1, <4>2, <4>3, <4>4, <5>1, <5>3
        <5> QED
          BY <5>2, <5>3
      <4> QED
        BY <4>5, <4>6
    <3>3. CASE Dropped
      BY <2>1, <3>1, <3>3 DEF Dropped, Added
    <3> QED
      BY <3>1, <3>2, <3>3
  <2> QED
    BY <2>2, <2>3
<1>4. ASSUME NEW s \in Natives, SessionDisconnects(s)
      PROVE  RefsTypeOK' /\ RefsDue'
  <2>1. /\ UNCHANGED <<refs, controls, adding, tracked>>
        /\ Enqueued(Job("remove", s)) \/ Dropped \/ UNCHANGED <<workChan, missed>>
    BY <1>4, RemovalJob DEF SessionDisconnects, CallbackFrame
  <2>2. Job("remove", s) \in Jobs /\ \A t \in Natives : Job("remove", s) # Job("add", t)
    BY <1>4, JobsOf, WindowsAssumption DEF Job
  <2> QED
    BY <2>1, <2>2, OtherJob
<1>5. ASSUME NEW s \in Natives, SessionExpires(s)
      PROVE  RefsTypeOK' /\ RefsDue'
  <2>1. /\ UNCHANGED <<refs, controls, adding, tracked>>
        /\ Enqueued(Job("remove", s)) \/ Dropped \/ UNCHANGED <<workChan, missed>>
    BY <1>5, RemovalJob DEF SessionExpires, CallbackFrame
  <2>2. Job("remove", s) \in Jobs /\ \A t \in Natives : Job("remove", s) # Job("add", t)
    BY <1>5, JobsOf, WindowsAssumption DEF Job
  <2> QED
    BY <2>1, <2>2, OtherJob
<1>6. ASSUME NEW f \in Flows, WindowElapses(f)
      PROVE  RefsTypeOK' /\ RefsDue'
  <2>1. UNCHANGED <<refs, controls, adding, tracked, workChan, missed>>
    BY <1>6 DEF WindowElapses, CallbackFrame
  <2> QED
    BY <2>1 DEF Added
<1>7. ASSUME NEW f \in Flows, NEW d \in Devices \cup {NoDevice}, DefaultDeviceChanged(f, d)
      PROVE  RefsTypeOK' /\ RefsDue'
  <2>1. /\ UNCHANGED <<refs, controls, adding, tracked>>
        /\ Enqueued(Job("default", f)) \/ Dropped \/ UNCHANGED <<workChan, missed>>
    BY <1>7, Dispatched, JobsOf DEF DefaultDeviceChanged, CallbackFrame
  <2>2. Job("default", f) \in Jobs /\ \A t \in Natives : Job("default", f) # Job("add", t)
    BY <1>7, JobsOf, WindowsAssumption DEF Job
  <2> QED
    BY <2>1, <2>2, OtherJob
<1>8. CASE WorkerBegins
  <2>1. UNCHANGED <<refs, controls, adding, tracked, workChan, missed>>
    BY <1>8 DEF WorkerBegins, WorkerFrame, SystemFrame
  <2> QED
    BY <2>1 DEF Added
<1>9. CASE DevicesInitialized
  <2>1. UNCHANGED <<refs, controls, adding, tracked, workChan, missed>>
    BY <1>9 DEF DevicesInitialized, WorkerFrame, SystemFrame
  <2> QED
    BY <2>1 DEF Added
<1>10. CASE Listen
  <2>1. UNCHANGED <<refs, controls, adding, tracked, workChan, missed>>
    BY <1>10 DEF Listen, SystemFrame, Outcome
  <2> QED
    BY <2>1 DEF Added
<1>11. CASE EnumerateDeviceSessions
  <2>1. /\ pc = "snapshot" /\ UNCHANGED <<workChan, missed, tracked, adding>>
        /\ controls' \subseteq Natives
        /\ refs' = [s \in Natives |-> IF s \in controls' THEN refs[s] + 1 ELSE refs[s]]
    BY <1>11 DEF EnumerateDeviceSessions, SystemFrame, Outcome, LiveOn
  <2>2. controls = {} /\ adding = Nothing /\ Nothing \notin Natives
    BY <2>1, WindowsAssumption
  <2>3. \A s \in Natives : Added(s)' = Added(s)
    BY <2>1 DEF Added
  <2>4. \A s \in Natives : s \in controls' => Held(s)' = Held(s) + 1 /\ refs'[s] = refs[s] + 1
    BY <2>1, <2>2
  <2>5. \A s \in Natives : s \notin controls' => Held(s)' = Held(s) /\ refs'[s] = refs[s]
    BY <2>1, <2>2
  <2>6. \A s \in Natives : Held(s) \in Nat /\ refs[s] \in Nat
    OBVIOUS
  <2> HIDE DEF Held
  <2> QED
    BY <2>1, <2>3, <2>4, <2>5, <2>6
<1>12. CASE ManagerCreated
  <2>1. UNCHANGED <<refs, controls, adding, tracked, workChan, missed>>
    BY <1>12 DEF ManagerCreated, WorkerFrame, SystemFrame
  <2> QED
    BY <2>1 DEF Added
<1>13. ASSUME NEW d \in Devices, InitializeDevice(d)
      PROVE  RefsTypeOK' /\ RefsDue'
  <2>1. UNCHANGED <<refs, controls, adding, tracked, workChan, missed>>
    BY <1>13 DEF InitializeDevice, CreateDeviceManager, SystemFrame, Outcome, NoDeviceManager
  <2> QED
    BY <2>1 DEF Added
<1>14. ASSUME NEW s \in Natives, AddSessionFails(s)
      PROVE  RefsTypeOK' /\ RefsDue'
  <2>1. /\ pc = "sessions" /\ s \in controls
        /\ UNCHANGED <<workChan, missed, tracked>>
    BY <1>14 DEF AddSessionFails, SystemFrame, Outcome
  <2>2. controls' = controls \ {s} /\ adding' = adding /\ refs' = [refs EXCEPT ![s] = refs[s] - 1]
    BY <1>14 DEF AddSessionFails, Drop
  <2>3. s # adding /\ adding = Nothing
    BY <1>14, <2>1, WindowsAssumption
  <2>4. refs[s] >= 1 /\ refs[s] \in Nat
    BY <2>1, <2>3
  <2> QED
    BY <2>1, <2>2, <2>3, <2>4 DEF Added
<1>15. ASSUME NEW s \in Natives, AddSessionQueries(s)
      PROVE  RefsTypeOK' /\ RefsDue'
  <2>1. /\ pc = "sessions" /\ s \in controls
        /\ UNCHANGED <<workChan, missed, tracked>>
    BY <1>15 DEF AddSessionQueries, WorkerFrame, SystemFrame
  <2>2. CASE \E t \in tracked : Id(t) = Id(s)
    <3>1. controls' = controls \ {s} /\ adding' = adding /\ refs' = [refs EXCEPT ![s] = refs[s] - 1]
      BY <1>15, <2>2 DEF AddSessionQueries, DropDuplicate, Drop
    <3>2. s # adding /\ adding = Nothing
      BY <1>15, <2>1, WindowsAssumption
    <3>3. refs[s] >= 1 /\ refs[s] \in Nat
      BY <2>1, <3>2
    <3> QED
      BY <2>1, <3>1, <3>2, <3>3 DEF Added
  <2>3. CASE ~\E t \in tracked : Id(t) = Id(s)
    <3>1. adding' = s /\ controls' = controls \ {s} /\ refs' = refs
      BY <1>15, <2>3 DEF AddSessionQueries
    <3>2. s # adding /\ adding = Nothing
      BY <1>15, <2>1, WindowsAssumption
    <3> QED
      BY <2>1, <3>1, <3>2, WindowsAssumption DEF Added
  <2> QED
    BY <2>2, <2>3
<1>16. CASE AddSessionTracks
  <2>1. /\ pc = "insert" /\ UNCHANGED <<workChan, missed, controls, refs>>
        /\ adding' = Nothing /\ tracked' = tracked \cup {adding}
    BY <1>16 DEF AddSessionTracks, SystemFrame, Outcome
  <2>2. adding \notin tracked /\ Nothing \notin Natives
    BY <2>1, WindowsAssumption
  <2> QED
    BY <2>1, <2>2 DEF Added
<1>17. CASE InitializeMasterSessions
  <2>1. UNCHANGED <<refs, controls, adding, tracked, workChan, missed>>
    BY <1>17 DEF InitializeMasterSessions, SystemFrame, Outcome
  <2> QED
    BY <2>1 DEF Added
<1>18. CASE HandleDeviceAdded
  <2>1. /\ Take("appeared") /\ UNCHANGED <<controls, adding, tracked, refs, missed>>
    BY <1>18 DEF HandleDeviceAdded, Take, SystemFrame, Outcome
  <2>2. \A s \in Natives : Added(s)' = Added(s)
    BY <2>1, OtherTaken
  <2> QED
    BY <2>1, <2>2
<1>19. CASE HandleDeviceRemoved
  <2>1. /\ Take("gone") /\ UNCHANGED <<controls, adding, missed>>
    BY <1>19 DEF HandleDeviceRemoved, Take, SystemFrame
  <2>2. \A s \in Natives : Added(s)' = Added(s)
    BY <2>1, OtherTaken
  <2>3. CASE Head(workChan).what \in managers
    BY <1>19, <2>1, <2>2, <2>3, RemovalDue DEF HandleDeviceRemoved, RemoveDeviceManager, SessionsOf
  <2>4. CASE Head(workChan).what \notin managers
    <3>1. UNCHANGED <<tracked, refs>>
      BY <1>19, <2>4 DEF HandleDeviceRemoved, RemoveDeviceManager
    <3> QED
      BY <2>1, <2>2, <3>1
  <2> QED
    BY <2>3, <2>4
<1>20. CASE HandleSessionCreated
  <2> DEFINE s == Head(workChan).what
  <2>1. /\ pc = "idle" /\ workChan # <<>> /\ workChan' = Tail(workChan) /\ missed' = missed
        /\ Head(workChan) = Job("add", s) /\ s \in Natives
        /\ controls' = {s} /\ UNCHANGED <<adding, tracked, refs>>
    BY <1>20, Taken, JobKinds DEF HandleSessionCreated
  <2>2. controls = {}
    BY <2>1
  <2> HIDE DEF s
  <2>3. \A t \in Natives : Job("add", s) = Job("add", t) <=> t = s
    BY DEF Job
  <2>4. \A t \in Natives : Count(workChan, Job("add", t)) = Count(Tail(workChan), Job("add", t))
                             + (IF Job("add", s) = Job("add", t) THEN 1 ELSE 0)
    BY <2>1, CountPopped DEF QueueTypeOK
  <2>5. \A t \in Natives : Count(Tail(workChan), Job("add", t)) \in Nat
    BY <2>1, CountType, Popped DEF QueueTypeOK
  <2>6. \A t \in Natives : Added(t)' \in Nat /\ Added(t) = Added(t)' + (IF t = s THEN 1 ELSE 0)
    BY <2>1, <2>3, <2>4, <2>5 DEF Added
  <2>7. \A t \in Natives : Held(t)' = Held(t) + (IF t = s THEN 1 ELSE 0)
    BY <2>1, <2>2
  <2>8. \A t \in Natives : Held(t) \in Nat /\ refs[t] \in Nat
    OBVIOUS
  <2>9. refs' = refs /\ missed' = missed
    BY <2>1
  <2> HIDE DEF Held
  <2>10. \A t \in Natives : Added(t)' \in Nat /\ Added(t)' + Held(t)' = Added(t) + Held(t)
    <3> SUFFICES ASSUME NEW t \in Natives
                 PROVE  Added(t)' \in Nat /\ Added(t)' + Held(t)' = Added(t) + Held(t)
      OBVIOUS
    <3>1. CASE t = s
      BY <2>6, <2>7, <2>8, <3>1
    <3>2. CASE t # s
      BY <2>6, <2>7, <2>8, <3>2
    <3> QED
      BY <3>1, <3>2
  <2> QED
    BY <2>9, <2>10
<1>21. CASE HandleSessionEnded
  <2>1. /\ Take("remove") /\ UNCHANGED <<controls, adding, missed>>
        /\ RemoveSessions({t \in tracked : Id(t) = Id(Head(workChan).what)})
    BY <1>21 DEF HandleSessionEnded, Take, SystemFrame
  <2>2. \A s \in Natives : Added(s)' = Added(s)
    BY <2>1, OtherTaken
  <2> QED
    BY <2>1, <2>2, RemovalDue
<1>22. CASE HandleDefaultChanged
  <2>1. /\ Take("default") /\ UNCHANGED <<controls, adding, tracked, refs, missed>>
    BY <1>22 DEF HandleDefaultChanged, Take, SystemFrame, Outcome
  <2>2. \A s \in Natives : Added(s)' = Added(s)
    BY <2>1, OtherTaken
  <2> QED
    BY <2>1, <2>2
<1>23. CASE WorkerStops
  <2>1. /\ RemoveSessions(UNION {SessionsOf(d) : d \in managers})
        /\ UNCHANGED <<workChan, controls, adding, missed>>
    BY <1>23 DEF WorkerStops, Cleanup, WorkerFrame, SystemFrame
  <2>2. UNION {SessionsOf(d) : d \in managers} \subseteq tracked
    BY DEF SessionsOf
  <2>3. \A s \in Natives : Added(s)' = Added(s)
    BY <2>1 DEF Added
  <2> QED
    BY <2>1, <2>2, <2>3, RemovalDue
<1>24. CASE Release
  <2>1. UNCHANGED <<refs, controls, adding, tracked, workChan, missed>>
    BY <1>24 DEF Release
  <2> QED
    BY <2>1 DEF Added
<1>25. CASE UNCHANGED vars
  BY <1>25 DEF Added
<1> QED
  BY <1>1, <1>2, <1>3, <1>4, <1>5, <1>6, <1>7, <1>8, <1>9, <1>10, <1>11, <1>12, <1>13,
     <1>14, <1>15, <1>16, <1>17, <1>18, <1>19, <1>20, <1>21, <1>22, <1>23, <1>24, <1>25
  DEF Next, Callbacks, Worker

\* No reference is lost or given back twice.
LEMMA RefsKept ==
  ASSUME WindowsIInv, [Next]_vars
  PROVE  RefsTypeOK' /\ RefsAccounted'
<1>1. QueueTypeOK /\ QueueTypeOK' /\ RefsAccounted
  BY QueueTyped, TypeGroups DEF WindowsIInv
<1>2. RefsDue
  BY <1>1, DueForm
<1>3. RefsTypeOK' /\ RefsDue'
  BY <1>2, RefsHeld
<1>4. QueueTypeOK' => (RefsAccounted' <=> RefsDue')
  BY DueForm, PTL
<1> QED
  BY <1>1, <1>3, <1>4

-----------------------------------------------------------------------------
(* The jobs about a device alternate.                                       *)

\* DevicesInv of one device, of any queue q: A are the devices in use, M those
\* that have a manager or will have one.
Alternate(d, q, A, M) ==
  /\ Range(q) \cap About(d) = {} => (d \in A <=> d \in M)
  /\ \A i \in DOMAIN q :
       /\ q[i] = Job("gone", d) /\ d \in A => \E j \in DOMAIN q : j > i /\ q[j] = Job("appeared", d)
       /\ q[i] = Job("appeared", d) /\ d \notin A => \E j \in DOMAIN q : j > i /\ q[j] = Job("gone", d)
       /\ q[i] = Job("appeared", d) /\ d \in M => \E j \in DOMAIN q : j < i /\ q[j] = Job("gone", d)
       /\ \A k \in DOMAIN q :
            i < k /\ q[i] = Job("appeared", d) /\ q[k] = Job("appeared", d) =>
              \E j \in DOMAIN q : i < j /\ j < k /\ q[j] = Job("gone", d)

AllAlternate == Hears => \A d \in Devices : Alternate(d, workChan, active, Managed)

\* DevicesInv says this of every device.
LEMMA AlternateForm == DevicesInv <=> AllAlternate
BY DEF DevicesInv, Alternate, AllAlternate

\* The two jobs about a device differ.
LEMMA TwoJobs == \A d : Job("gone", d) # Job("appeared", d)
BY DEF Job

\* A job about something else may be queued.
LEMMA AlternateOther ==
  ASSUME NEW d, NEW q \in Seq(Jobs), NEW A, NEW M,
         NEW job \in Jobs, job \notin About(d), Alternate(d, q, A, M),
         NEW B, NEW N, d \in B <=> d \in A, d \in N <=> d \in M
  PROVE  Alternate(d, Append(q, job), B, N)
<1> DEFINE r == Append(q, job)
<1>1. /\ Len(q) \in Nat /\ DOMAIN q = 1..Len(q) /\ DOMAIN r = 1..(Len(q) + 1)
      /\ \A i \in 1..Len(q) : r[i] = q[i]
      /\ r[Len(q) + 1] = job
      /\ Range(r) = Range(q) \cup {job}
  BY Appended
<1> HIDE DEF r
<1>2. job # Job("gone", d) /\ job # Job("appeared", d)
  BY DEF About
<1>3. \A i \in DOMAIN r : r[i] \in About(d) => i \in DOMAIN q /\ q[i] = r[i]
  BY <1>1, <1>2 DEF About
<1>4. \A i \in DOMAIN q : i \in DOMAIN r /\ r[i] = q[i]
  BY <1>1
<1>5. Range(r) \cap About(d) = {} => (d \in B <=> d \in N)
  BY <1>1 DEF Alternate
<1>6. Alternate(d, r, B, N)
  BY <1>3, <1>4, <1>5 DEF Alternate, About
<1> QED
  BY <1>6 DEF r

\* A device that was not in use appears.
LEMMA AlternateAppears ==
  ASSUME NEW d, NEW q \in Seq(Jobs), NEW A, NEW M, Job("appeared", d) \in Jobs,
         d \notin A, Alternate(d, q, A, M),
         NEW B, NEW N, d \in B, d \in N <=> d \in M
  PROVE  Alternate(d, Append(q, Job("appeared", d)), B, N)
<1> DEFINE r == Append(q, Job("appeared", d))
           n == Len(q) + 1
<1>1. /\ Len(q) \in Nat /\ DOMAIN q = 1..Len(q) /\ DOMAIN r = 1..n
      /\ \A i \in 1..Len(q) : r[i] = q[i]
      /\ r[n] = Job("appeared", d)
      /\ Range(r) = Range(q) \cup {Job("appeared", d)}
  BY Appended
<1> HIDE DEF r, n
<1>2. n = Len(q) + 1 /\ Job("gone", d) # Job("appeared", d)
  BY TwoJobs DEF n
<1>3. /\ n \in DOMAIN r /\ r[n] = Job("appeared", d)
      /\ \A i \in DOMAIN r : i = n \/ (i < n /\ i \in DOMAIN q /\ r[i] = q[i])
      /\ \A i \in DOMAIN q : i < n /\ i \in DOMAIN r /\ r[i] = q[i]
  BY <1>1, <1>2
<1>4. Range(r) \cap About(d) # {}
  BY <1>1 DEF About
<1>5. \A i \in DOMAIN r : r[i] = Job("gone", d) =>
        \E j \in DOMAIN r : j > i /\ r[j] = Job("appeared", d)
  BY <1>1, <1>2, <1>3
<1>6. d \in M => \E j \in DOMAIN q : q[j] = Job("gone", d)
  <2> SUFFICES ASSUME d \in M PROVE \E j \in DOMAIN q : q[j] = Job("gone", d)
    OBVIOUS
  <2>1. Range(q) \cap About(d) # {}
    BY DEF Alternate
  <2>2. PICK i \in DOMAIN q : q[i] \in About(d)
    BY <2>1 DEF Range
  <2> QED
    BY <2>2 DEF Alternate, About
<1>7. \A i \in DOMAIN r : r[i] = Job("appeared", d) /\ d \in M =>
        \E j \in DOMAIN r : j < i /\ r[j] = Job("gone", d)
  BY <1>3, <1>6 DEF Alternate
<1>8. \A i, k \in DOMAIN r :
        i < k /\ r[i] = Job("appeared", d) /\ r[k] = Job("appeared", d) =>
          \E j \in DOMAIN r : i < j /\ j < k /\ r[j] = Job("gone", d)
  <2> SUFFICES ASSUME NEW i \in DOMAIN r, NEW k \in DOMAIN r, i < k,
                      r[i] = Job("appeared", d), r[k] = Job("appeared", d)
               PROVE  \E j \in DOMAIN r : i < j /\ j < k /\ r[j] = Job("gone", d)
    OBVIOUS
  <2>1. i \in DOMAIN q /\ q[i] = Job("appeared", d)
    BY <1>1, <1>2, <1>3
  <2>2. CASE k = n
    BY <1>3, <2>1, <2>2 DEF Alternate
  <2>3. CASE k # n
    <3>1. k \in DOMAIN q /\ q[k] = Job("appeared", d)
      BY <1>3, <2>3
    <3> QED
      BY <1>3, <2>1, <3>1 DEF Alternate
  <2> QED
    BY <2>2, <2>3
<1>9. Alternate(d, r, B, N)
  BY <1>4, <1>5, <1>7, <1>8 DEF Alternate
<1> QED
  BY <1>9 DEF r

\* A device that was in use goes.
LEMMA AlternateGoes ==
  ASSUME NEW d, NEW q \in Seq(Jobs), NEW A, NEW M, Job("gone", d) \in Jobs,
         d \in A, Alternate(d, q, A, M),
         NEW B, NEW N, d \notin B, d \in N <=> d \in M
  PROVE  Alternate(d, Append(q, Job("gone", d)), B, N)
<1> DEFINE r == Append(q, Job("gone", d))
           n == Len(q) + 1
<1>1. /\ Len(q) \in Nat /\ DOMAIN q = 1..Len(q) /\ DOMAIN r = 1..n
      /\ \A i \in 1..Len(q) : r[i] = q[i]
      /\ r[n] = Job("gone", d)
      /\ Range(r) = Range(q) \cup {Job("gone", d)}
  BY Appended
<1> HIDE DEF r, n
<1>2. n = Len(q) + 1 /\ Job("gone", d) # Job("appeared", d)
  BY TwoJobs DEF n
<1>3. /\ n \in DOMAIN r /\ r[n] = Job("gone", d)
      /\ \A i \in DOMAIN r : i = n \/ (i < n /\ i \in DOMAIN q /\ r[i] = q[i])
      /\ \A i \in DOMAIN q : i < n /\ i \in DOMAIN r /\ r[i] = q[i]
  BY <1>1, <1>2
<1>4. Range(r) \cap About(d) # {}
  BY <1>1 DEF About
<1>5. \A i \in DOMAIN r : r[i] = Job("appeared", d) =>
        \E j \in DOMAIN r : j > i /\ r[j] = Job("gone", d)
  BY <1>1, <1>2, <1>3
<1>6. \A i \in DOMAIN r : r[i] = Job("appeared", d) => i \in DOMAIN q /\ q[i] = r[i]
  BY <1>2, <1>3
<1>7. Alternate(d, r, B, N)
  BY <1>3, <1>4, <1>5, <1>6 DEF Alternate
<1> QED
  BY <1>7 DEF r

\* What Alternate says of the order of the jobs alone.
InTurn(d, q, A) ==
  \A i \in DOMAIN q :
    /\ q[i] = Job("gone", d) /\ d \in A => \E j \in DOMAIN q : j > i /\ q[j] = Job("appeared", d)
    /\ q[i] = Job("appeared", d) /\ d \notin A => \E j \in DOMAIN q : j > i /\ q[j] = Job("gone", d)
    /\ \A k \in DOMAIN q :
         i < k /\ q[i] = Job("appeared", d) /\ q[k] = Job("appeared", d) =>
           \E j \in DOMAIN q : i < j /\ j < k /\ q[j] = Job("gone", d)

\* Without its first job a queue keeps the order of the others.
LEMMA AlternateTail ==
  ASSUME NEW d, NEW q \in Seq(Jobs), q # <<>>, NEW A, NEW M,
         Alternate(d, q, A, M)
  PROVE  /\ \A i \in DOMAIN q : i > 1 => i - 1 \in DOMAIN Tail(q) /\ Tail(q)[i - 1] = q[i]
         /\ \A i \in DOMAIN Tail(q) : i + 1 \in DOMAIN q /\ q[i + 1] = Tail(q)[i] /\ i \in Int /\ i >= 1
         /\ 1 \in DOMAIN q /\ q[1] = Head(q) /\ DOMAIN q \subseteq Nat \ {0}
         /\ Range(q) = {Head(q)} \cup Range(Tail(q))
         /\ InTurn(d, Tail(q), A)
<1> DEFINE r == Tail(q)
<1>1. /\ Len(q) \in Nat /\ Len(q) >= 1 /\ DOMAIN q = 1..Len(q) /\ DOMAIN r = 1..(Len(q) - 1)
      /\ \A i \in 1..(Len(q) - 1) : r[i] = q[i + 1]
      /\ q[1] = Head(q) /\ Range(q) = {Head(q)} \cup Range(r)
  BY Popped
<1> HIDE DEF r
<1>2. \A i \in DOMAIN r : i + 1 \in DOMAIN q /\ q[i + 1] = r[i] /\ i \in Int /\ i >= 1
  BY <1>1
<1>3. \A i \in DOMAIN q : i > 1 => i - 1 \in DOMAIN r /\ r[i - 1] = q[i]
  <2> SUFFICES ASSUME NEW i \in DOMAIN q, i > 1
               PROVE  i - 1 \in DOMAIN r /\ r[i - 1] = q[i]
    OBVIOUS
  <2>1. i - 1 \in 1..(Len(q) - 1) /\ (i - 1) + 1 = i
    BY <1>1
  <2> QED
    BY <1>1, <2>1
<1>4. DOMAIN q \subseteq Nat \ {0} /\ 1 \in DOMAIN q
  BY <1>1
<1>5. \A i \in DOMAIN r : r[i] = Job("gone", d) /\ d \in A =>
        \E j \in DOMAIN r : j > i /\ r[j] = Job("appeared", d)
  <2> SUFFICES ASSUME NEW i \in DOMAIN r, r[i] = Job("gone", d), d \in A
               PROVE  \E j \in DOMAIN r : j > i /\ r[j] = Job("appeared", d)
    OBVIOUS
  <2>1. PICK j \in DOMAIN q : j > i + 1 /\ q[j] = Job("appeared", d)
    BY <1>2 DEF Alternate
  <2>2. j - 1 \in DOMAIN r /\ r[j - 1] = Job("appeared", d) /\ j - 1 > i
    BY <1>2, <1>3, <1>4, <2>1
  <2> QED
    BY <2>2
<1>6. \A i \in DOMAIN r : r[i] = Job("appeared", d) /\ d \notin A =>
        \E j \in DOMAIN r : j > i /\ r[j] = Job("gone", d)
  <2> SUFFICES ASSUME NEW i \in DOMAIN r, r[i] = Job("appeared", d), d \notin A
               PROVE  \E j \in DOMAIN r : j > i /\ r[j] = Job("gone", d)
    OBVIOUS
  <2>1. PICK j \in DOMAIN q : j > i + 1 /\ q[j] = Job("gone", d)
    BY <1>2 DEF Alternate
  <2>2. j - 1 \in DOMAIN r /\ r[j - 1] = Job("gone", d) /\ j - 1 > i
    BY <1>2, <1>3, <1>4, <2>1
  <2> QED
    BY <2>2
<1>7. \A i, k \in DOMAIN r :
        i < k /\ r[i] = Job("appeared", d) /\ r[k] = Job("appeared", d) =>
          \E j \in DOMAIN r : i < j /\ j < k /\ r[j] = Job("gone", d)
  <2> SUFFICES ASSUME NEW i \in DOMAIN r, NEW k \in DOMAIN r, i < k,
                      r[i] = Job("appeared", d), r[k] = Job("appeared", d)
               PROVE  \E j \in DOMAIN r : i < j /\ j < k /\ r[j] = Job("gone", d)
    OBVIOUS
  <2>1. i + 1 < k + 1 /\ q[i + 1] = Job("appeared", d) /\ q[k + 1] = Job("appeared", d)
    BY <1>2
  <2>2. PICK j \in DOMAIN q : i + 1 < j /\ j < k + 1 /\ q[j] = Job("gone", d)
    BY <1>2, <2>1 DEF Alternate
  <2>3. j - 1 \in DOMAIN r /\ r[j - 1] = Job("gone", d) /\ i < j - 1 /\ j - 1 < k
    BY <1>2, <1>3, <1>4, <2>2
  <2> QED
    BY <2>3
<1> QED
  BY <1>1, <1>2, <1>3, <1>4, <1>5, <1>6, <1>7 DEF r, InTurn

\* The worker takes a job about something else.
LEMMA AlternatePopped ==
  ASSUME NEW d, NEW q \in Seq(Jobs), q # <<>>, NEW A, NEW M,
         Head(q) \notin About(d), Alternate(d, q, A, M),
         NEW B, NEW N, d \in B <=> d \in A, d \in N <=> d \in M
  PROVE  Alternate(d, Tail(q), B, N)
<1>1. Range(Tail(q)) \cap About(d) = {} => (d \in A <=> d \in M)
  BY SMTT(30), AlternateTail DEF Alternate
<1>2. \A i \in DOMAIN Tail(q) : Tail(q)[i] = Job("appeared", d) /\ d \in M =>
        \E j \in DOMAIN Tail(q) : j < i /\ Tail(q)[j] = Job("gone", d)
  <2> SUFFICES ASSUME NEW i \in DOMAIN Tail(q), Tail(q)[i] = Job("appeared", d), d \in M
               PROVE  \E j \in DOMAIN Tail(q) : j < i /\ Tail(q)[j] = Job("gone", d)
    OBVIOUS
  <2>1. i + 1 \in DOMAIN q /\ q[i + 1] = Job("appeared", d) /\ i \in Int
    BY AlternateTail
  <2>2. PICK j \in DOMAIN q : j < i + 1 /\ q[j] = Job("gone", d)
    BY <2>1 DEF Alternate
  <2>3. j # 1 /\ j \in Nat \ {0}
    BY <2>2, AlternateTail DEF About
  <2>4. j - 1 \in DOMAIN Tail(q) /\ Tail(q)[j - 1] = Job("gone", d) /\ j - 1 < i
    BY <2>1, <2>2, <2>3, AlternateTail
  <2> QED
    BY <2>4
<1>3. InTurn(d, Tail(q), A)
  BY AlternateTail DEF InTurn
<1> QED
  BY <1>1, <1>2, <1>3 DEF Alternate, InTurn

\* The worker is told of a device: it has no manager, and gets one if it is
\* still in use.
LEMMA AlternateAdded ==
  ASSUME NEW d, NEW q \in Seq(Jobs), q # <<>>, NEW A, NEW M,
         Head(q) = Job("appeared", d), Alternate(d, q, A, M),
         NEW N, d \in N <=> d \in A
  PROVE  d \notin M /\ Alternate(d, Tail(q), A, N)
<1>1. /\ 1 \in DOMAIN q /\ q[1] = Job("appeared", d)
      /\ DOMAIN q \subseteq Nat \ {0}
  BY AlternateTail
<1>2. d \notin M
  <2> SUFFICES ASSUME d \in M PROVE FALSE
    OBVIOUS
  <2>1. PICK j \in DOMAIN q : j < 1
    BY <1>1 DEF Alternate
  <2> QED
    BY <1>1, <2>1
<1>3. \A i \in DOMAIN Tail(q) : Tail(q)[i] = Job("appeared", d) =>
        \E j \in DOMAIN Tail(q) : j < i /\ Tail(q)[j] = Job("gone", d)
  <2> SUFFICES ASSUME NEW i \in DOMAIN Tail(q), Tail(q)[i] = Job("appeared", d)
               PROVE  \E j \in DOMAIN Tail(q) : j < i /\ Tail(q)[j] = Job("gone", d)
    OBVIOUS
  <2>1. /\ i + 1 \in DOMAIN q /\ q[i + 1] = Job("appeared", d) /\ i \in Int
        /\ 1 < i + 1
    BY AlternateTail
  <2>2. PICK j \in DOMAIN q : 1 < j /\ j < i + 1 /\ q[j] = Job("gone", d)
    BY <1>1, <2>1 DEF Alternate
  <2>3. j - 1 \in DOMAIN Tail(q) /\ Tail(q)[j - 1] = Job("gone", d) /\ j - 1 < i
    BY <1>1, <2>1, <2>2, AlternateTail
  <2> QED
    BY <2>3
<1>4. InTurn(d, Tail(q), A)
  BY AlternateTail DEF InTurn
<1> QED
  BY <1>2, <1>3, <1>4 DEF Alternate, InTurn

\* The worker is told that a device is gone, whose manager goes.
LEMMA AlternateRemoved ==
  ASSUME NEW d, NEW q \in Seq(Jobs), q # <<>>, NEW A, NEW M,
         Head(q) = Job("gone", d), Alternate(d, q, A, M), NEW N, d \notin N
  PROVE  /\ d \in A => Job("appeared", d) \in Range(Tail(q))
         /\ Alternate(d, Tail(q), A, N)
<1>1. /\ 1 \in DOMAIN q /\ q[1] = Job("gone", d)
      /\ DOMAIN q \subseteq Nat \ {0}
  BY AlternateTail
<1>2. d \in A => Job("appeared", d) \in Range(Tail(q))
  <2> SUFFICES ASSUME d \in A PROVE Job("appeared", d) \in Range(Tail(q))
    OBVIOUS
  <2>1. PICK j \in DOMAIN q : j > 1 /\ q[j] = Job("appeared", d)
    BY <1>1 DEF Alternate
  <2>2. j - 1 \in DOMAIN Tail(q) /\ Tail(q)[j - 1] = Job("appeared", d)
    BY <2>1, AlternateTail
  <2> QED
    BY <2>2 DEF Range
<1>3. Range(Tail(q)) \cap About(d) = {} => d \notin A
  BY <1>2 DEF About
<1>4. InTurn(d, Tail(q), A)
  BY AlternateTail DEF InTurn
<1> QED
  BY <1>2, <1>3, <1>4 DEF Alternate, InTurn

\* A device that is not in use is not waited for.
LEMMA AlternateForgotten ==
  ASSUME NEW d, NEW q, NEW A, NEW M, d \notin A, Alternate(d, q, A, M),
         NEW N, d \notin N
  PROVE  Alternate(d, q, A, N)
BY DEF Alternate

\* Steps that leave the devices and the jobs about them as they are.
LEMMA SameDevices ==
  ASSUME AllAlternate, UNCHANGED <<workChan, active, missed>>, Managed' = Managed, Hears' => Hears
  PROVE  AllAlternate'
BY DEF AllAlternate

\* Callbacks that queue a job about something else.
LEMMA OtherQueued ==
  ASSUME QueueTypeOK, AllAlternate, UNCHANGED <<active, managers, devices, device, pc, failed>>,
         NEW job \in Jobs, job.op \notin {"appeared", "gone"},
         Enqueued(job) \/ Dropped \/ UNCHANGED <<workChan, missed>>
  PROVE  AllAlternate'
<1> SUFFICES ASSUME Hears', NEW d \in Devices
             PROVE  Alternate(d, workChan', active', Managed')
  BY DEF AllAlternate
<1>1. Managed' = Managed /\ Hears /\ ~Dropped
  BY DEF Managed, Creating, Hears, Hearing, Enqueued, Dropped, QueueTypeOK
<1>2. Alternate(d, workChan, active, Managed)
  BY <1>1 DEF AllAlternate
<1>3. CASE Enqueued(job)
  <2>1. job \notin About(d)
    BY DEF About, Job
  <2>2. Alternate(d, Append(workChan, job), active', Managed')
    BY <1>1, <1>2, <2>1, AlternateOther DEF QueueTypeOK
  <2> QED
    BY <1>3, <2>2 DEF Enqueued
<1>4. CASE UNCHANGED <<workChan, missed>>
  BY <1>1, <1>2, <1>4
<1> QED
  BY <1>1, <1>3, <1>4

\* Jobs about something else that the worker takes.
LEMMA OtherHandled ==
  ASSUME QueueTypeOK, AllAlternate, NEW op, op \notin {"appeared", "gone"}, Take(op),
         UNCHANGED <<managers, devices, device>>, ~failed' => ~failed
  PROVE  AllAlternate'
<1> SUFFICES ASSUME Hears', NEW d \in Devices
             PROVE  Alternate(d, workChan', active', Managed')
  BY DEF AllAlternate
<1>1. /\ workChan # <<>> /\ workChan' = Tail(workChan) /\ Head(workChan) \notin About(d)
      /\ Hears /\ active' = active /\ Managed' = Managed
  BY Taken DEF Take, SystemFrame, systemVars, Hears, Hearing, Managed, Creating, About, Job
<1>2. Alternate(d, workChan, active, Managed)
  BY <1>1 DEF AllAlternate
<1>3. Alternate(d, Tail(workChan), active', Managed')
  BY <1>1, <1>2, AlternatePopped DEF QueueTypeOK
<1> QED
  BY <1>1, <1>3

\* The jobs about a device alternate, and without any it has a manager when
\* it is in use.
LEMMA DevicesAlternate ==
  ASSUME WindowsIInv, [Next]_vars, AllAlternate
  PROVE  AllAlternate'
<1> USE TypeGroups
    DEF WindowsIInv, WorkerInv, WorkerTypeOK, Creating, vars, systemVars, workerVars, mapVars,
        historyVars
<1>1. ASSUME NEW d \in Removable, DeviceAppears(d)
      PROVE  AllAlternate'
  <2> SUFFICES ASSUME Hears', NEW e \in Devices
               PROVE  Alternate(e, workChan', active', Managed')
    BY DEF AllAlternate
  <2>1. /\ UNCHANGED <<managers, devices, device, pc, failed>>
        /\ d \notin active /\ active' = active \cup {d}
    BY <1>1 DEF DeviceAppears, CallbackFrame
  <2>2. Job("appeared", d) \in Jobs /\ d \in Devices
    BY JobsOf, WindowsAssumption
  <2>3. Enqueued(Job("appeared", d))
    <3>1. Hearing /\ missed' # TRUE
      BY <2>1 DEF Hears, Hearing, QueueTypeOK
    <3> QED
      BY <1>1, <2>2, <3>1, HeardJob DEF DeviceAppears, Dropped
  <2>4. Managed' = Managed /\ Hears
    BY <2>1, <2>3 DEF Managed, Creating, Hears, Hearing, Enqueued
  <2>5. Alternate(e, workChan, active, Managed)
    BY <2>4 DEF AllAlternate
  <2>6. CASE e = d
    <3>1. Alternate(d, Append(workChan, Job("appeared", d)), active', Managed')
      BY <2>1, <2>2, <2>4, <2>5, <2>6, AlternateAppears DEF QueueTypeOK
    <3> QED
      BY <2>3, <2>6, <3>1 DEF Enqueued
  <2>7. CASE e # d
    <3>1. Job("appeared", d) \notin About(e)
      BY <2>7 DEF About, Job
    <3>2. Alternate(e, Append(workChan, Job("appeared", d)), active', Managed')
      BY <2>1, <2>2, <2>4, <2>5, <2>7, <3>1, AlternateOther DEF QueueTypeOK
    <3> QED
      BY <2>3, <3>2 DEF Enqueued
  <2> QED
    BY <2>6, <2>7
<1>2. ASSUME NEW d \in Removable, DeviceGoes(d)
      PROVE  AllAlternate'
  <2> SUFFICES ASSUME Hears', NEW e \in Devices
               PROVE  Alternate(e, workChan', active', Managed')
    BY DEF AllAlternate
  <2>1. /\ UNCHANGED <<managers, devices, device, pc, failed>>
        /\ d \in active /\ active' = active \ {d}
    BY <1>2 DEF DeviceGoes, CallbackFrame
  <2>2. Job("gone", d) \in Jobs /\ d \in Devices
    BY JobsOf, WindowsAssumption
  <2>3. Enqueued(Job("gone", d))
    <3>1. Hearing /\ missed' # TRUE
      BY <2>1 DEF Hears, Hearing, QueueTypeOK
    <3> QED
      BY <1>2, <2>2, <3>1, HeardJob DEF DeviceGoes, Dropped
  <2>4. Managed' = Managed /\ Hears
    BY <2>1, <2>3 DEF Managed, Creating, Hears, Hearing, Enqueued
  <2>5. Alternate(e, workChan, active, Managed)
    BY <2>4 DEF AllAlternate
  <2>6. CASE e = d
    <3>1. Alternate(d, Append(workChan, Job("gone", d)), active', Managed')
      BY <2>1, <2>2, <2>4, <2>5, <2>6, AlternateGoes DEF QueueTypeOK
    <3> QED
      BY <2>3, <2>6, <3>1 DEF Enqueued
  <2>7. CASE e # d
    <3>1. Job("gone", d) \notin About(e)
      BY <2>7 DEF About, Job
    <3>2. Alternate(e, Append(workChan, Job("gone", d)), active', Managed')
      BY <2>1, <2>2, <2>4, <2>5, <2>7, <3>1, AlternateOther DEF QueueTypeOK
    <3> QED
      BY <2>3, <3>2 DEF Enqueued
  <2> QED
    BY <2>6, <2>7
<1>3. ASSUME NEW s \in Natives, SessionStarts(s)
      PROVE  AllAlternate'
  <2>1. /\ UNCHANGED <<active, managers, devices, device, pc, failed>>
        /\ Enqueued(Job("add", s)) \/ Dropped \/ UNCHANGED <<workChan, missed>>
    BY <1>3, Dispatched, JobsOf DEF SessionStarts, CallbackFrame
  <2>2. Job("add", s) \in Jobs /\ Job("add", s).op \notin {"appeared", "gone"}
    BY <1>3, JobsOf, WindowsAssumption DEF Job
  <2> QED
    BY <2>1, <2>2, OtherQueued
<1>4. ASSUME NEW s \in Natives, SessionDisconnects(s)
      PROVE  AllAlternate'
  <2>1. /\ UNCHANGED <<active, managers, devices, device, pc, failed>>
        /\ Enqueued(Job("remove", s)) \/ Dropped \/ UNCHANGED <<workChan, missed>>
    BY <1>4, RemovalJob DEF SessionDisconnects, CallbackFrame
  <2>2. Job("remove", s) \in Jobs /\ Job("remove", s).op \notin {"appeared", "gone"}
    BY <1>4, JobsOf, WindowsAssumption DEF Job
  <2> QED
    BY <2>1, <2>2, OtherQueued
<1>5. ASSUME NEW s \in Natives, SessionExpires(s)
      PROVE  AllAlternate'
  <2>1. /\ UNCHANGED <<active, managers, devices, device, pc, failed>>
        /\ Enqueued(Job("remove", s)) \/ Dropped \/ UNCHANGED <<workChan, missed>>
    BY <1>5, RemovalJob DEF SessionExpires, CallbackFrame
  <2>2. Job("remove", s) \in Jobs /\ Job("remove", s).op \notin {"appeared", "gone"}
    BY <1>5, JobsOf, WindowsAssumption DEF Job
  <2> QED
    BY <2>1, <2>2, OtherQueued
<1>6. ASSUME NEW f \in Flows, WindowElapses(f)
      PROVE  AllAlternate'
  <2>1. UNCHANGED <<workChan, active, missed>> /\ Managed' = Managed /\ (Hears' => Hears)
    BY <1>6 DEF WindowElapses, CallbackFrame, Hears, Hearing, Managed
  <2> QED
    BY <2>1, SameDevices
<1>7. ASSUME NEW f \in Flows, NEW d \in Devices \cup {NoDevice}, DefaultDeviceChanged(f, d)
      PROVE  AllAlternate'
  <2>1. /\ UNCHANGED <<active, managers, devices, device, pc, failed>>
        /\ Enqueued(Job("default", f)) \/ Dropped \/ UNCHANGED <<workChan, missed>>
    BY <1>7, Dispatched, JobsOf DEF DefaultDeviceChanged, CallbackFrame
  <2>2. Job("default", f) \in Jobs /\ Job("default", f).op \notin {"appeared", "gone"}
    BY <1>7, JobsOf, WindowsAssumption DEF Job
  <2> QED
    BY <2>1, <2>2, OtherQueued
<1>8. CASE WorkerBegins
  <2> SUFFICES ASSUME Hears', NEW e \in Devices
               PROVE  Alternate(e, workChan', active', Managed')
    BY DEF AllAlternate
  <2>1. /\ workChan' = <<>> /\ active' = active /\ devices' = active
        /\ managers' = {} /\ device' = NoDevice
    BY <1>8 DEF WorkerBegins, WorkerFrame, SystemFrame, Hears, Hearing
  <2>2. Managed' = active'
    BY <2>1 DEF Managed
  <2>3. DOMAIN workChan' = {}
    BY <2>1
  <2> QED
    BY <2>2, <2>3 DEF Alternate
<1>9. CASE DevicesInitialized
  <2>1. UNCHANGED <<workChan, active, missed>> /\ Managed' = Managed /\ (Hears' => Hears)
    BY <1>9 DEF DevicesInitialized, WorkerFrame, SystemFrame, Hears, Hearing, Managed
  <2> QED
    BY <2>1, SameDevices
<1>10. CASE Listen
  <2>1. UNCHANGED <<workChan, active, missed>> /\ Managed' = Managed /\ (Hears' => Hears)
    BY <1>10 DEF Listen, SystemFrame, Outcome, Hears, Hearing, Managed
  <2> QED
    BY <2>1, SameDevices
<1>11. CASE EnumerateDeviceSessions
  <2>1. UNCHANGED <<workChan, active, missed>> /\ Managed' = Managed /\ (Hears' => Hears)
    BY <1>11 DEF EnumerateDeviceSessions, SystemFrame, Outcome, LiveOn, Hears, Hearing, Managed
  <2> QED
    BY <2>1, SameDevices
<1>12. CASE ManagerCreated
  <2>1. /\ UNCHANGED <<workChan, active, missed, devices>> /\ device \in Devices
        /\ managers' = managers \cup {device} /\ device' = NoDevice /\ NoDevice \notin Devices
        /\ pc = "sessions" /\ UNCHANGED failed
    BY <1>12, WindowsAssumption DEF ManagerCreated, WorkerFrame, SystemFrame
  <2>2. Managed' = Managed /\ (Hears' => Hears)
    BY <2>1 DEF Managed, Hears, Hearing
  <2> QED
    BY <2>1, <2>2, SameDevices
<1>13. ASSUME NEW d \in Devices, InitializeDevice(d)
      PROVE  AllAlternate'
  <2> SUFFICES ASSUME Hears', NEW e \in Devices
               PROVE  Alternate(e, workChan', active', Managed')
    BY DEF AllAlternate
  <2>1. /\ UNCHANGED <<workChan, active, missed>> /\ CreateDeviceManager(d) /\ pc = "devices"
        /\ d \in devices /\ d \notin managers /\ device = NoDevice /\ devices' = devices \ {d}
    BY <1>13 DEF InitializeDevice, SystemFrame
  <2>2. Hears
    BY <2>1 DEF CreateDeviceManager, Outcome, Hears, Hearing
  <2>3. Alternate(e, workChan, active, Managed)
    BY <2>2 DEF AllAlternate
  <2>4. CASE d \in active
    <3>1. \/ device' = d /\ managers' = managers
          \/ device' = device /\ managers' = managers \cup {d}
      BY <2>1, <2>4 DEF CreateDeviceManager, Outcome, Hears
    <3>2. Managed' = Managed
      BY <2>1, <3>1, WindowsAssumption DEF Managed
    <3> QED
      BY <2>1, <2>3, <3>2
  <2>5. CASE d \notin active
    <3>1. device' = device /\ managers' = managers
      BY <2>1, <2>5 DEF CreateDeviceManager, NoDeviceManager
    <3>2. Managed' = Managed \ {d}
      BY <2>1, <3>1 DEF Managed
    <3>3. CASE e = d
      BY <2>1, <2>3, <2>5, <3>2, <3>3, AlternateForgotten
    <3>4. CASE e # d
      BY <2>1, <2>3, <3>2, <3>4 DEF Alternate
    <3> QED
      BY <3>3, <3>4
  <2> QED
    BY <2>4, <2>5
<1>14. ASSUME NEW s \in Natives, AddSessionFails(s)
      PROVE  AllAlternate'
  <2>1. UNCHANGED <<workChan, active, missed>> /\ Managed' = Managed /\ (Hears' => Hears)
    BY <1>14 DEF AddSessionFails, Drop, Done, SystemFrame, Outcome, Hears, Hearing, Managed
  <2> QED
    BY <2>1, SameDevices
<1>15. ASSUME NEW s \in Natives, AddSessionQueries(s)
      PROVE  AllAlternate'
  <2>1. UNCHANGED <<workChan, active, missed>> /\ Managed' = Managed /\ (Hears' => Hears)
    BY <1>15 DEF AddSessionQueries, DropDuplicate, Drop, Done, WorkerFrame, SystemFrame,
      Hears, Hearing, Managed
  <2> QED
    BY <2>1, SameDevices
<1>16. CASE AddSessionTracks
  <2>1. UNCHANGED <<workChan, active, missed>> /\ Managed' = Managed /\ (Hears' => Hears)
    BY <1>16 DEF AddSessionTracks, SystemFrame, Outcome, Hears, Hearing, Managed
  <2> QED
    BY <2>1, SameDevices
<1>17. CASE InitializeMasterSessions
  <2>1. UNCHANGED <<workChan, active, missed>> /\ Managed' = Managed /\ (Hears' => Hears)
    BY <1>17 DEF InitializeMasterSessions, SystemFrame, Outcome, Hears, Hearing, Managed
  <2> QED
    BY <2>1, SameDevices
<1>18. CASE HandleDeviceAdded
  <2> DEFINE d == Head(workChan).what
  <2> SUFFICES ASSUME Hears', NEW e \in Devices
               PROVE  Alternate(e, workChan', active', Managed')
    BY DEF AllAlternate
  <2>1. /\ pc = "idle" /\ workChan # <<>> /\ workChan' = Tail(workChan) /\ missed' = missed
        /\ Head(workChan) = Job("appeared", d) /\ d \in Devices
        /\ CreateDeviceManager(d) /\ UNCHANGED <<devices, active>>
    BY <1>18, Taken, JobKinds DEF HandleDeviceAdded, Take, SystemFrame
  <2> HIDE DEF d
  <2>2. Hears /\ devices = {} /\ device = NoDevice /\ Managed = managers
    BY <2>1 DEF CreateDeviceManager, Outcome, Hears, Hearing, Managed
  <2>3. \A x \in Devices : Alternate(x, workChan, active, Managed)
    BY <2>2 DEF AllAlternate
  <2>4. d \notin Managed
    BY <2>1, <2>3, AlternateAdded DEF QueueTypeOK
  <2>5. /\ d \in Managed' <=> d \in active
        /\ \A x \in Devices : x # d => (x \in Managed' <=> x \in Managed)
    <3>1. CASE d \in active
      <4>1. \/ device' = d /\ managers' = managers
            \/ device' = device /\ managers' = managers \cup {d}
        BY <2>1, <2>2, <2>4, <3>1 DEF CreateDeviceManager, Outcome, Hears
      <4> QED
        BY <2>1, <2>2, <2>4, <3>1, <4>1, WindowsAssumption DEF Managed
    <3>2. CASE d \notin active
      <4>1. device' = device /\ managers' = managers
        BY <2>1, <3>2 DEF CreateDeviceManager, NoDeviceManager
      <4> QED
        BY <2>1, <2>2, <2>4, <3>2, <4>1 DEF Managed
    <3> QED
      BY <3>1, <3>2
  <2>6. CASE e = d
    <3>1. Alternate(d, Tail(workChan), active, Managed')
      BY <2>1, <2>3, <2>5, AlternateAdded DEF QueueTypeOK
    <3> QED
      BY <2>1, <2>6, <3>1
  <2>7. CASE e # d
    <3>1. Head(workChan) \notin About(e)
      BY <2>1, <2>7 DEF About, Job
    <3>2. Alternate(e, workChan, active, Managed)
      BY <2>3
    <3>3. Alternate(e, Tail(workChan), active', Managed')
      BY <2>1, <2>5, <2>7, <3>1, <3>2, AlternatePopped DEF QueueTypeOK
    <3> QED
      BY <2>1, <3>3
  <2> QED
    BY <2>6, <2>7
<1>19. CASE HandleDeviceRemoved
  <2> DEFINE d == Head(workChan).what
  <2> SUFFICES ASSUME Hears', NEW e \in Devices
               PROVE  Alternate(e, workChan', active', Managed')
    BY DEF AllAlternate
  <2>1. /\ pc = "idle" /\ workChan # <<>> /\ workChan' = Tail(workChan) /\ missed' = missed
        /\ Head(workChan) = Job("gone", d) /\ d \in Devices
        /\ managers' = managers \ {d} /\ UNCHANGED <<devices, device, active, failed>>
    BY <1>19, Taken, JobKinds DEF HandleDeviceRemoved, RemoveDeviceManager, Take, SystemFrame
  <2> HIDE DEF d
  <2>2. Hears /\ devices = {} /\ device = NoDevice /\ Managed' = Managed \ {d}
    BY <2>1 DEF Hears, Hearing, Managed
  <2>3. Alternate(e, workChan, active, Managed)
    BY <2>2 DEF AllAlternate
  <2>4. CASE e = d
    <3>1. Alternate(d, Tail(workChan), active, Managed')
      BY <2>1, <2>2, <2>3, <2>4, AlternateRemoved DEF QueueTypeOK
    <3> QED
      BY <2>1, <2>4, <3>1
  <2>5. CASE e # d
    <3>1. Head(workChan) \notin About(e)
      BY <2>1, <2>5 DEF About, Job
    <3>2. Alternate(e, Tail(workChan), active', Managed')
      BY <2>1, <2>2, <2>3, <2>5, <3>1, AlternatePopped DEF QueueTypeOK
    <3> QED
      BY <2>1, <3>2
  <2> QED
    BY <2>4, <2>5
<1>20. CASE HandleSessionCreated
  BY <1>20, OtherHandled DEF HandleSessionCreated
<1>21. CASE HandleSessionEnded
  BY <1>21, OtherHandled DEF HandleSessionEnded
<1>22. CASE HandleDefaultChanged
  BY <1>22, OtherHandled DEF HandleDefaultChanged, RefreshMaster, Outcome
<1>23. CASE WorkerStops
  <2>1. ~Hears'
    BY <1>23 DEF WorkerStops, Hears, Hearing
  <2> QED
    BY <2>1 DEF AllAlternate
<1>24. CASE Release
  <2>1. UNCHANGED <<workChan, active, missed>> /\ Managed' = Managed /\ (Hears' => Hears)
    BY <1>24 DEF Release, Hears, Hearing, Managed
  <2> QED
    BY <2>1, SameDevices
<1>25. CASE UNCHANGED vars
  BY <1>25 DEF AllAlternate, Hears, Hearing, Managed
<1> QED
  BY <1>1, <1>2, <1>3, <1>4, <1>5, <1>6, <1>7, <1>8, <1>9, <1>10, <1>11, <1>12, <1>13,
     <1>14, <1>15, <1>16, <1>17, <1>18, <1>19, <1>20, <1>21, <1>22, <1>23, <1>24, <1>25
  DEF Next, Callbacks, Worker

\* The jobs about a device alternate after every step.
LEMMA DevicesKept ==
  ASSUME WindowsIInv, [Next]_vars
  PROVE  DevicesInv'
<1>1. AllAlternate
  BY AlternateForm DEF WindowsIInv
<1>2. AllAlternate'
  BY <1>1, DevicesAlternate
<1>3. DevicesInv' <=> AllAlternate'
  BY AlternateForm, PTL
<1> QED
  BY <1>2, <1>3

\* What the jobs about a device say of it.
LEMMA DeviceJobs ==
  ASSUME WindowsIInv, Hears, NEW d \in Devices
  PROVE  /\ Range(workChan) \cap About(d) = {} => (d \in active <=> d \in Managed)
         /\ d \in active /\ Job("gone", d) \in Range(workChan) =>
              Job("appeared", d) \in Range(workChan)
BY DEF WindowsIInv, DevicesInv, Range

\* The worker is told of a device it does not manage yet; and when it is told
\* that one is gone which is in use, it will be told so.
LEMMA FirstJob ==
  ASSUME WindowsIInv, Hears, workChan # <<>>, NEW d \in Devices
  PROVE  /\ Head(workChan) = Job("appeared", d) => d \notin Managed
         /\ Head(workChan) = Job("gone", d) /\ d \in active =>
              Job("appeared", d) \in Range(Tail(workChan))
<1>1. Alternate(d, workChan, active, Managed) /\ workChan \in Seq(Jobs)
  BY AlternateForm, TypeGroups DEF WindowsIInv, AllAlternate, QueueTypeOK
<1>2. Head(workChan) = Job("appeared", d) => d \notin Managed
  BY <1>1, AlternateAdded
<1>3. Head(workChan) = Job("gone", d) /\ d \in active =>
        Job("appeared", d) \in Range(Tail(workChan))
  <2>1. d \notin {}
    OBVIOUS
  <2> QED
    BY <1>1, <2>1, AlternateRemoved
<1> QED
  BY <1>2, <1>3

-----------------------------------------------------------------------------
(* The job of a session comes after those of its device.                    *)

Behind(q, s) ==
  \A p, r \in DOMAIN q : q[p] = Job("add", s) /\ q[r] \in About(DeviceOf[s]) => r < p

AllBehind == Hears => \A s \in Natives : native[s] = "live" => Behind(workChan, s)

\* CreatedInv says this of every session that lives.
LEMMA BehindForm == CreatedInv <=> AllBehind
BY DEF CreatedInv, AllBehind, Behind

\* A job that is not about its device may be queued behind the job of a
\* session.
LEMMA BehindOther ==
  ASSUME NEW s, NEW q \in Seq(Jobs), NEW job \in Jobs, job \notin About(DeviceOf[s]), Behind(q, s)
  PROVE  Behind(Append(q, job), s)
<1>1. /\ Len(q) \in Nat /\ DOMAIN q = 1..Len(q) /\ DOMAIN Append(q, job) = 1..(Len(q) + 1)
      /\ \A i \in 1..Len(q) : Append(q, job)[i] = q[i]
      /\ Append(q, job)[Len(q) + 1] = job
  BY Appended
<1>2. SUFFICES ASSUME NEW p \in DOMAIN Append(q, job), NEW r \in DOMAIN Append(q, job),
                      Append(q, job)[p] = Job("add", s),
                      Append(q, job)[r] \in About(DeviceOf[s])
               PROVE  r < p
  BY DEF Behind
<1>3. r \in 1..Len(q) /\ q[r] \in About(DeviceOf[s])
  BY <1>1, <1>2
<1>4. CASE p = Len(q) + 1
  BY <1>1, <1>3, <1>4
<1>5. CASE p # Len(q) + 1
  <2>1. p \in 1..Len(q) /\ q[p] = Job("add", s)
    BY <1>1, <1>2, <1>5
  <2> QED
    BY <1>1, <1>3, <2>1 DEF Behind
<1> QED
  BY <1>4, <1>5

\* Nothing is before the job of a session that has none.
LEMMA BehindFirst ==
  ASSUME NEW s, NEW q \in Seq(Jobs), NEW job \in Jobs, Job("add", s) \notin Range(q)
  PROVE  Behind(Append(q, job), s)
<1>1. /\ Len(q) \in Nat /\ DOMAIN q = 1..Len(q) /\ DOMAIN Append(q, job) = 1..(Len(q) + 1)
      /\ \A i \in 1..Len(q) : Append(q, job)[i] = q[i]
      /\ Append(q, job)[Len(q) + 1] = job
  BY Appended
<1>2. SUFFICES ASSUME NEW p \in DOMAIN Append(q, job), NEW r \in DOMAIN Append(q, job),
                      Append(q, job)[p] = Job("add", s),
                      Append(q, job)[r] \in About(DeviceOf[s])
               PROVE  r < p
  BY DEF Behind
<1>3. p = Len(q) + 1 /\ job = Job("add", s)
  BY <1>1, <1>2 DEF Range
<1>4. r # Len(q) + 1
  BY <1>1, <1>2, <1>3 DEF About, Job
<1> QED
  BY <1>1, <1>3, <1>4

\* The first job may go.
LEMMA BehindPopped ==
  ASSUME NEW s, NEW q \in Seq(Jobs), q # <<>>, Behind(q, s)
  PROVE  Behind(Tail(q), s)
<1>1. /\ Len(q) \in Nat /\ DOMAIN q = 1..Len(q) /\ DOMAIN Tail(q) = 1..(Len(q) - 1)
      /\ \A i \in 1..(Len(q) - 1) : Tail(q)[i] = q[i + 1]
  BY Popped
<1>2. SUFFICES ASSUME NEW p \in DOMAIN Tail(q), NEW r \in DOMAIN Tail(q),
                      Tail(q)[p] = Job("add", s), Tail(q)[r] \in About(DeviceOf[s])
               PROVE  r < p
  BY DEF Behind
<1>3. /\ p + 1 \in DOMAIN q /\ r + 1 \in DOMAIN q /\ p \in Int /\ r \in Int
      /\ q[p + 1] = Job("add", s) /\ q[r + 1] \in About(DeviceOf[s])
  BY <1>1, <1>2
<1>4. r + 1 < p + 1
  BY <1>3 DEF Behind
<1> QED
  BY <1>3, <1>4

\* Callbacks keep the order: a device comes before its sessions, and takes
\* them with it when it goes.
LEMMA QueuedBehind ==
  ASSUME QueueTypeOK, AllBehind, UNCHANGED <<pc, failed>>, NEW job \in Jobs,
         Enqueued(job) \/ Dropped \/ UNCHANGED <<workChan, missed>>,
         \A s \in Natives : native'[s] = "live" =>
           \/ native[s] = "live" /\ job \notin About(DeviceOf[s])
           \/ Job("add", s) \notin Range(workChan)
  PROVE  AllBehind'
<1> SUFFICES ASSUME Hears', NEW s \in Natives, native'[s] = "live"
             PROVE  Behind(workChan', s)
  BY DEF AllBehind
<1>1. Hears /\ ~Dropped
  BY DEF Hears, Hearing, Enqueued, Dropped, QueueTypeOK
<1>2. CASE Enqueued(job)
  <2>1. Behind(Append(workChan, job), s)
    <3>1. CASE native[s] = "live" /\ job \notin About(DeviceOf[s])
      <4>1. Behind(workChan, s)
        BY <1>1, <3>1 DEF AllBehind
      <4> QED
        BY <3>1, <4>1, BehindOther DEF QueueTypeOK
    <3>2. CASE Job("add", s) \notin Range(workChan)
      BY <3>2, BehindFirst DEF QueueTypeOK
    <3> QED
      BY <3>1, <3>2
  <2> QED
    BY <1>2, <2>1 DEF Enqueued
<1>3. CASE UNCHANGED <<workChan, missed>>
  BY <1>1, <1>3 DEF AllBehind, Behind, Range
<1> QED
  BY <1>1, <1>2, <1>3

\* The worker keeps the order, for it takes the first job.
LEMMA HandledBehind ==
  ASSUME QueueTypeOK, AllBehind, NEW op, Take(op), ~failed' => ~failed
  PROVE  AllBehind'
<1> SUFFICES ASSUME Hears', NEW s \in Natives, native'[s] = "live"
             PROVE  Behind(workChan', s)
  BY DEF AllBehind
<1>1. Hears /\ native[s] = "live" /\ workChan # <<>> /\ workChan' = Tail(workChan)
  BY Taken DEF Take, SystemFrame, systemVars, Hears, Hearing
<1>2. Behind(workChan, s)
  BY <1>1 DEF AllBehind
<1>3. Behind(Tail(workChan), s)
  BY <1>1, <1>2, BehindPopped DEF QueueTypeOK
<1> QED
  BY <1>1, <1>3

\* Every step keeps the order.
LEMMA AllStayBehind ==
  ASSUME WindowsIInv, [Next]_vars, AllBehind
  PROVE  AllBehind'
<1> USE TypeGroups
    DEF WindowsIInv, WorkerInv, SystemTypeOK, vars, systemVars, workerVars, mapVars, historyVars
<1>1. ASSUME NEW d \in Removable, DeviceAppears(d)
      PROVE  AllBehind'
  <2>1. /\ UNCHANGED <<pc, failed>>
        /\ Enqueued(Job("appeared", d)) \/ Dropped \/ UNCHANGED <<workChan, missed>>
    BY <1>1, HeardJob, JobsOf, WindowsAssumption DEF DeviceAppears, CallbackFrame
  <2>2. Job("appeared", d) \in Jobs
    BY <1>1, JobsOf, WindowsAssumption
  <2>3. \A x \in Natives : native'[x] = "live" =>
          \/ native[x] = "live" /\ Job("appeared", d) \notin About(DeviceOf[x])
          \/ Job("add", x) \notin Range(workChan)
    BY <1>1 DEF DeviceAppears, About, Job, LiveInv
  <2> QED
    BY <2>1, <2>2, <2>3, QueuedBehind
<1>2. ASSUME NEW d \in Removable, DeviceGoes(d)
      PROVE  AllBehind'
  <2>1. /\ UNCHANGED <<pc, failed>>
        /\ Enqueued(Job("gone", d)) \/ Dropped \/ UNCHANGED <<workChan, missed>>
    BY <1>2, HeardJob, JobsOf, WindowsAssumption DEF DeviceGoes, CallbackFrame
  <2>2. Job("gone", d) \in Jobs
    BY <1>2, JobsOf, WindowsAssumption
  <2>3. \A x \in Natives : native'[x] = "live" =>
          \/ native[x] = "live" /\ Job("gone", d) \notin About(DeviceOf[x])
          \/ Job("add", x) \notin Range(workChan)
    BY <1>2 DEF DeviceGoes, About, Job, LiveInv
  <2> QED
    BY <2>1, <2>2, <2>3, QueuedBehind
<1>3. ASSUME NEW s \in Natives, SessionStarts(s)
      PROVE  AllBehind'
  <2>1. /\ UNCHANGED <<pc, failed>>
        /\ Enqueued(Job("add", s)) \/ Dropped \/ UNCHANGED <<workChan, missed>>
    BY <1>3, Dispatched, JobsOf DEF SessionStarts, CallbackFrame
  <2>2. Job("add", s) \in Jobs
    BY <1>3, JobsOf, WindowsAssumption
  <2>3. \A x \in Natives : native'[x] = "live" =>
          \/ native[x] = "live" /\ Job("add", s) \notin About(DeviceOf[x])
          \/ Job("add", x) \notin Range(workChan)
    BY <1>3 DEF SessionStarts, About, Job, LiveInv
  <2> QED
    BY <2>1, <2>2, <2>3, QueuedBehind
<1>4. ASSUME NEW s \in Natives, SessionDisconnects(s)
      PROVE  AllBehind'
  <2>1. /\ UNCHANGED <<pc, failed>>
        /\ Enqueued(Job("remove", s)) \/ Dropped \/ UNCHANGED <<workChan, missed>>
    BY <1>4, RemovalJob DEF SessionDisconnects, CallbackFrame
  <2>2. Job("remove", s) \in Jobs
    BY <1>4, JobsOf, WindowsAssumption
  <2>3. \A x \in Natives : native'[x] = "live" =>
          \/ native[x] = "live" /\ Job("remove", s) \notin About(DeviceOf[x])
          \/ Job("add", x) \notin Range(workChan)
    BY <1>4 DEF SessionDisconnects, About, Job, LiveInv
  <2> QED
    BY <2>1, <2>2, <2>3, QueuedBehind
<1>5. ASSUME NEW s \in Natives, SessionExpires(s)
      PROVE  AllBehind'
  <2>1. /\ UNCHANGED <<pc, failed>>
        /\ Enqueued(Job("remove", s)) \/ Dropped \/ UNCHANGED <<workChan, missed>>
    BY <1>5, RemovalJob DEF SessionExpires, CallbackFrame
  <2>2. Job("remove", s) \in Jobs
    BY <1>5, JobsOf, WindowsAssumption
  <2>3. \A x \in Natives : native'[x] = "live" =>
          \/ native[x] = "live" /\ Job("remove", s) \notin About(DeviceOf[x])
          \/ Job("add", x) \notin Range(workChan)
    BY <1>5 DEF SessionExpires, About, Job, LiveInv
  <2> QED
    BY <2>1, <2>2, <2>3, QueuedBehind
<1>6. ASSUME NEW f \in Flows, WindowElapses(f)
      PROVE  AllBehind'
  <2>1. UNCHANGED <<workChan, native, missed>> /\ (Hears' => Hears)
    BY <1>6 DEF WindowElapses, CallbackFrame, Hears, Hearing
  <2> QED
    BY <2>1 DEF AllBehind
<1>7. ASSUME NEW f \in Flows, NEW d \in Devices \cup {NoDevice}, DefaultDeviceChanged(f, d)
      PROVE  AllBehind'
  <2>1. /\ UNCHANGED <<pc, failed>>
        /\ Enqueued(Job("default", f)) \/ Dropped \/ UNCHANGED <<workChan, missed>>
    BY <1>7, Dispatched, JobsOf DEF DefaultDeviceChanged, CallbackFrame
  <2>2. Job("default", f) \in Jobs
    BY <1>7, JobsOf, WindowsAssumption
  <2>3. \A x \in Natives : native'[x] = "live" =>
          \/ native[x] = "live" /\ Job("default", f) \notin About(DeviceOf[x])
          \/ Job("add", x) \notin Range(workChan)
    BY <1>7 DEF DefaultDeviceChanged, About, Job, LiveInv
  <2> QED
    BY <2>1, <2>2, <2>3, QueuedBehind
<1>8. CASE WorkerBegins
  <2>1. workChan' = <<>>
    BY <1>8 DEF WorkerBegins, WorkerFrame, SystemFrame
  <2> QED
    BY <2>1 DEF AllBehind, Behind
<1>9. CASE DevicesInitialized
  <2>1. UNCHANGED <<workChan, native, missed>> /\ (Hears' => Hears)
    BY <1>9 DEF DevicesInitialized, WorkerFrame, SystemFrame, Hears, Hearing
  <2> QED
    BY <2>1 DEF AllBehind
<1>10. CASE Listen
  <2>1. UNCHANGED <<workChan, native, missed>> /\ (Hears' => Hears)
    BY <1>10 DEF Listen, SystemFrame, Outcome, Hears, Hearing
  <2> QED
    BY <2>1 DEF AllBehind
<1>11. CASE EnumerateDeviceSessions
  <2>1. UNCHANGED <<workChan, native, missed>> /\ (Hears' => Hears)
    BY <1>11 DEF EnumerateDeviceSessions, SystemFrame, Outcome, LiveOn, Hears, Hearing
  <2> QED
    BY <2>1 DEF AllBehind
<1>12. CASE ManagerCreated
  <2>1. UNCHANGED <<workChan, native, missed>> /\ (Hears' => Hears)
    BY <1>12 DEF ManagerCreated, WorkerFrame, SystemFrame, Hears, Hearing
  <2> QED
    BY <2>1 DEF AllBehind
<1>13. ASSUME NEW d \in Devices, InitializeDevice(d)
      PROVE  AllBehind'
  <2>1. UNCHANGED <<workChan, native, missed>> /\ (Hears' => Hears)
    BY <1>13 DEF InitializeDevice, CreateDeviceManager, SystemFrame, Outcome,
      NoDeviceManager, Hears, Hearing
  <2> QED
    BY <2>1 DEF AllBehind
<1>14. ASSUME NEW s \in Natives, AddSessionFails(s)
      PROVE  AllBehind'
  <2>1. UNCHANGED <<workChan, native, missed>> /\ (Hears' => Hears)
    BY <1>14 DEF AddSessionFails, Drop, Done, SystemFrame, Outcome, Hears, Hearing
  <2> QED
    BY <2>1 DEF AllBehind
<1>15. ASSUME NEW s \in Natives, AddSessionQueries(s)
      PROVE  AllBehind'
  <2>1. UNCHANGED <<workChan, native, missed>> /\ (Hears' => Hears)
    BY <1>15 DEF AddSessionQueries, DropDuplicate, Drop, Done, WorkerFrame, SystemFrame,
      Hears, Hearing
  <2> QED
    BY <2>1 DEF AllBehind
<1>16. CASE AddSessionTracks
  <2>1. UNCHANGED <<workChan, native, missed>> /\ (Hears' => Hears)
    BY <1>16 DEF AddSessionTracks, SystemFrame, Outcome, Hears, Hearing
  <2> QED
    BY <2>1 DEF AllBehind
<1>17. CASE InitializeMasterSessions
  <2>1. UNCHANGED <<workChan, native, missed>> /\ (Hears' => Hears)
    BY <1>17 DEF InitializeMasterSessions, SystemFrame, Outcome, Hears, Hearing
  <2> QED
    BY <2>1 DEF AllBehind
<1>18. CASE HandleDeviceAdded
  BY <1>18, HandledBehind DEF HandleDeviceAdded, CreateDeviceManager, Outcome
<1>19. CASE HandleDeviceRemoved
  BY <1>19, HandledBehind DEF HandleDeviceRemoved
<1>20. CASE HandleSessionCreated
  BY <1>20, HandledBehind DEF HandleSessionCreated
<1>21. CASE HandleSessionEnded
  BY <1>21, HandledBehind DEF HandleSessionEnded
<1>22. CASE HandleDefaultChanged
  BY <1>22, HandledBehind DEF HandleDefaultChanged, RefreshMaster, Outcome
<1>23. CASE WorkerStops
  <2>1. ~Hears'
    BY <1>23 DEF WorkerStops, Hears, Hearing
  <2> QED
    BY <2>1 DEF AllBehind
<1>24. CASE Release
  <2>1. UNCHANGED <<workChan, native, missed>> /\ (Hears' => Hears)
    BY <1>24 DEF Release, Hears, Hearing
  <2> QED
    BY <2>1 DEF AllBehind
<1>25. CASE UNCHANGED vars
  BY <1>25 DEF AllBehind, Hears, Hearing
<1> QED
  BY <1>1, <1>2, <1>3, <1>4, <1>5, <1>6, <1>7, <1>8, <1>9, <1>10, <1>11, <1>12, <1>13,
     <1>14, <1>15, <1>16, <1>17, <1>18, <1>19, <1>20, <1>21, <1>22, <1>23, <1>24, <1>25
  DEF Next, Callbacks, Worker

\* The job of a session stays behind those of its device.
LEMMA CreatedKept ==
  ASSUME WindowsIInv, [Next]_vars
  PROVE  CreatedInv'
<1>1. AllBehind
  BY BehindForm DEF WindowsIInv
<1>2. AllBehind'
  BY <1>1, AllStayBehind
<1>3. CreatedInv' <=> AllBehind'
  BY BehindForm, PTL
<1> QED
  BY <1>2, <1>3

-----------------------------------------------------------------------------
(* What is tracked, and what lives.                                         *)

\* A callback that loses no job leaves the others queued.
LEMMA Posted ==
  ASSUME QueueTypeOK, UNCHANGED <<pc, failed>>, NEW job,
         Enqueued(job) \/ Dropped \/ UNCHANGED <<workChan, missed>>
  PROVE  /\ Range(workChan) \subseteq Range(workChan') /\ (Hears' => Hears /\ ~Dropped)
         /\ Enqueued(job) => job \in Range(workChan')
BY DEF Enqueued, Dropped, Hears, Hearing, QueueTypeOK

\* A call that failed is not forgotten.
LEMMA FailureStays ==
  ASSUME [Next]_vars
  PROVE  ~failed' => ~failed
<1>1. CASE Callbacks \/ Release \/ UNCHANGED vars
  BY <1>1
  DEF Callbacks, DeviceAppears, DeviceGoes, SessionStarts, SessionDisconnects, SessionExpires,
      DefaultDeviceChanged, WindowElapses, CallbackFrame, Release, vars
<1>2. CASE Worker
  BY <1>2
  DEF Worker, WorkerBegins, DevicesInitialized, Listen, EnumerateDeviceSessions, ManagerCreated,
      InitializeDevice, CreateDeviceManager, AddSessionFails, AddSessionQueries,
      AddSessionTracks, InitializeMasterSessions, HandleDeviceAdded, HandleDeviceRemoved,
      HandleSessionCreated, HandleSessionEnded, HandleDefaultChanged, RefreshMaster,
      WorkerStops, WorkerFrame, Outcome
<1> QED
  BY <1>1, <1>2 DEF Next

\* Between two jobs the worker has nothing in its hands.
LEMMA TakenIdle ==
  ASSUME WindowsIInv, [Next]_vars, NEW op, Take(op)
  PROVE  /\ pc = "idle" /\ workChan # <<>> /\ workChan' = Tail(workChan)
         /\ Head(workChan) \in Jobs /\ Head(workChan).op = op
         /\ Head(workChan) = Job(op, Head(workChan).what)
         /\ \A job \in Range(workChan) : job = Head(workChan) \/ job \in Range(workChan')
         /\ devices = {} /\ device = NoDevice /\ controls = {} /\ adding = Nothing /\ ready
         /\ UNCHANGED <<active, native, default, swallowed, silent, missed>>
         /\ (Hears' => Hears)
<1>1. QueueTypeOK /\ WorkerInv
  BY TypeGroups DEF WindowsIInv
<1>2. Head(workChan) = Job(op, Head(workChan).what)
  BY <1>1, Taken, JobKinds
<1>3. UNCHANGED <<active, native, default, swallowed, silent, missed>>
  BY DEF Take, SystemFrame, systemVars
<1>4. pc = "idle"
  BY DEF Take
<1>5. Hears' => Hears
  BY <1>3, <1>4, FailureStays DEF Hears, Hearing
<1>6. devices = {} /\ device = NoDevice /\ controls = {} /\ adding = Nothing /\ ready
  BY <1>1, <1>4 DEF WorkerInv
<1> QED
  BY <1>1, <1>2, <1>3, <1>4, <1>5, <1>6, Taken

\* Jobs of two kinds, or about two things, differ.
LEMMA OtherKinds ==
  \A a, b : /\ Job("add", a) # Job("remove", b) /\ Job("add", a) # Job("gone", b)
            /\ Job("add", a) # Job("appeared", b) /\ Job("add", a) # Job("default", b)
            /\ Job("remove", a) # Job("gone", b) /\ Job("remove", a) # Job("appeared", b)
            /\ Job("remove", a) # Job("default", b) /\ Job("gone", a) # Job("appeared", b)
            /\ Job("gone", a) # Job("default", b) /\ Job("appeared", a) # Job("default", b)
            /\ Job("add", a) = Job("add", b) => a = b
            /\ Job("remove", a) = Job("remove", b) => a = b
            /\ Job("gone", a) = Job("gone", b) => a = b
            /\ Job("appeared", a) = Job("appeared", b) => a = b
            /\ Job("default", a) = Job("default", b) => a = b
BY DEF Job

\* A device that appears is queued, unless the job is missed.
LEMMA DeviceAppearsPosts ==
  ASSUME QueueTypeOK, NEW d \in Removable, DeviceAppears(d)
  PROVE  /\ Range(workChan) \subseteq Range(workChan') /\ (Hears' => Hears)
         /\ Hears' /\ Hearing => Job("appeared", d) \in Range(workChan')
<1>1. Job("appeared", d) \in Jobs
  BY JobsOf, WindowsAssumption
<1>2. /\ UNCHANGED <<pc, failed>>
      /\ Enqueued(Job("appeared", d)) \/ Dropped \/ UNCHANGED <<workChan, missed>>
  BY <1>1, HeardJob, JobsOf, WindowsAssumption DEF DeviceAppears, CallbackFrame
<1>3. Hearing => Enqueued(Job("appeared", d)) \/ Dropped
  BY <1>1, HeardJob, JobsOf, WindowsAssumption DEF DeviceAppears
<1> QED
  BY <1>2, <1>3, Posted

\* So is one that goes.
LEMMA DeviceGoesPosts ==
  ASSUME QueueTypeOK, NEW d \in Removable, DeviceGoes(d)
  PROVE  /\ Range(workChan) \subseteq Range(workChan') /\ (Hears' => Hears)
         /\ Hears' /\ Hearing => Job("gone", d) \in Range(workChan')
<1>1. Job("gone", d) \in Jobs
  BY JobsOf, WindowsAssumption
<1>2. /\ UNCHANGED <<pc, failed>>
      /\ Enqueued(Job("gone", d)) \/ Dropped \/ UNCHANGED <<workChan, missed>>
  BY <1>1, HeardJob, JobsOf, WindowsAssumption DEF DeviceGoes, CallbackFrame
<1>3. Hearing => Enqueued(Job("gone", d)) \/ Dropped
  BY <1>1, HeardJob, JobsOf, WindowsAssumption DEF DeviceGoes
<1> QED
  BY <1>2, <1>3, Posted

\* So is a session that starts on a device the finder listens to.
LEMMA SessionStartsPosts ==
  ASSUME QueueTypeOK, NEW s \in Natives, SessionStarts(s)
  PROVE  /\ Range(workChan) \subseteq Range(workChan') /\ (Hears' => Hears)
         /\ Hears' /\ DeviceOf[s] \in listening => Job("add", s) \in Range(workChan')
<1>1. Job("add", s) \in Jobs
  BY JobsOf, WindowsAssumption
<1>2. /\ UNCHANGED <<pc, failed>>
      /\ Enqueued(Job("add", s)) \/ Dropped \/ UNCHANGED <<workChan, missed>>
  BY <1>1, Dispatched, JobsOf DEF SessionStarts, CallbackFrame
<1>3. DeviceOf[s] \in listening => Enqueued(Job("add", s)) \/ Dropped
  BY <1>1, Dispatched, JobsOf DEF SessionStarts
<1> QED
  BY <1>2, <1>3, Posted

\* So is the removal of a session the finder listens to, when it is
\* disconnected.
LEMMA SessionDisconnectsPosts ==
  ASSUME QueueTypeOK, NEW s \in Natives, SessionDisconnects(s)
  PROVE  /\ Range(workChan) \subseteq Range(workChan') /\ (Hears' => Hears)
         /\ Hears' /\ s \in registered => Job("remove", s) \in Range(workChan')
<1>1. Job("remove", s) \in Jobs
  BY JobsOf, WindowsAssumption
<1>2. /\ UNCHANGED <<pc, failed>>
      /\ Enqueued(Job("remove", s)) \/ Dropped \/ UNCHANGED <<workChan, missed>>
  BY <1>1, RemovalJob DEF SessionDisconnects, CallbackFrame
<1>3. s \in registered => Enqueued(Job("remove", s)) \/ Dropped
  BY <1>1, RemovalJob DEF SessionDisconnects
<1> QED
  BY <1>2, <1>3, Posted

\* So is its removal when it expires.
LEMMA SessionExpiresPosts ==
  ASSUME QueueTypeOK, NEW s \in Natives, SessionExpires(s)
  PROVE  /\ Range(workChan) \subseteq Range(workChan') /\ (Hears' => Hears)
         /\ Hears' /\ s \in registered => Job("remove", s) \in Range(workChan')
<1>1. Job("remove", s) \in Jobs
  BY JobsOf, WindowsAssumption
<1>2. /\ UNCHANGED <<pc, failed>>
      /\ Enqueued(Job("remove", s)) \/ Dropped \/ UNCHANGED <<workChan, missed>>
  BY <1>1, RemovalJob DEF SessionExpires, CallbackFrame
<1>3. s \in registered => Enqueued(Job("remove", s)) \/ Dropped
  BY <1>1, RemovalJob DEF SessionExpires
<1> QED
  BY <1>2, <1>3, Posted

\* A change of a default device is queued, unless one came just before.
LEMMA DefaultDeviceChangedPosts ==
  ASSUME QueueTypeOK, NEW f \in Flows, NEW d \in Devices \cup {NoDevice}, DefaultDeviceChanged(f, d)
  PROVE  /\ Range(workChan) \subseteq Range(workChan') /\ (Hears' => Hears)
         /\ Hears' /\ Hearing /\ f \notin window => Job("default", f) \in Range(workChan')
<1>1. Job("default", f) \in Jobs
  BY JobsOf, WindowsAssumption
<1>2. /\ UNCHANGED <<pc, failed>>
      /\ Enqueued(Job("default", f)) \/ Dropped \/ UNCHANGED <<workChan, missed>>
  BY <1>1, Dispatched, JobsOf DEF DefaultDeviceChanged, CallbackFrame
<1>3. Hearing /\ f \notin window => Enqueued(Job("default", f)) \/ Dropped
  BY <1>1, Dispatched, JobsOf DEF DefaultDeviceChanged, Debounced
<1> QED
  BY <1>2, <1>3, Posted

\* What is tracked, or about to be, has a manager: the job of a session is
\* taken only when the jobs about its device are done.
LEMMA OwnerKept ==
  ASSUME WindowsIInv, [Next]_vars
  PROVE  OwnerInv'
<1> USE TypeGroups
    DEF WindowsIInv, OwnerInv, WorkerInv, WorkerTypeOK, MapTypeOK, SystemTypeOK, Creating,
        vars, systemVars, workerVars, mapVars, historyVars
<1>1. ASSUME NEW d \in Removable, DeviceAppears(d)
      PROVE  OwnerInv'
  <2>1. /\ UNCHANGED <<pc, ready, devices, device, controls, adding, managers,
                     listening, registered, tracked, master, shadowed, mistaken>>
        /\ native' = native /\ active' = active \cup {d} /\ silent' = silent
        /\ default' = default /\ swallowed' = swallowed
    BY <1>1 DEF DeviceAppears, CallbackFrame
  <2>2. /\ Range(workChan) \subseteq Range(workChan') /\ (Hears' => Hears)
        /\ Hears' /\ Hearing => Job("appeared", d) \in Range(workChan')
    BY <1>1, DeviceAppearsPosts
  <2> QED
    BY <2>1, <2>2 DEF OwnerInv
<1>2. ASSUME NEW d \in Removable, DeviceGoes(d)
      PROVE  OwnerInv'
  <2>1. /\ UNCHANGED <<pc, ready, devices, device, controls, adding, managers,
                     listening, registered, tracked, master, shadowed, mistaken>>
        /\ native' = [s \in Natives |-> IF DeviceOf[s] = d /\ native[s] = "live"
                                        THEN "disconnected" ELSE native[s]]
        /\ silent' = silent /\ default' = default /\ swallowed' = swallowed
    BY <1>2 DEF DeviceGoes, CallbackFrame
  <2>2. /\ Range(workChan) \subseteq Range(workChan') /\ (Hears' => Hears)
        /\ Hears' /\ Hearing => Job("gone", d) \in Range(workChan')
    BY <1>2, DeviceGoesPosts
  <2> QED
    BY <2>1, <2>2 DEF OwnerInv
<1>3. ASSUME NEW s \in Natives, SessionStarts(s)
      PROVE  OwnerInv'
  <2>1. /\ UNCHANGED <<pc, ready, devices, device, controls, adding, managers,
                     listening, registered, tracked, master, shadowed, mistaken>>
        /\ native[s] = "absent" /\ native' = [native EXCEPT ![s] = "live"] /\ silent' = silent
        /\ default' = default /\ swallowed' = swallowed
    BY <1>3 DEF SessionStarts, CallbackFrame
  <2>2. /\ Range(workChan) \subseteq Range(workChan') /\ (Hears' => Hears)
        /\ Hears' /\ DeviceOf[s] \in listening => Job("add", s) \in Range(workChan')
    BY <1>3, SessionStartsPosts
  <2> QED
    BY <2>1, <2>2 DEF OwnerInv, LiveInv
<1>4. ASSUME NEW s \in Natives, SessionDisconnects(s)
      PROVE  OwnerInv'
  <2>1. /\ UNCHANGED <<pc, ready, devices, device, controls, adding, managers,
                     listening, registered, tracked, master, shadowed, mistaken>>
        /\ native[s] = "live" /\ native' = [native EXCEPT ![s] = "disconnected"]
        /\ silent' = IF s \in registered THEN silent ELSE silent \cup {s}
        /\ default' = default /\ swallowed' = swallowed
    BY <1>4 DEF SessionDisconnects, CallbackFrame
  <2>2. /\ Range(workChan) \subseteq Range(workChan') /\ (Hears' => Hears)
        /\ Hears' /\ s \in registered => Job("remove", s) \in Range(workChan')
    BY <1>4, SessionDisconnectsPosts
  <2> QED
    BY <2>1, <2>2 DEF OwnerInv
<1>5. ASSUME NEW s \in Natives, SessionExpires(s)
      PROVE  OwnerInv'
  <2>1. /\ UNCHANGED <<pc, ready, devices, device, controls, adding, managers,
                     listening, registered, tracked, master, shadowed, mistaken>>
        /\ native[s] \in {"live", "disconnected"} /\ native' = [native EXCEPT ![s] = "expired"]
        /\ silent' = IF s \in registered \/ native[s] # "live" THEN silent ELSE silent \cup {s}
        /\ default' = default /\ swallowed' = swallowed
    BY <1>5 DEF SessionExpires, CallbackFrame
  <2>2. /\ Range(workChan) \subseteq Range(workChan') /\ (Hears' => Hears)
        /\ Hears' /\ s \in registered => Job("remove", s) \in Range(workChan')
    BY <1>5, SessionExpiresPosts
  <2> QED
    BY <2>1, <2>2 DEF OwnerInv
<1>6. ASSUME NEW f \in Flows, WindowElapses(f)
      PROVE  OwnerInv'
  BY <1>6 DEF WindowElapses, CallbackFrame, Hears, Hearing
<1>7. ASSUME NEW f \in Flows, NEW d \in Devices \cup {NoDevice}, DefaultDeviceChanged(f, d)
      PROVE  OwnerInv'
  <2>1. /\ UNCHANGED <<pc, ready, devices, device, controls, adding, managers,
                     listening, registered, tracked, master, shadowed, mistaken>>
        /\ native' = native /\ silent' = silent /\ default' = [default EXCEPT ![f] = d]
        /\ swallowed' = IF Hearing /\ f \in window /\ d # default[f]
                        THEN swallowed \cup {f} ELSE swallowed
    BY <1>7 DEF DefaultDeviceChanged, CallbackFrame
  <2>2. /\ Range(workChan) \subseteq Range(workChan') /\ (Hears' => Hears)
        /\ Hears' /\ Hearing /\ f \notin window => Job("default", f) \in Range(workChan')
    BY <1>7, DefaultDeviceChangedPosts
  <2> QED
    BY <2>1, <2>2 DEF OwnerInv
<1>8. CASE WorkerBegins
  BY <1>8, WindowsAssumption DEF WorkerBegins, WorkerFrame, SystemFrame, Hears, Hearing
<1>9. CASE DevicesInitialized
  BY <1>9 DEF DevicesInitialized, WorkerFrame, SystemFrame, Hears, Hearing
<1>10. CASE Listen
  BY <1>10 DEF Listen, SystemFrame, Outcome, Hears, Hearing
<1>11. CASE EnumerateDeviceSessions
  BY <1>11 DEF EnumerateDeviceSessions, SystemFrame, Outcome, LiveOn, Hears, Hearing
<1>12. CASE ManagerCreated
  BY <1>12, WindowsAssumption DEF ManagerCreated, WorkerFrame, SystemFrame, Hears, Hearing
<1>13. ASSUME NEW d \in Devices, InitializeDevice(d)
      PROVE  OwnerInv'
  BY <1>13, WindowsAssumption
  DEF InitializeDevice, CreateDeviceManager, SystemFrame, Outcome, NoDeviceManager, Hears,
      Hearing
<1>14. ASSUME NEW s \in Natives, AddSessionFails(s)
      PROVE  OwnerInv'
  BY <1>14 DEF AddSessionFails, Drop, Done, SystemFrame, Outcome, Hears, Hearing
<1>15. ASSUME NEW s \in Natives, AddSessionQueries(s)
      PROVE  OwnerInv'
  BY <1>15 DEF AddSessionQueries, DropDuplicate, Drop, Done, WorkerFrame, SystemFrame, Hears,
    Hearing
<1>16. CASE AddSessionTracks
  BY <1>16, WindowsAssumption DEF AddSessionTracks, SystemFrame, Outcome, Hears, Hearing
<1>17. CASE InitializeMasterSessions
  BY <1>17 DEF InitializeMasterSessions, SystemFrame, Outcome, Hears, Hearing
<1>18. CASE HandleDeviceAdded
  BY <1>18, TakenIdle, WindowsAssumption
  DEF HandleDeviceAdded, CreateDeviceManager, Take, SystemFrame, Outcome, NoDeviceManager
<1>19. CASE HandleDeviceRemoved
  <2> DEFINE what == Head(workChan).what
  <2>1. /\ pc = "idle" /\ Head(workChan) = Job("gone", what)
        /\ \A job \in Range(workChan) : job = Head(workChan) \/ job \in Range(workChan')
        /\ devices = {} /\ device = NoDevice /\ controls = {} /\ adding = Nothing /\ ready
        /\ UNCHANGED <<active, native, default, swallowed, silent>> /\ (Hears' => Hears)
    BY <1>19, TakenIdle DEF HandleDeviceRemoved
  <2>2. /\ UNCHANGED <<device, controls, adding>>
        /\ \/ what \in managers /\ managers' = managers \ {what} /\ tracked' = tracked \ SessionsOf(what)
           \/ UNCHANGED <<managers, tracked>>
    BY <1>19 DEF HandleDeviceRemoved, RemoveDeviceManager, RemoveSessions, workerVars
  <2> HIDE DEF what
  <2> QED
    BY <2>1, <2>2, OtherKinds, WindowsAssumption DEF OwnerInv, SessionsOf
<1>20. CASE HandleSessionCreated
  <2> DEFINE s == Head(workChan).what
  <2> SUFFICES ASSUME Hears', NEW t \in Natives,
                      t \in tracked \/ t = adding \/ (t = s /\ native[t] = "live")
               PROVE  DeviceOf[t] \in managers' \cup Creating'
    BY <1>20, Taken, JobKinds DEF HandleSessionCreated, Take, SystemFrame, OwnerInv
  <2>1. /\ pc = "idle" /\ workChan # <<>> /\ Head(workChan) = Job("add", s)
        /\ UNCHANGED <<managers, device>> /\ Hears
    BY <1>20, Taken, JobKinds DEF HandleSessionCreated, Hears, Hearing
  <2> HIDE DEF s
  <2>2. CASE t \in tracked \/ t = adding
    BY <2>1, <2>2 DEF OwnerInv
  <2>3. CASE t = s /\ native[t] = "live"
    <3>1. 1 \in DOMAIN workChan /\ workChan[1] = Job("add", t) /\ DOMAIN workChan \subseteq Nat \ {0}
      BY <2>1, <2>3, Popped DEF QueueTypeOK
    <3>2. Range(workChan) \cap About(DeviceOf[t]) = {}
      <4> SUFFICES ASSUME NEW r \in DOMAIN workChan, workChan[r] \in About(DeviceOf[t])
                   PROVE  FALSE
        BY DEF Range
      <4>1. r < 1 /\ r \in Nat \ {0}
        BY <2>1, <2>3, <3>1 DEF CreatedInv
      <4> QED
        BY <4>1
    <3>3. DeviceOf[t] \in Devices /\ DeviceOf[t] \in active
      BY <2>3, WindowsAssumption DEF LiveInv
    <3>4. DeviceOf[t] \in Managed
      BY <2>1, <3>2, <3>3, DeviceJobs
    <3> QED
      BY <2>1, <3>4 DEF Managed
  <2> QED
    BY <2>2, <2>3
<1>21. CASE HandleSessionEnded
  BY <1>21, TakenIdle DEF HandleSessionEnded, RemoveSessions, Take, SystemFrame
<1>22. CASE HandleDefaultChanged
  BY <1>22, TakenIdle DEF HandleDefaultChanged, RefreshMaster, Take, SystemFrame, Outcome
<1>23. CASE WorkerStops
  <2>1. ~Hears'
    BY <1>23 DEF WorkerStops, Hears, Hearing
  <2> QED
    BY <2>1 DEF OwnerInv
<1>24. CASE Release
  BY <1>24 DEF Release, Hears, Hearing
<1>25. CASE UNCHANGED vars
  BY <1>25 DEF Hears, Hearing
<1> QED
  BY <1>1, <1>2, <1>3, <1>4, <1>5, <1>6, <1>7, <1>8, <1>9, <1>10, <1>11, <1>12, <1>13,
     <1>14, <1>15, <1>16, <1>17, <1>18, <1>19, <1>20, <1>21, <1>22, <1>23, <1>24, <1>25
  DEF Next, Callbacks, Worker

\* What is tracked and has ended has a job that removes it, or its device
\* has.
LEMMA EndedKept ==
  ASSUME WindowsIInv, [Next]_vars
  PROVE  EndedInv'
<1> USE TypeGroups
    DEF WindowsIInv, EndedInv, WorkerInv, WorkerTypeOK, MapTypeOK, SystemTypeOK, Creating,
        vars, systemVars, workerVars, mapVars, historyVars
<1>1. ASSUME NEW d \in Removable, DeviceAppears(d)
      PROVE  EndedInv'
  <2>1. /\ UNCHANGED <<pc, ready, devices, device, controls, adding, managers,
                     listening, registered, tracked, master, shadowed, mistaken>>
        /\ native' = native /\ active' = active \cup {d} /\ silent' = silent
        /\ default' = default /\ swallowed' = swallowed
    BY <1>1 DEF DeviceAppears, CallbackFrame
  <2>2. /\ Range(workChan) \subseteq Range(workChan') /\ (Hears' => Hears)
        /\ Hears' /\ Hearing => Job("appeared", d) \in Range(workChan')
    BY <1>1, DeviceAppearsPosts
  <2> QED
    BY <2>1, <2>2 DEF EndedInv
<1>2. ASSUME NEW d \in Removable, DeviceGoes(d)
      PROVE  EndedInv'
  <2>1. /\ UNCHANGED <<pc, ready, devices, device, controls, adding, managers,
                     listening, registered, tracked, master, shadowed, mistaken>>
        /\ native' = [s \in Natives |-> IF DeviceOf[s] = d /\ native[s] = "live"
                                        THEN "disconnected" ELSE native[s]]
        /\ silent' = silent /\ default' = default /\ swallowed' = swallowed
    BY <1>2 DEF DeviceGoes, CallbackFrame
  <2>2. /\ Range(workChan) \subseteq Range(workChan') /\ (Hears' => Hears)
        /\ Hears' /\ Hearing => Job("gone", d) \in Range(workChan')
    BY <1>2, DeviceGoesPosts
  <2>3. Hears' => Hearing
    BY <2>1 DEF Hears, Hearing
  <2> QED
    BY <2>1, <2>2, <2>3 DEF EndedInv, Hears, Hearing
<1>3. ASSUME NEW s \in Natives, SessionStarts(s)
      PROVE  EndedInv'
  <2>1. /\ UNCHANGED <<pc, ready, devices, device, controls, adding, managers,
                     listening, registered, tracked, master, shadowed, mistaken>>
        /\ native[s] = "absent" /\ native' = [native EXCEPT ![s] = "live"] /\ silent' = silent
        /\ default' = default /\ swallowed' = swallowed
    BY <1>3 DEF SessionStarts, CallbackFrame
  <2>2. /\ Range(workChan) \subseteq Range(workChan') /\ (Hears' => Hears)
        /\ Hears' /\ DeviceOf[s] \in listening => Job("add", s) \in Range(workChan')
    BY <1>3, SessionStartsPosts
  <2> QED
    BY <2>1, <2>2 DEF EndedInv, ListeningInv
<1>4. ASSUME NEW s \in Natives, SessionDisconnects(s)
      PROVE  EndedInv'
  <2>1. /\ UNCHANGED <<pc, ready, devices, device, controls, adding, managers,
                     listening, registered, tracked, master, shadowed, mistaken>>
        /\ native[s] = "live" /\ native' = [native EXCEPT ![s] = "disconnected"]
        /\ silent' = IF s \in registered THEN silent ELSE silent \cup {s}
        /\ default' = default /\ swallowed' = swallowed
    BY <1>4 DEF SessionDisconnects, CallbackFrame
  <2>2. /\ Range(workChan) \subseteq Range(workChan') /\ (Hears' => Hears)
        /\ Hears' /\ s \in registered => Job("remove", s) \in Range(workChan')
    BY <1>4, SessionDisconnectsPosts
  <2> QED
    BY <2>1, <2>2 DEF EndedInv, ListeningInv
<1>5. ASSUME NEW s \in Natives, SessionExpires(s)
      PROVE  EndedInv'
  <2>1. /\ UNCHANGED <<pc, ready, devices, device, controls, adding, managers,
                     listening, registered, tracked, master, shadowed, mistaken>>
        /\ native[s] \in {"live", "disconnected"} /\ native' = [native EXCEPT ![s] = "expired"]
        /\ silent' = IF s \in registered \/ native[s] # "live" THEN silent ELSE silent \cup {s}
        /\ default' = default /\ swallowed' = swallowed
    BY <1>5 DEF SessionExpires, CallbackFrame
  <2>2. /\ Range(workChan) \subseteq Range(workChan') /\ (Hears' => Hears)
        /\ Hears' /\ s \in registered => Job("remove", s) \in Range(workChan')
    BY <1>5, SessionExpiresPosts
  <2> QED
    BY <2>1, <2>2 DEF EndedInv, ListeningInv
<1>6. ASSUME NEW f \in Flows, WindowElapses(f)
      PROVE  EndedInv'
  BY <1>6 DEF WindowElapses, CallbackFrame, Hears, Hearing
<1>7. ASSUME NEW f \in Flows, NEW d \in Devices \cup {NoDevice}, DefaultDeviceChanged(f, d)
      PROVE  EndedInv'
  <2>1. /\ UNCHANGED <<pc, ready, devices, device, controls, adding, managers,
                     listening, registered, tracked, master, shadowed, mistaken>>
        /\ native' = native /\ silent' = silent /\ default' = [default EXCEPT ![f] = d]
        /\ swallowed' = IF Hearing /\ f \in window /\ d # default[f]
                        THEN swallowed \cup {f} ELSE swallowed
    BY <1>7 DEF DefaultDeviceChanged, CallbackFrame
  <2>2. /\ Range(workChan) \subseteq Range(workChan') /\ (Hears' => Hears)
        /\ Hears' /\ Hearing /\ f \notin window => Job("default", f) \in Range(workChan')
    BY <1>7, DefaultDeviceChangedPosts
  <2> QED
    BY <2>1, <2>2 DEF EndedInv
<1>8. CASE WorkerBegins
  BY <1>8 DEF WorkerBegins, WorkerFrame, SystemFrame, Hears, Hearing
<1>9. CASE DevicesInitialized
  BY <1>9 DEF DevicesInitialized, WorkerFrame, SystemFrame, Hears, Hearing
<1>10. CASE Listen
  BY <1>10 DEF Listen, SystemFrame, Outcome, Hears, Hearing
<1>11. CASE EnumerateDeviceSessions
  BY <1>11 DEF EnumerateDeviceSessions, SystemFrame, Outcome, LiveOn, Hears, Hearing
<1>12. CASE ManagerCreated
  BY <1>12 DEF ManagerCreated, WorkerFrame, SystemFrame, Hears, Hearing
<1>13. ASSUME NEW d \in Devices, InitializeDevice(d)
      PROVE  EndedInv'
  BY <1>13 DEF InitializeDevice, CreateDeviceManager, SystemFrame, Outcome, NoDeviceManager,
    Hears, Hearing
<1>14. ASSUME NEW s \in Natives, AddSessionFails(s)
      PROVE  EndedInv'
  BY <1>14 DEF AddSessionFails, Drop, Done, SystemFrame, Outcome, Hears, Hearing
<1>15. ASSUME NEW s \in Natives, AddSessionQueries(s)
      PROVE  EndedInv'
  BY <1>15 DEF AddSessionQueries, DropDuplicate, Drop, Done, WorkerFrame, SystemFrame, Hears,
    Hearing
<1>16. CASE AddSessionTracks
  BY <1>16 DEF AddSessionTracks, SystemFrame, Outcome, Hears, Hearing
<1>17. CASE InitializeMasterSessions
  BY <1>17 DEF InitializeMasterSessions, SystemFrame, Outcome, Hears, Hearing
<1>18. CASE HandleDeviceAdded
  <2> DEFINE what == Head(workChan).what
  <2>1. /\ pc = "idle" /\ Head(workChan) = Job("appeared", what)
        /\ \A job \in Range(workChan) : job = Head(workChan) \/ job \in Range(workChan')
        /\ devices = {} /\ device = NoDevice /\ controls = {} /\ adding = Nothing /\ ready
        /\ UNCHANGED <<active, native, default, swallowed, silent>> /\ (Hears' => Hears)
    BY <1>18, TakenIdle DEF HandleDeviceAdded
  <2>2. UNCHANGED <<adding, tracked>>
    BY <1>18 DEF HandleDeviceAdded
  <2> HIDE DEF what
  <2> QED
    BY ZenonT(40), <2>1, <2>2, OtherKinds DEF EndedInv
<1>19. CASE HandleDeviceRemoved
  <2> DEFINE what == Head(workChan).what
  <2>1. /\ pc = "idle" /\ Head(workChan) = Job("gone", what)
        /\ \A job \in Range(workChan) : job = Head(workChan) \/ job \in Range(workChan')
        /\ devices = {} /\ device = NoDevice /\ controls = {} /\ adding = Nothing /\ ready
        /\ UNCHANGED <<active, native, default, swallowed, silent>> /\ (Hears' => Hears)
    BY <1>19, TakenIdle DEF HandleDeviceRemoved
  <2>2. /\ UNCHANGED adding /\ tracked' \subseteq tracked
        /\ what \in managers => \A t \in tracked' : DeviceOf[t] # what
    BY <1>19 DEF HandleDeviceRemoved, RemoveDeviceManager, RemoveSessions, SessionsOf
  <2> HIDE DEF what
  <2>3. Hears => \A t \in tracked' : DeviceOf[t] # what
    BY <2>1, <2>2 DEF OwnerInv
  <2> QED
    BY <2>1, <2>2, OtherKinds, <2>3 DEF EndedInv
<1>20. CASE HandleSessionCreated
  <2> DEFINE what == Head(workChan).what
  <2>1. /\ pc = "idle" /\ Head(workChan) = Job("add", what)
        /\ \A job \in Range(workChan) : job = Head(workChan) \/ job \in Range(workChan')
        /\ devices = {} /\ device = NoDevice /\ controls = {} /\ adding = Nothing /\ ready
        /\ UNCHANGED <<active, native, default, swallowed, silent>> /\ (Hears' => Hears)
    BY <1>20, TakenIdle DEF HandleSessionCreated
  <2>2. UNCHANGED <<adding, tracked>>
    BY <1>20 DEF HandleSessionCreated
  <2> HIDE DEF what
  <2> QED
    BY <2>1, <2>2, OtherKinds DEF EndedInv
<1>21. CASE HandleSessionEnded
  <2> DEFINE what == Head(workChan).what
  <2>1. /\ pc = "idle" /\ Head(workChan) = Job("remove", what)
        /\ \A job \in Range(workChan) : job = Head(workChan) \/ job \in Range(workChan')
        /\ devices = {} /\ device = NoDevice /\ controls = {} /\ adding = Nothing /\ ready
        /\ UNCHANGED <<active, native, default, swallowed, silent>> /\ (Hears' => Hears)
    BY <1>21, TakenIdle DEF HandleSessionEnded
  <2>2. /\ UNCHANGED adding /\ tracked' \subseteq tracked /\ what \notin tracked'
    BY <1>21 DEF HandleSessionEnded, RemoveSessions
  <2> HIDE DEF what
  <2> QED
    BY <2>1, <2>2, OtherKinds DEF EndedInv
<1>22. CASE HandleDefaultChanged
  <2> DEFINE what == Head(workChan).what
  <2>1. /\ pc = "idle" /\ Head(workChan) = Job("default", what)
        /\ \A job \in Range(workChan) : job = Head(workChan) \/ job \in Range(workChan')
        /\ devices = {} /\ device = NoDevice /\ controls = {} /\ adding = Nothing /\ ready
        /\ UNCHANGED <<active, native, default, swallowed, silent>> /\ (Hears' => Hears)
    BY <1>22, TakenIdle DEF HandleDefaultChanged
  <2>2. UNCHANGED <<adding, tracked>>
    BY <1>22 DEF HandleDefaultChanged
  <2> HIDE DEF what
  <2> QED
    BY ZenonT(40), <2>1, <2>2, OtherKinds DEF EndedInv
<1>23. CASE WorkerStops
  <2>1. ~Hears'
    BY <1>23 DEF WorkerStops, Hears, Hearing
  <2> QED
    BY <2>1 DEF EndedInv
<1>24. CASE Release
  BY <1>24 DEF Release, Hears, Hearing
<1>25. CASE UNCHANGED vars
  BY <1>25 DEF Hears, Hearing
<1> QED
  BY <1>1, <1>2, <1>3, <1>4, <1>5, <1>6, <1>7, <1>8, <1>9, <1>10, <1>11, <1>12, <1>13,
     <1>14, <1>15, <1>16, <1>17, <1>18, <1>19, <1>20, <1>21, <1>22, <1>23, <1>24, <1>25
  DEF Next, Callbacks, Worker

\* What lives is tracked or is about to be found: by its job, by its device's
\* or by the enumeration the worker is at.
LEMMA FoundKept ==
  ASSUME WindowsIInv, [Next]_vars
  PROVE  FoundInv'
<1> USE TypeGroups
    DEF WindowsIInv, FoundInv, WorkerInv, WorkerTypeOK, MapTypeOK, SystemTypeOK, Creating,
        vars, systemVars, workerVars, mapVars, historyVars
<1>1. ASSUME NEW d \in Removable, DeviceAppears(d)
      PROVE  FoundInv'
  <2>1. /\ UNCHANGED <<pc, ready, devices, device, controls, adding, managers,
                     listening, registered, tracked, master, shadowed, mistaken>>
        /\ native' = native /\ active' = active \cup {d} /\ silent' = silent
        /\ default' = default /\ swallowed' = swallowed
    BY <1>1 DEF DeviceAppears, CallbackFrame
  <2>2. /\ Range(workChan) \subseteq Range(workChan') /\ (Hears' => Hears)
        /\ Hears' /\ Hearing => Job("appeared", d) \in Range(workChan')
    BY <1>1, DeviceAppearsPosts
  <2> QED
    BY <2>1, <2>2 DEF FoundInv
<1>2. ASSUME NEW d \in Removable, DeviceGoes(d)
      PROVE  FoundInv'
  <2>1. /\ UNCHANGED <<pc, ready, devices, device, controls, adding, managers,
                     listening, registered, tracked, master, shadowed, mistaken>>
        /\ native' = [s \in Natives |-> IF DeviceOf[s] = d /\ native[s] = "live"
                                        THEN "disconnected" ELSE native[s]]
        /\ silent' = silent /\ default' = default /\ swallowed' = swallowed
    BY <1>2 DEF DeviceGoes, CallbackFrame
  <2>2. /\ Range(workChan) \subseteq Range(workChan') /\ (Hears' => Hears)
        /\ Hears' /\ Hearing => Job("gone", d) \in Range(workChan')
    BY <1>2, DeviceGoesPosts
  <2> QED
    BY <2>1, <2>2 DEF FoundInv
<1>3. ASSUME NEW s \in Natives, SessionStarts(s)
      PROVE  FoundInv'
  <2>1. /\ UNCHANGED <<pc, ready, devices, device, controls, adding, managers,
                     listening, registered, tracked, master, shadowed, mistaken>>
        /\ native[s] = "absent" /\ native' = [native EXCEPT ![s] = "live"] /\ silent' = silent
        /\ default' = default /\ swallowed' = swallowed
    BY <1>3 DEF SessionStarts, CallbackFrame
  <2>2. /\ Range(workChan) \subseteq Range(workChan') /\ (Hears' => Hears)
        /\ Hears' /\ DeviceOf[s] \in listening => Job("add", s) \in Range(workChan')
    BY <1>3, SessionStartsPosts
  <2>3. Hears' => \/ DeviceOf[s] \in listening \cup devices
                  \/ DeviceOf[s] = device /\ pc \in {"listen", "snapshot"}
                  \/ Job("appeared", DeviceOf[s]) \in Range(workChan)
    <3> SUFFICES ASSUME Hears', DeviceOf[s] \notin listening
                 PROVE  \/ DeviceOf[s] \in devices
                        \/ DeviceOf[s] = device /\ pc \in {"listen", "snapshot"}
                        \/ Job("appeared", DeviceOf[s]) \in Range(workChan)
      OBVIOUS
    <3>1. DeviceOf[s] \in Devices /\ FlowOf[DeviceOf[s]] = Output /\ DeviceOf[s] \in active
      BY <1>3, WindowsAssumption DEF SessionStarts
    <3>2. CASE DeviceOf[s] \in Managed
      BY <2>2, <3>1, <3>2, WindowsAssumption DEF Managed, ListeningInv, Listenable, Hears
    <3>3. CASE DeviceOf[s] \notin Managed
      BY <2>2, <3>1, <3>3, DeviceJobs DEF About
    <3> QED
      BY <3>2, <3>3
  <2> QED
    BY <2>1, <2>2, <2>3 DEF FoundInv
<1>4. ASSUME NEW s \in Natives, SessionDisconnects(s)
      PROVE  FoundInv'
  <2>1. /\ UNCHANGED <<pc, ready, devices, device, controls, adding, managers,
                     listening, registered, tracked, master, shadowed, mistaken>>
        /\ native[s] = "live" /\ native' = [native EXCEPT ![s] = "disconnected"]
        /\ silent' = IF s \in registered THEN silent ELSE silent \cup {s}
        /\ default' = default /\ swallowed' = swallowed
    BY <1>4 DEF SessionDisconnects, CallbackFrame
  <2>2. /\ Range(workChan) \subseteq Range(workChan') /\ (Hears' => Hears)
        /\ Hears' /\ s \in registered => Job("remove", s) \in Range(workChan')
    BY <1>4, SessionDisconnectsPosts
  <2> QED
    BY <2>1, <2>2 DEF FoundInv
<1>5. ASSUME NEW s \in Natives, SessionExpires(s)
      PROVE  FoundInv'
  <2>1. /\ UNCHANGED <<pc, ready, devices, device, controls, adding, managers,
                     listening, registered, tracked, master, shadowed, mistaken>>
        /\ native[s] \in {"live", "disconnected"} /\ native' = [native EXCEPT ![s] = "expired"]
        /\ silent' = IF s \in registered \/ native[s] # "live" THEN silent ELSE silent \cup {s}
        /\ default' = default /\ swallowed' = swallowed
    BY <1>5 DEF SessionExpires, CallbackFrame
  <2>2. /\ Range(workChan) \subseteq Range(workChan') /\ (Hears' => Hears)
        /\ Hears' /\ s \in registered => Job("remove", s) \in Range(workChan')
    BY <1>5, SessionExpiresPosts
  <2> QED
    BY <2>1, <2>2 DEF FoundInv
<1>6. ASSUME NEW f \in Flows, WindowElapses(f)
      PROVE  FoundInv'
  BY <1>6 DEF WindowElapses, CallbackFrame, Hears, Hearing
<1>7. ASSUME NEW f \in Flows, NEW d \in Devices \cup {NoDevice}, DefaultDeviceChanged(f, d)
      PROVE  FoundInv'
  <2>1. /\ UNCHANGED <<pc, ready, devices, device, controls, adding, managers,
                     listening, registered, tracked, master, shadowed, mistaken>>
        /\ native' = native /\ silent' = silent /\ default' = [default EXCEPT ![f] = d]
        /\ swallowed' = IF Hearing /\ f \in window /\ d # default[f]
                        THEN swallowed \cup {f} ELSE swallowed
    BY <1>7 DEF DefaultDeviceChanged, CallbackFrame
  <2>2. /\ Range(workChan) \subseteq Range(workChan') /\ (Hears' => Hears)
        /\ Hears' /\ Hearing /\ f \notin window => Job("default", f) \in Range(workChan')
    BY <1>7, DefaultDeviceChangedPosts
  <2> QED
    BY <2>1, <2>2 DEF FoundInv
<1>8. CASE WorkerBegins
  <2> SUFFICES ASSUME Hears', NEW s \in Natives, native'[s] = "live"
               PROVE  DeviceOf[s] \in devices'
    BY DEF FoundInv
  <2>1. devices' = active /\ native' = native
    BY <1>8 DEF WorkerBegins, WorkerFrame, SystemFrame, Hears, Hearing
  <2> QED
    BY <2>1 DEF LiveInv
<1>9. CASE DevicesInitialized
  BY <1>9 DEF DevicesInitialized, WorkerFrame, SystemFrame, Hears, Hearing
<1>10. CASE Listen
  BY <1>10, CreationOrder DEF Listen, SystemFrame, Outcome, Hears, Hearing
<1>11. CASE EnumerateDeviceSessions
  BY <1>11, CreationOrder DEF EnumerateDeviceSessions, SystemFrame, Outcome, LiveOn, Hears,
    Hearing
<1>12. CASE ManagerCreated
  BY <1>12 DEF ManagerCreated, WorkerFrame, SystemFrame, Hears, Hearing
<1>13. ASSUME NEW d \in Devices, InitializeDevice(d)
      PROVE  FoundInv'
  <2>1. /\ pc = "devices" /\ d \in devices /\ d \notin managers
        /\ devices' = devices \ {d} /\ device = NoDevice
        /\ UNCHANGED <<native, workChan, tracked, shadowed, mistaken, controls, adding>>
        /\ CreateDeviceManager(d) /\ (Hears' => Hears)
    BY <1>13, FailureStays DEF InitializeDevice, SystemFrame, Hears, Hearing
  <2>2. Hears' => \A s \in Natives : native[s] = "live" /\ DeviceOf[s] = d =>
                    device' = d /\ pc' = "listen"
    <3> SUFFICES ASSUME Hears', NEW s \in Natives, native[s] = "live", DeviceOf[s] = d
                 PROVE  device' = d /\ pc' = "listen"
      OBVIOUS
    <3>1. d \in active /\ FlowOf[d] = Output
      BY WindowsAssumption DEF LiveInv
    <3> QED
      BY <2>1, <3>1, CreationOrder DEF CreateDeviceManager, Outcome, Hears
  <2> QED
    BY <2>1, <2>2, WindowsAssumption DEF FoundInv
<1>14. ASSUME NEW s \in Natives, AddSessionFails(s)
      PROVE  FoundInv'
  BY <1>14 DEF AddSessionFails, Drop, Done, SystemFrame, Outcome, Hears, Hearing
<1>15. ASSUME NEW s \in Natives, AddSessionQueries(s)
      PROVE  FoundInv'
  <2>1. /\ pc = "sessions" /\ s \in controls /\ controls' = controls \ {s}
        /\ UNCHANGED <<native, workChan, tracked, mistaken, devices, device>> /\ (Hears' => Hears)
        /\ shadowed \subseteq shadowed' /\ s \in tracked \cup shadowed' \cup {adding'} /\ adding = Nothing
    BY <1>15 DEF AddSessionQueries, DropDuplicate, Drop, Done, WorkerFrame, SystemFrame,
      Hears, Hearing
  <2> QED
    BY <2>1, WindowsAssumption DEF FoundInv
<1>16. CASE AddSessionTracks
  BY <1>16 DEF AddSessionTracks, SystemFrame, Outcome, Hears, Hearing
<1>17. CASE InitializeMasterSessions
  BY <1>17 DEF InitializeMasterSessions, SystemFrame, Outcome, Hears, Hearing
<1>18. CASE HandleDeviceAdded
  <2> DEFINE what == Head(workChan).what
  <2>1. /\ pc = "idle" /\ Head(workChan) = Job("appeared", what)
        /\ \A job \in Range(workChan) : job = Head(workChan) \/ job \in Range(workChan')
        /\ devices = {} /\ device = NoDevice /\ controls = {} /\ adding = Nothing /\ ready
        /\ UNCHANGED <<active, native, default, swallowed, silent>> /\ (Hears' => Hears)
    BY <1>18, TakenIdle DEF HandleDeviceAdded
  <2>2. UNCHANGED <<devices, controls, adding, tracked, shadowed, mistaken>> /\ CreateDeviceManager(what)
    BY <1>18 DEF HandleDeviceAdded
  <2> HIDE DEF what
  <2>3. what \in Devices /\ (Hears => what \notin managers)
    <3>1. what \in Devices /\ workChan # <<>>
      BY <1>18, Taken, JobKinds DEF HandleDeviceAdded, what
    <3> QED
      BY <2>1, <3>1, FirstJob DEF Managed
  <2>4. Hears' => \A s \in Natives : native[s] = "live" /\ DeviceOf[s] = what =>
                    device' = what /\ pc' = "listen"
    <3> SUFFICES ASSUME Hears', NEW s \in Natives, native[s] = "live", DeviceOf[s] = what
                 PROVE  device' = what /\ pc' = "listen"
      OBVIOUS
    <3>1. what \in active /\ FlowOf[what] = Output
      BY WindowsAssumption DEF LiveInv
    <3> QED
      BY <2>1, <2>2, <2>3, <3>1, CreationOrder DEF CreateDeviceManager, Outcome, Hears
  <2> QED
    BY ZenonT(40), <2>1, <2>2, OtherKinds, <2>4, WindowsAssumption DEF FoundInv
<1>19. CASE HandleDeviceRemoved
  <2> DEFINE what == Head(workChan).what
  <2>1. /\ pc = "idle" /\ Head(workChan) = Job("gone", what)
        /\ \A job \in Range(workChan) : job = Head(workChan) \/ job \in Range(workChan')
        /\ devices = {} /\ device = NoDevice /\ controls = {} /\ adding = Nothing /\ ready
        /\ UNCHANGED <<active, native, default, swallowed, silent>> /\ (Hears' => Hears)
    BY <1>19, TakenIdle DEF HandleDeviceRemoved
  <2>2. /\ UNCHANGED <<pc, devices, device, controls, adding, shadowed, mistaken>>
        /\ tracked \subseteq tracked' \cup SessionsOf(what)
    BY <1>19 DEF HandleDeviceRemoved, RemoveDeviceManager, RemoveSessions, SessionsOf, workerVars
  <2> HIDE DEF what
  <2>3. \A s \in Natives : Hears /\ native[s] = "live" /\ DeviceOf[s] = what =>
          Job("appeared", what) \in Range(workChan')
    <3> SUFFICES ASSUME NEW s \in Natives, Hears, native[s] = "live", DeviceOf[s] = what
                 PROVE  Job("appeared", what) \in Range(workChan')
      OBVIOUS
    <3>1. what \in Devices /\ what \in active
      BY WindowsAssumption DEF LiveInv
    <3>2. workChan # <<>> /\ workChan' = Tail(workChan)
      BY <1>19, Taken DEF HandleDeviceRemoved
    <3> QED
      BY <2>1, <3>1, <3>2, FirstJob
  <2> QED
    BY <2>1, <2>2, OtherKinds, <2>3, WindowsAssumption DEF FoundInv, SessionsOf
<1>20. CASE HandleSessionCreated
  <2> DEFINE what == Head(workChan).what
  <2>1. /\ pc = "idle" /\ Head(workChan) = Job("add", what)
        /\ \A job \in Range(workChan) : job = Head(workChan) \/ job \in Range(workChan')
        /\ devices = {} /\ device = NoDevice /\ controls = {} /\ adding = Nothing /\ ready
        /\ UNCHANGED <<active, native, default, swallowed, silent>> /\ (Hears' => Hears)
    BY <1>20, TakenIdle DEF HandleSessionCreated
  <2>2. /\ UNCHANGED <<devices, device, adding, tracked, shadowed, mistaken>>
        /\ controls' = {what}
    BY <1>20 DEF HandleSessionCreated
  <2> HIDE DEF what
  <2> QED
    BY <2>1, <2>2, OtherKinds, WindowsAssumption DEF FoundInv
<1>21. CASE HandleSessionEnded
  <2> DEFINE what == Head(workChan).what
  <2>1. /\ pc = "idle" /\ Head(workChan) = Job("remove", what)
        /\ \A job \in Range(workChan) : job = Head(workChan) \/ job \in Range(workChan')
        /\ devices = {} /\ device = NoDevice /\ controls = {} /\ adding = Nothing /\ ready
        /\ UNCHANGED <<active, native, default, swallowed, silent>> /\ (Hears' => Hears)
    BY <1>21, TakenIdle DEF HandleSessionEnded
  <2>2. /\ UNCHANGED <<pc, devices, device, controls, adding, shadowed>>
        /\ tracked' = tracked \ {t \in tracked : Id(t) = Id(what)}
        /\ mistaken' = (mistaken \/ {t \in tracked : Id(t) = Id(what)}
                                      \cap {t \in Natives : t # what} # {})
    BY <1>21 DEF HandleSessionEnded, RemoveSessions, workerVars
  <2> HIDE DEF what
  <2>3. ~mistaken' => ~mistaken /\ tracked \subseteq tracked' \cup {what}
    BY <2>2
  <2>4. \A s \in Natives : native[s] = "live" => s # what
    <3>1. Job("remove", what) \in Range(workChan)
      BY <1>21, <2>1, Taken DEF HandleSessionEnded
    <3> QED
      BY <3>1 DEF LiveInv
  <2> QED
    BY <2>1, <2>2, OtherKinds, <2>3, <2>4, WindowsAssumption DEF FoundInv
<1>22. CASE HandleDefaultChanged
  <2> DEFINE what == Head(workChan).what
  <2>1. /\ pc = "idle" /\ Head(workChan) = Job("default", what)
        /\ \A job \in Range(workChan) : job = Head(workChan) \/ job \in Range(workChan')
        /\ devices = {} /\ device = NoDevice /\ controls = {} /\ adding = Nothing /\ ready
        /\ UNCHANGED <<active, native, default, swallowed, silent>> /\ (Hears' => Hears)
    BY <1>22, TakenIdle DEF HandleDefaultChanged
  <2>2. UNCHANGED <<pc, devices, device, controls, adding, tracked, shadowed, mistaken>>
    BY <1>22 DEF HandleDefaultChanged, workerVars
  <2> HIDE DEF what
  <2> QED
    BY <2>1, <2>2, OtherKinds, WindowsAssumption DEF FoundInv
<1>23. CASE WorkerStops
  <2>1. ~Hears'
    BY <1>23 DEF WorkerStops, Hears, Hearing
  <2> QED
    BY <2>1 DEF FoundInv
<1>24. CASE Release
  BY <1>24 DEF Release, Hears, Hearing
<1>25. CASE UNCHANGED vars
  BY <1>25 DEF Hears, Hearing
<1> QED
  BY <1>1, <1>2, <1>3, <1>4, <1>5, <1>6, <1>7, <1>8, <1>9, <1>10, <1>11, <1>12, <1>13,
     <1>14, <1>15, <1>16, <1>17, <1>18, <1>19, <1>20, <1>21, <1>22, <1>23, <1>24, <1>25
  DEF Next, Callbacks, Worker

\* A default device has its master session, or the job that gives it one.
LEMMA MasterKept ==
  ASSUME WindowsIInv, [Next]_vars
  PROVE  MasterInv'
<1> USE TypeGroups
    DEF WindowsIInv, MasterInv, WorkerInv, WorkerTypeOK, MapTypeOK, SystemTypeOK, Creating,
        vars, systemVars, workerVars, mapVars, historyVars
<1>1. ASSUME NEW d \in Removable, DeviceAppears(d)
      PROVE  MasterInv'
  <2>1. /\ UNCHANGED <<pc, ready, devices, device, controls, adding, managers,
                     listening, registered, tracked, master, shadowed, mistaken>>
        /\ native' = native /\ active' = active \cup {d} /\ silent' = silent
        /\ default' = default /\ swallowed' = swallowed
    BY <1>1 DEF DeviceAppears, CallbackFrame
  <2>2. /\ Range(workChan) \subseteq Range(workChan') /\ (Hears' => Hears)
        /\ Hears' /\ Hearing => Job("appeared", d) \in Range(workChan')
    BY <1>1, DeviceAppearsPosts
  <2> QED
    BY <2>1, <2>2 DEF MasterInv
<1>2. ASSUME NEW d \in Removable, DeviceGoes(d)
      PROVE  MasterInv'
  <2>1. /\ UNCHANGED <<pc, ready, devices, device, controls, adding, managers,
                     listening, registered, tracked, master, shadowed, mistaken>>
        /\ native' = [s \in Natives |-> IF DeviceOf[s] = d /\ native[s] = "live"
                                        THEN "disconnected" ELSE native[s]]
        /\ silent' = silent /\ default' = default /\ swallowed' = swallowed
    BY <1>2 DEF DeviceGoes, CallbackFrame
  <2>2. /\ Range(workChan) \subseteq Range(workChan') /\ (Hears' => Hears)
        /\ Hears' /\ Hearing => Job("gone", d) \in Range(workChan')
    BY <1>2, DeviceGoesPosts
  <2> QED
    BY <2>1, <2>2 DEF MasterInv
<1>3. ASSUME NEW s \in Natives, SessionStarts(s)
      PROVE  MasterInv'
  <2>1. /\ UNCHANGED <<pc, ready, devices, device, controls, adding, managers,
                     listening, registered, tracked, master, shadowed, mistaken>>
        /\ native[s] = "absent" /\ native' = [native EXCEPT ![s] = "live"] /\ silent' = silent
        /\ default' = default /\ swallowed' = swallowed
    BY <1>3 DEF SessionStarts, CallbackFrame
  <2>2. /\ Range(workChan) \subseteq Range(workChan') /\ (Hears' => Hears)
        /\ Hears' /\ DeviceOf[s] \in listening => Job("add", s) \in Range(workChan')
    BY <1>3, SessionStartsPosts
  <2> QED
    BY <2>1, <2>2 DEF MasterInv
<1>4. ASSUME NEW s \in Natives, SessionDisconnects(s)
      PROVE  MasterInv'
  <2>1. /\ UNCHANGED <<pc, ready, devices, device, controls, adding, managers,
                     listening, registered, tracked, master, shadowed, mistaken>>
        /\ native[s] = "live" /\ native' = [native EXCEPT ![s] = "disconnected"]
        /\ silent' = IF s \in registered THEN silent ELSE silent \cup {s}
        /\ default' = default /\ swallowed' = swallowed
    BY <1>4 DEF SessionDisconnects, CallbackFrame
  <2>2. /\ Range(workChan) \subseteq Range(workChan') /\ (Hears' => Hears)
        /\ Hears' /\ s \in registered => Job("remove", s) \in Range(workChan')
    BY <1>4, SessionDisconnectsPosts
  <2> QED
    BY <2>1, <2>2 DEF MasterInv
<1>5. ASSUME NEW s \in Natives, SessionExpires(s)
      PROVE  MasterInv'
  <2>1. /\ UNCHANGED <<pc, ready, devices, device, controls, adding, managers,
                     listening, registered, tracked, master, shadowed, mistaken>>
        /\ native[s] \in {"live", "disconnected"} /\ native' = [native EXCEPT ![s] = "expired"]
        /\ silent' = IF s \in registered \/ native[s] # "live" THEN silent ELSE silent \cup {s}
        /\ default' = default /\ swallowed' = swallowed
    BY <1>5 DEF SessionExpires, CallbackFrame
  <2>2. /\ Range(workChan) \subseteq Range(workChan') /\ (Hears' => Hears)
        /\ Hears' /\ s \in registered => Job("remove", s) \in Range(workChan')
    BY <1>5, SessionExpiresPosts
  <2> QED
    BY <2>1, <2>2 DEF MasterInv
<1>6. ASSUME NEW f \in Flows, WindowElapses(f)
      PROVE  MasterInv'
  BY <1>6 DEF WindowElapses, CallbackFrame, Hears, Hearing
<1>7. ASSUME NEW f \in Flows, NEW d \in Devices \cup {NoDevice}, DefaultDeviceChanged(f, d)
      PROVE  MasterInv'
  <2>1. /\ UNCHANGED <<pc, ready, devices, device, controls, adding, managers,
                     listening, registered, tracked, master, shadowed, mistaken>>
        /\ native' = native /\ silent' = silent /\ default' = [default EXCEPT ![f] = d]
        /\ swallowed' = IF Hearing /\ f \in window /\ d # default[f]
                        THEN swallowed \cup {f} ELSE swallowed
    BY <1>7 DEF DefaultDeviceChanged, CallbackFrame
  <2>2. /\ Range(workChan) \subseteq Range(workChan') /\ (Hears' => Hears)
        /\ Hears' /\ Hearing /\ f \notin window => Job("default", f) \in Range(workChan')
    BY <1>7, DefaultDeviceChangedPosts
  <2> QED
    BY <2>1, <2>2 DEF MasterInv, Hears, HistoryTypeOK
<1>8. CASE WorkerBegins
  BY <1>8 DEF WorkerBegins, WorkerFrame, SystemFrame, Hears, Hearing
<1>9. CASE DevicesInitialized
  BY <1>9 DEF DevicesInitialized, WorkerFrame, SystemFrame, Hears, Hearing
<1>10. CASE Listen
  BY <1>10 DEF Listen, SystemFrame, Outcome, Hears, Hearing
<1>11. CASE EnumerateDeviceSessions
  BY <1>11 DEF EnumerateDeviceSessions, SystemFrame, Outcome, LiveOn, Hears, Hearing
<1>12. CASE ManagerCreated
  BY <1>12 DEF ManagerCreated, WorkerFrame, SystemFrame, Hears, Hearing
<1>13. ASSUME NEW d \in Devices, InitializeDevice(d)
      PROVE  MasterInv'
  BY <1>13 DEF InitializeDevice, CreateDeviceManager, SystemFrame, Outcome, NoDeviceManager,
    Hears, Hearing
<1>14. ASSUME NEW s \in Natives, AddSessionFails(s)
      PROVE  MasterInv'
  BY <1>14 DEF AddSessionFails, Drop, Done, SystemFrame, Outcome, Hears, Hearing
<1>15. ASSUME NEW s \in Natives, AddSessionQueries(s)
      PROVE  MasterInv'
  BY <1>15 DEF AddSessionQueries, DropDuplicate, Drop, Done, WorkerFrame, SystemFrame, Hears,
    Hearing
<1>16. CASE AddSessionTracks
  BY <1>16 DEF AddSessionTracks, SystemFrame, Outcome, Hears, Hearing
<1>17. CASE InitializeMasterSessions
  BY <1>17 DEF InitializeMasterSessions, SystemFrame, Outcome, Hears, Hearing
<1>18. CASE HandleDeviceAdded
  <2> DEFINE what == Head(workChan).what
  <2>1. /\ pc = "idle" /\ Head(workChan) = Job("appeared", what)
        /\ \A job \in Range(workChan) : job = Head(workChan) \/ job \in Range(workChan')
        /\ devices = {} /\ device = NoDevice /\ controls = {} /\ adding = Nothing /\ ready
        /\ UNCHANGED <<active, native, default, swallowed, silent>> /\ (Hears' => Hears)
    BY <1>18, TakenIdle DEF HandleDeviceAdded
  <2>2. UNCHANGED <<ready, master>>
    BY <1>18 DEF HandleDeviceAdded, workerVars
  <2> HIDE DEF what
  <2> QED
    BY <2>1, <2>2, OtherKinds DEF MasterInv
<1>19. CASE HandleDeviceRemoved
  <2> DEFINE what == Head(workChan).what
  <2>1. /\ pc = "idle" /\ Head(workChan) = Job("gone", what)
        /\ \A job \in Range(workChan) : job = Head(workChan) \/ job \in Range(workChan')
        /\ devices = {} /\ device = NoDevice /\ controls = {} /\ adding = Nothing /\ ready
        /\ UNCHANGED <<active, native, default, swallowed, silent>> /\ (Hears' => Hears)
    BY <1>19, TakenIdle DEF HandleDeviceRemoved
  <2>2. UNCHANGED <<ready, master>>
    BY <1>19 DEF HandleDeviceRemoved, workerVars
  <2> HIDE DEF what
  <2> QED
    BY <2>1, <2>2, OtherKinds DEF MasterInv
<1>20. CASE HandleSessionCreated
  <2> DEFINE what == Head(workChan).what
  <2>1. /\ pc = "idle" /\ Head(workChan) = Job("add", what)
        /\ \A job \in Range(workChan) : job = Head(workChan) \/ job \in Range(workChan')
        /\ devices = {} /\ device = NoDevice /\ controls = {} /\ adding = Nothing /\ ready
        /\ UNCHANGED <<active, native, default, swallowed, silent>> /\ (Hears' => Hears)
    BY <1>20, TakenIdle DEF HandleSessionCreated
  <2>2. UNCHANGED <<ready, master>>
    BY <1>20 DEF HandleSessionCreated, workerVars
  <2> HIDE DEF what
  <2> QED
    BY <2>1, <2>2, OtherKinds DEF MasterInv
<1>21. CASE HandleSessionEnded
  <2> DEFINE what == Head(workChan).what
  <2>1. /\ pc = "idle" /\ Head(workChan) = Job("remove", what)
        /\ \A job \in Range(workChan) : job = Head(workChan) \/ job \in Range(workChan')
        /\ devices = {} /\ device = NoDevice /\ controls = {} /\ adding = Nothing /\ ready
        /\ UNCHANGED <<active, native, default, swallowed, silent>> /\ (Hears' => Hears)
    BY <1>21, TakenIdle DEF HandleSessionEnded
  <2>2. UNCHANGED <<ready, master>>
    BY <1>21 DEF HandleSessionEnded, workerVars
  <2> HIDE DEF what
  <2> QED
    BY <2>1, <2>2, OtherKinds DEF MasterInv
<1>22. CASE HandleDefaultChanged
  <2> DEFINE what == Head(workChan).what
  <2>1. /\ pc = "idle" /\ Head(workChan) = Job("default", what)
        /\ \A job \in Range(workChan) : job = Head(workChan) \/ job \in Range(workChan')
        /\ devices = {} /\ device = NoDevice /\ controls = {} /\ adding = Nothing /\ ready
        /\ UNCHANGED <<active, native, default, swallowed, silent>> /\ (Hears' => Hears)
    BY <1>22, TakenIdle DEF HandleDefaultChanged
  <2>2. UNCHANGED ready /\ RefreshMaster(what)
    BY <1>22 DEF HandleDefaultChanged, workerVars
  <2> HIDE DEF what
  <2>3. what \in Flows
    BY <1>22, Taken, JobKinds DEF HandleDefaultChanged, what
  <2>4. Hears' => master' = [master EXCEPT ![what] = default[what]]
    BY <2>2, <2>3 DEF RefreshMaster, Outcome, Hears
  <2> QED
    BY <2>1, <2>2, <2>4, OtherKinds DEF MasterInv
<1>23. CASE WorkerStops
  BY <1>23 DEF WorkerStops, Cleanup, RemoveSessions, SessionsOf, WorkerFrame, SystemFrame,
    Hears, Hearing
<1>24. CASE Release
  BY <1>24 DEF Release, Hears, Hearing
<1>25. CASE UNCHANGED vars
  BY <1>25 DEF Hears, Hearing
<1> QED
  BY <1>1, <1>2, <1>3, <1>4, <1>5, <1>6, <1>7, <1>8, <1>9, <1>10, <1>11, <1>12, <1>13,
     <1>14, <1>15, <1>16, <1>17, <1>18, <1>19, <1>20, <1>21, <1>22, <1>23, <1>24, <1>25
  DEF Next, Callbacks, Worker

\* When the worker ends nothing is left, whatever jobs are.
LEMMA CleanupKept ==
  ASSUME WindowsIInv, [Next]_vars
  PROVE  CleanupLeavesNothing'
<1> USE TypeGroups
    DEF WindowsIInv, CleanupLeavesNothing, WorkerInv, WorkerTypeOK, MapTypeOK, SystemTypeOK,
        Creating, vars, systemVars, workerVars, mapVars, historyVars
<1>1. ASSUME NEW d \in Removable, DeviceAppears(d)
      PROVE  CleanupLeavesNothing'
  BY <1>1 DEF DeviceAppears, CallbackFrame, Hears, Hearing
<1>2. ASSUME NEW d \in Removable, DeviceGoes(d)
      PROVE  CleanupLeavesNothing'
  BY <1>2 DEF DeviceGoes, CallbackFrame, Hears, Hearing
<1>3. ASSUME NEW s \in Natives, SessionStarts(s)
      PROVE  CleanupLeavesNothing'
  BY <1>3 DEF SessionStarts, CallbackFrame, Hears, Hearing
<1>4. ASSUME NEW s \in Natives, SessionDisconnects(s)
      PROVE  CleanupLeavesNothing'
  BY <1>4 DEF SessionDisconnects, CallbackFrame, Hears, Hearing
<1>5. ASSUME NEW s \in Natives, SessionExpires(s)
      PROVE  CleanupLeavesNothing'
  BY <1>5 DEF SessionExpires, CallbackFrame, Hears, Hearing
<1>6. ASSUME NEW f \in Flows, WindowElapses(f)
      PROVE  CleanupLeavesNothing'
  BY <1>6 DEF WindowElapses, CallbackFrame, Hears, Hearing
<1>7. ASSUME NEW f \in Flows, NEW d \in Devices \cup {NoDevice}, DefaultDeviceChanged(f, d)
      PROVE  CleanupLeavesNothing'
  BY <1>7 DEF DefaultDeviceChanged, CallbackFrame, Hears, Hearing
<1>8. CASE WorkerBegins
  <2> SUFFICES ASSUME pc' = "ended"
               PROVE  /\ tracked' = {} /\ registered' = {} /\ known' = {}
                      /\ managers' = {} /\ listening' = {}
    OBVIOUS
  <2>1. /\ managers = {} /\ tracked = {} /\ device = NoDevice /\ master = [f \in Flows |-> NoDevice]
        /\ UNCHANGED <<tracked, registered, known, managers, listening>> /\ pc = "new"
    BY <1>8 DEF WorkerBegins
  <2>2. known = {} /\ listening = {} /\ registered = {}
    BY <2>1 DEF KnownInv, ListeningInv, Reportable, Listenable
  <2> QED
    BY <2>1, <2>2
<1>9. CASE DevicesInitialized
  BY <1>9 DEF DevicesInitialized, WorkerFrame, SystemFrame, Hears, Hearing
<1>10. CASE Listen
  BY <1>10, CreationOrder DEF Listen, SystemFrame, Outcome
<1>11. CASE EnumerateDeviceSessions
  BY <1>11, CreationOrder DEF EnumerateDeviceSessions, SystemFrame, Outcome, LiveOn
<1>12. CASE ManagerCreated
  BY <1>12 DEF ManagerCreated, WorkerFrame, SystemFrame, Hears, Hearing
<1>13. ASSUME NEW d \in Devices, InitializeDevice(d)
      PROVE  CleanupLeavesNothing'
  BY <1>13, CreationOrder DEF InitializeDevice, CreateDeviceManager, SystemFrame, Outcome,
    NoDeviceManager
<1>14. ASSUME NEW s \in Natives, AddSessionFails(s)
      PROVE  CleanupLeavesNothing'
  BY <1>14 DEF AddSessionFails, Drop, Done, SystemFrame, Outcome, Hears, Hearing
<1>15. ASSUME NEW s \in Natives, AddSessionQueries(s)
      PROVE  CleanupLeavesNothing'
  BY <1>15 DEF AddSessionQueries, DropDuplicate, Drop, Done, WorkerFrame, SystemFrame, Hears,
    Hearing
<1>16. CASE AddSessionTracks
  BY <1>16 DEF AddSessionTracks, SystemFrame, Outcome, Hears, Hearing
<1>17. CASE InitializeMasterSessions
  BY <1>17 DEF InitializeMasterSessions, SystemFrame, Outcome, Hears, Hearing
<1>18. CASE HandleDeviceAdded
  BY <1>18, TakenIdle, CreationOrder
  DEF HandleDeviceAdded, CreateDeviceManager, Take, SystemFrame, Outcome, NoDeviceManager
<1>19. CASE HandleDeviceRemoved
  BY <1>19, TakenIdle
  DEF HandleDeviceRemoved, RemoveDeviceManager, RemoveSessions, SessionsOf, Take,
      SystemFrame
<1>20. CASE HandleSessionCreated
  BY <1>20, TakenIdle DEF HandleSessionCreated, Take, SystemFrame
<1>21. CASE HandleSessionEnded
  BY <1>21, TakenIdle DEF HandleSessionEnded, RemoveSessions, Take, SystemFrame
<1>22. CASE HandleDefaultChanged
  BY <1>22, TakenIdle DEF HandleDefaultChanged, RefreshMaster, Take, SystemFrame, Outcome
<1>23. CASE WorkerStops
  <2> SUFFICES ASSUME ~missed', ~failed'
               PROVE  /\ tracked' = {} /\ registered' = {} /\ known' = {}
                      /\ managers' = {} /\ listening' = {}
    OBVIOUS
  <2> DEFINE gone == UNION {SessionsOf(d) : d \in managers}
  <2>1. /\ pc = "idle" /\ UNCHANGED <<missed, failed>>
        /\ tracked' = tracked \ gone /\ registered' = registered \ gone
        /\ known' = known \ (gone \cup managers \cup Flows) /\ managers' = {} /\ listening' = {}
    BY <1>23 DEF WorkerStops, Cleanup, RemoveSessions, WorkerFrame, SystemFrame
  <2>2. \A t \in tracked : DeviceOf[t] \in managers
    BY <2>1 DEF OwnerInv, Hears, Hearing
  <2>3. tracked \subseteq gone
    BY <2>2 DEF SessionsOf
  <2> HIDE DEF gone
  <2>4. known \subseteq tracked \cup managers \cup Flows
    BY <2>1 DEF KnownInv, Reportable
  <2> QED
    BY <2>1, <2>3, <2>4
<1>24. CASE Release
  BY <1>24 DEF Release, Hears, Hearing
<1>25. CASE UNCHANGED vars
  BY <1>25 DEF Hears, Hearing
<1> QED
  BY <1>1, <1>2, <1>3, <1>4, <1>5, <1>6, <1>7, <1>8, <1>9, <1>10, <1>11, <1>12, <1>13,
     <1>14, <1>15, <1>16, <1>17, <1>18, <1>19, <1>20, <1>21, <1>22, <1>23, <1>24, <1>25
  DEF Next, Callbacks, Worker

-----------------------------------------------------------------------------
(* The theorems.                                                            *)

\* A session is in the worker's hands, or tracked, or not.
LEMMA HandCounted ==
  \A s \in Natives : /\ InHand(s) = (IF s \in controls THEN 1 ELSE 0) + (IF s = adding THEN 1 ELSE 0)
                     /\ Kept(s) = IF s \in tracked THEN 1 ELSE 0
BY Counted DEF InHand, Kept

\* The finder starts with nothing, whatever devices there are.
LEMMA InitEstablishes == Init => WindowsIInv
<1> SUFFICES ASSUME Init PROVE WindowsIInv
  OBVIOUS
<1> USE WindowsAssumption DEF Init
<1>1. WinTypeOK
  <2>1. QueueTypeOK
    <3>1. workChan = <<>> /\ missed \in BOOLEAN
      OBVIOUS
    <3>2. <<>> \in Seq(Jobs) /\ Len(<<>>) = 0 /\ 0 <= MaxWork
      BY EmptySeq
    <3> HIDE DEF Init
    <3> QED
      BY <3>1, <3>2 DEF QueueTypeOK
  <2>2. SystemTypeOK /\ WorkerTypeOK /\ MapTypeOK /\ RefsTypeOK /\ HistoryTypeOK
    BY DEF SystemTypeOK, WorkerTypeOK, MapTypeOK, RefsTypeOK, HistoryTypeOK
  <2> QED
    BY <2>1, <2>2, TypeGroups
<1>2. WorkerInv /\ ListeningInv /\ KnownInv
  BY DEF WorkerInv, ListeningInv, Listenable, KnownInv, Reportable, Creating
<1>3. RefsAccounted
  <2>1. \A s \in Natives : Queued(s) = 0
    <3>1. \A s \in Natives : {i \in DOMAIN workChan : workChan[i] = Job("add", s)} = {}
      OBVIOUS
    <3> QED
      BY <3>1, FS_EmptySet DEF Queued
  <2>2. \A s \in Natives : InHand(s) = 0 /\ Kept(s) = 0
    <3>1. \A s \in Natives :
            /\ InHand(s) = (IF s \in controls THEN 1 ELSE 0) + (IF s = adding THEN 1 ELSE 0)
            /\ Kept(s) = IF s \in tracked THEN 1 ELSE 0
      BY HandCounted
    <3> QED
      BY <3>1
  <2> QED
    BY <2>1, <2>2 DEF RefsAccounted
<1>4. LiveInv
  BY DEF LiveInv, Range
<1>5. ~Hears
  BY DEF Hears, Hearing
<1> QED
  BY <1>1, <1>2, <1>3, <1>4, <1>5
  DEF WindowsIInv, DevicesInv, CreatedInv, OwnerInv, EndedInv, FoundInv, MasterInv,
      CleanupLeavesNothing

\* The parts together are inductive.
LEMMA StepKeeps ==
  ASSUME WindowsIInv, [Next]_vars
  PROVE  WindowsIInv'
<1>1. RefsTypeOK' /\ RefsAccounted'
  BY RefsKept
<1>2. WinTypeOK'
  BY <1>1, TypeKept
<1> QED
  BY <1>1, <1>2, WorkerKept, ListeningKept, KnownKept, LiveKept, DevicesKept, CreatedKept,
     OwnerKept,
     EndedKept, FoundKept, MasterKept, CleanupKept
  DEF WindowsIInv

\* The invariant holds in every reachable state, for any devices, flows and
\* sessions and any size of the queue.
THEOREM Invariance == Spec => []WindowsIInv
<1>1. WindowsIInv /\ [Next]_vars => WindowsIInv'
  BY StepKeeps
<1> QED
  BY InitEstablishes, <1>1, PTL DEF Spec

\* Every reference that was taken to the control of an audio session is held
\* by a job, by the worker or by the tracked session, and is given back once
\* (session_finder_windows.go: AddRef and Release on every way); after a dropped
\* job some never are.  The handler has the tracked sessions, and their controls
\* are alive, whatever call failed or job was dropped.
THEOREM ReferencesAreAccounted == Spec => []WindowsInv
<1>1. WindowsIInv => KnownIsAlive
  <2> SUFFICES ASSUME WindowsIInv PROVE KnownIsAlive
    OBVIOUS
  <2> USE DEF WindowsIInv
  <2>1. known \cap Natives = tracked
    <3>1. /\ tracked \subseteq Natives /\ managers \subseteq Devices
          /\ device \in Devices \cup {NoDevice}
      BY DEF WinTypeOK
    <3> QED
      BY <3>1, WindowsAssumption DEF KnownInv, Reportable, Creating
  <2>2. ASSUME NEW s \in tracked
        PROVE  refs[s] > 0
    <3>1. s \in Natives /\ refs[s] \in Nat
      BY TypeGroups DEF MapTypeOK, RefsTypeOK
    <3>2. Queued(s) \in Nat
      BY TypeGroups, CountType, JobsOf DEF QueueTypeOK, Queued, Count
    <3>3. InHand(s) \in Nat /\ Kept(s) = 1
      <4>1. /\ Kept(s) = IF s \in tracked THEN 1 ELSE 0
            /\ InHand(s) = (IF s \in controls THEN 1 ELSE 0) + (IF s = adding THEN 1 ELSE 0)
        BY Counted DEF InHand, Kept
      <4> QED
        BY <4>1
    <3> QED
      BY <3>1, <3>2, <3>3 DEF RefsAccounted
  <2> QED
    BY <2>1, <2>2 DEF KnownIsAlive
<1>2. WindowsIInv => WindowsInv
  BY <1>1 DEF WindowsIInv, WindowsInv
<1> QED
  BY Invariance, <1>2, PTL

\* Between two bursts of notifications the finder has managers for the devices
\* in use, tracks what plays and has told the handler just that, in whatever
\* order devices and sessions came and went: unless a job was dropped, a call
\* failed, or a removal took another session of the same id.
THEOREM FinderFollowsSystem == Spec => []FollowsSystem
<1>1. WindowsIInv => FollowsSystem
  <2> SUFFICES ASSUME WindowsIInv, Quiet, ~missed, ~failed, ~mistaken
               PROVE  /\ managers = active
                      /\ \A s \in tracked : native[s] = "live" \/ s \in silent
                      /\ \A s \in Natives : native[s] = "live" => s \in tracked \cup shadowed
                      /\ known = tracked \cup managers \cup {f \in Flows : master[f] # NoDevice}
    BY DEF FollowsSystem
  <2> USE DEF WindowsIInv
  <2>1. Hears /\ pc = "idle" /\ Range(workChan) = {}
    BY DEF Quiet, Hears, Hearing, Range
  <2>2. devices = {} /\ device = NoDevice /\ controls = {} /\ adding = Nothing
    BY <2>1 DEF WorkerInv
  <2>3. managers = active
    <3>1. managers \subseteq Devices /\ active \subseteq Devices
      BY DEF WinTypeOK
    <3>2. \A d \in Devices : d \in active <=> d \in managers
      BY <2>1, <2>2, DeviceJobs DEF Managed, Creating
    <3> QED
      BY <3>1, <3>2
  <2>4. \A s \in tracked : native[s] = "live" \/ s \in silent
    BY <2>1 DEF EndedInv
  <2>5. \A s \in Natives : native[s] = "live" => s \in tracked \cup shadowed
    BY <2>1, <2>2, WindowsAssumption DEF FoundInv
  <2>6. known = tracked \cup managers \cup {f \in Flows : master[f] # NoDevice}
    BY <2>2 DEF KnownInv, Reportable, Creating
  <2> QED
    BY <2>3, <2>4, <2>5, <2>6
<1> QED
  BY Invariance, <1>1, PTL

\* A change of the default device reaches its master session unless it came
\* within the time of an earlier change of the same flow, a job was dropped or a
\* call failed.
THEOREM MasterFollows == Spec => []MasterFollowsDefault
<1>1. WindowsIInv => MasterFollowsDefault
  <2> SUFFICES ASSUME WindowsIInv, Quiet, ~missed, ~failed, NEW f \in Flows \ swallowed
               PROVE  master[f] = default[f]
    BY DEF MasterFollowsDefault
  <2>1. Hears /\ pc = "idle" /\ Range(workChan) = {}
    BY DEF Quiet, Hears, Hearing, Range
  <2> QED
    BY <2>1 DEF WindowsIInv, MasterInv, WorkerInv
<1> QED
  BY Invariance, <1>1, PTL

\* When the worker has ended, no session is tracked, no device is listened to
\* and the handler knows of nothing, whatever jobs are left in the queue: unless
\* one was dropped or a call failed.
THEOREM CleanupIsComplete == Spec => []CleanupLeavesNothing
<1>1. WindowsIInv => CleanupLeavesNothing
  BY DEF WindowsIInv
<1> QED
  BY Invariance, <1>1, PTL

=============================================================================
