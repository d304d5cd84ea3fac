--------------------------- MODULE PulseFinderProofs ---------------------------
(***************************************************************************)
(* Proofs about PulseFinder: what the finder owes its handler, for any     *)
(* streams, default devices and connections, and any capacity of the       *)
(* queue.                                                                  *)
(***************************************************************************)
EXTENDS PulseFinder, SequenceTheorems, FiniteSetTheorems, NaturalsInduction,
        WellFoundedInduction, TLAPS

-----------------------------------------------------------------------------
(* Sequences, numbers and finite sets.                                      *)

\* Appending adds one element to the range.
LEMMA RangeOfAppend ==
  ASSUME NEW S, NEW seq \in Seq(S), NEW e \in S
  PROVE  /\ Append(seq, e) \in Seq(S) /\ Append(seq, e) # <<>>
         /\ Len(Append(seq, e)) = Len(seq) + 1
         /\ Range(Append(seq, e)) = Range(seq) \cup {e}
<1>1. /\ Append(seq, e) \in Seq(S) /\ Len(Append(seq, e)) = Len(seq) + 1 /\ Len(seq) \in Nat
      /\ DOMAIN seq = 1..Len(seq) /\ DOMAIN Append(seq, e) = 1..(Len(seq) + 1)
      /\ \A i \in 1..Len(seq) : Append(seq, e)[i] = seq[i]
      /\ Append(seq, e)[Len(seq) + 1] = e
  BY AppendProperties, LenProperties
<1>2. Range(Append(seq, e)) \subseteq Range(seq) \cup {e}
  BY <1>1 DEF Range
<1>3. Range(seq) \cup {e} \subseteq Range(Append(seq, e))
  BY <1>1 DEF Range
<1> QED
  BY <1>1, <1>2, <1>3

\* Taking the head leaves the rest of the range.
LEMMA RangeOfTail ==
  ASSUME NEW S, NEW seq \in Seq(S), seq # <<>>
  PROVE  /\ Head(seq) \in S /\ Tail(seq) \in Seq(S) /\ Len(Tail(seq)) = Len(seq) - 1
         /\ Range(seq) = {Head(seq)} \cup Range(Tail(seq))
<1>1. /\ Tail(seq) \in Seq(S) /\ Len(Tail(seq)) = Len(seq) - 1
      /\ Len(seq) \in Nat /\ Len(seq) >= 1
      /\ DOMAIN seq = 1..Len(seq) /\ DOMAIN Tail(seq) = 1..(Len(seq) - 1)
      /\ \A i \in 1..(Len(seq) - 1) : Tail(seq)[i] = seq[i + 1]
      /\ Head(seq) = seq[1] /\ Head(seq) \in S
  BY HeadTailProperties, LenProperties, EmptySeq
<1>2. \A i \in DOMAIN seq : seq[i] \in {Head(seq)} \cup Range(Tail(seq))
  <2> TAKE i \in DOMAIN seq
  <2>1. CASE i = 1
    BY <1>1, <2>1
  <2>2. CASE i # 1
    <3>1. i - 1 \in 1..(Len(seq) - 1) /\ Tail(seq)[i - 1] = seq[i]
      BY <1>1, <2>2
    <3> QED
      BY <1>1, <3>1 DEF Range
  <2> QED
    BY <2>1, <2>2
<1>3. {Head(seq)} \cup Range(Tail(seq)) \subseteq Range(seq)
  BY <1>1 DEF Range
<1> QED
  BY <1>1, <1>2, <1>3 DEF Range

\* Requests put behind others are in the queue with them.
LEMMA RangeOfConcat ==
  ASSUME NEW S, NEW s \in Seq(S), NEW t \in Seq(S), s # <<>>
  PROVE  /\ s \o t \in Seq(S) /\ s \o t # <<>>
         /\ Range(s) \cup Range(t) = Range(s \o t)
<1>1. /\ s \o t \in Seq(S) /\ Len(s \o t) = Len(s) + Len(t)
      /\ \A i \in 1..(Len(s) + Len(t)) :
           (s \o t)[i] = IF i <= Len(s) THEN s[i] ELSE t[i - Len(s)]
  BY ConcatProperties
<1>2. /\ Len(s) \in Nat /\ Len(t) \in Nat /\ Len(s) > 0
      /\ DOMAIN s = 1..Len(s) /\ DOMAIN t = 1..Len(t) /\ DOMAIN (s \o t) = 1..(Len(s) + Len(t))
  BY <1>1, LenProperties, EmptySeq
<1>3. Range(s) \subseteq Range(s \o t)
  BY <1>1, <1>2 DEF Range
<1>4. \A i \in 1..Len(t) : /\ i + Len(s) \in 1..(Len(s) + Len(t))
                           /\ (s \o t)[i + Len(s)] = t[i]
  BY <1>1, <1>2
<1>5. Range(t) \subseteq Range(s \o t)
  BY <1>2, <1>4 DEF Range
<1>6. \A i \in 1..(Len(s) + Len(t)) : (s \o t)[i] \in Range(s) \cup Range(t)
  BY <1>1, <1>2 DEF Range
<1>7. Range(s \o t) \subseteq Range(s) \cup Range(t)
  BY <1>2, <1>6 DEF Range
<1> QED
  BY <1>1, <1>2, <1>3, <1>5, <1>7, EmptySeq

\* A set of answers has a smallest.
LEMMA HasLeast ==
  ASSUME NEW T, T \subseteq Nat, T # {}
  PROVE  Min(T) \in T
<1> DEFINE R == {ss \in Nat \X Nat : ss[1] < ss[2]}
<1>1. IsWellFoundedOn(R, Nat)
  BY NatLessThanWellFounded DEF OpToRel
<1>2. \A x, y \in Nat : y < x => <<y, x>> \in R
  OBVIOUS
<1> HIDE DEF R
<1>3. \E x \in T : \A y \in T : <<y, x>> \notin R
  BY <1>1, WFMin
<1>4. \A x, y \in T : <<y, x>> \notin R => x <= y
  BY <1>2
<1> QED
  BY <1>3, <1>4 DEF Min

\* A new session is one that nobody has: there are more numbers to tell
\* copies apart than there are sessions.
LEMMA NewSessionIsNew ==
  ASSUME NEW id \in Streams \cup Range(Masters), NEW device \in Streams \cup Devices,
         NEW conn \in Conns,
         IsFiniteSet(Owned \cup mixed)
  PROVE  /\ NewSession(id, device, conn) \in Sessions
         /\ NewSession(id, device, conn) \notin Owned \cup mixed
         /\ NewSession(id, device, conn).id = id
         /\ NewSession(id, device, conn).device = device
         /\ NewSession(id, device, conn).conn = conn
<1> DEFINE T == Owned \cup mixed
           N == Cardinality(T)
           made == [n \in 0..N |-> [id |-> id, device |-> device, conn |-> conn, copy |-> n]]
<1>1. N \in Nat
  BY FS_CardinalityType
<1>2. \E n \in 0..N : made[n] \notin T
  <2>1. SUFFICES ASSUME made \in [0..N -> T] PROVE FALSE
    BY Zenon
  <2>2. IsFiniteSet(0..N) /\ Cardinality(0..N) = N + 1
    BY <1>1, FS_Interval
  <2>3. N < Cardinality(0..N)
    BY <1>1, <2>2
  <2>4. \A x, y \in 0..N : made[x] = made[y] => x = y
    OBVIOUS
  <2> HIDE DEF made, T
  <2>5. IsFiniteSet(T)
    BY DEF T
  <2>6. \E x, y \in 0..N : x # y /\ made[x] = made[y]
    BY <2>1, <2>2, <2>3, <2>5, FS_PigeonHole
  <2> QED
    BY <2>4, <2>6
<1>3. PICK n \in 0..N : /\ made[n] \notin T
                        /\ NewSession(id, device, conn) = made[n]
  BY <1>2 DEF NewSession
<1>4. n \in Nat
  BY <1>1
<1> QED
  BY <1>3, <1>4 DEF Sessions

-----------------------------------------------------------------------------
(* Jobs and requests.                                                       *)

\* The jobs there are.
LEMMA JobsOf ==
  /\ \A i \in Streams : Job("new", i) \in Jobs /\ Job("remove", i) \in Jobs
  /\ Job("master", None) \in Jobs /\ Job("sync", None) \in Jobs
  /\ None \notin Jobs /\ None \notin Sessions
BY NoneAssumption DEF Job, Jobs

\* What the worker asks the server for each kind of job.
LEMMA RequestsOfJob ==
  ASSUME NEW job \in Jobs
  PROVE  /\ RequestsOf(job) \in Seq(Requests) /\ RequestsOf(job) # <<>>
         /\ job.op \in {"new", "remove"} =>
              /\ RequestsOf(job) = <<job>> /\ Head(RequestsOf(job)) = job
              /\ Range(RequestsOf(job)) = {job}
         /\ job.op \in {"master", "sync"} =>
              /\ \A m \in Range(Masters) : Job("master", m) \in Range(RequestsOf(job))
              /\ \A a \in Range(RequestsOf(job)) : a.op # "remove"
         /\ job.op = "sync" => \A k \in Range(Kinds) : Job("list", k) \in Range(RequestsOf(job))
<1>1. /\ RefreshMaster \in Seq(Requests) /\ RefreshMaster # <<>>
      /\ \A m \in Range(Masters) : Job("master", m) \in Range(RefreshMaster)
      /\ \A a \in Range(RefreshMaster) : a.op # "remove"
  <2>1. /\ Len(Masters) \in Nat /\ DOMAIN Masters = 1..Len(Masters) /\ Len(Masters) > 0
        /\ \A i \in DOMAIN Masters : Masters[i] \in Range(Masters)
    BY PulseAssumption, LenProperties, EmptySeq DEF Range
  <2>2. RefreshMaster \in [1..Len(Masters) -> Requests]
    BY <2>1 DEF RefreshMaster, Requests, Job
  <2>3. RefreshMaster \in Seq(Requests) /\ Len(RefreshMaster) = Len(Masters)
    BY <2>1, <2>2, SeqDef, LenProperties
  <2>4. DOMAIN RefreshMaster = 1..Len(Masters)
        /\ \A i \in 1..Len(Masters) : RefreshMaster[i] = Job("master", Masters[i])
    BY <2>1 DEF RefreshMaster
  <2>5. Range(RefreshMaster) = {Job("master", m) : m \in Range(Masters)}
    BY <2>1, <2>4 DEF Range
  <2> QED
    BY <2>1, <2>3, <2>5, EmptySeq DEF Job
<1>2. /\ EnumerateExisting \in Seq(Requests)
      /\ \A k \in Range(Kinds) : Job("list", k) \in Range(EnumerateExisting)
      /\ \A a \in Range(EnumerateExisting) : a.op # "remove"
  <2>1. /\ Len(Kinds) \in Nat /\ DOMAIN Kinds = 1..Len(Kinds)
        /\ \A i \in DOMAIN Kinds : Kinds[i] \in Range(Kinds)
    BY PulseAssumption, LenProperties DEF Range
  <2>2. EnumerateExisting \in [1..Len(Kinds) -> Requests]
    BY <2>1 DEF EnumerateExisting, Requests, Job
  <2>3. EnumerateExisting \in Seq(Requests)
    BY <2>1, <2>2, SeqDef
  <2> QED
    BY <2>1, <2>3 DEF EnumerateExisting, Range, Job
<1>3. CASE job.op = "sync"
  <2>1. RequestsOf(job) = RefreshMaster \o EnumerateExisting
    BY <1>3 DEF RequestsOf
  <2>2. /\ RefreshMaster \o EnumerateExisting \in Seq(Requests)
        /\ RefreshMaster \o EnumerateExisting # <<>>
        /\ Range(RefreshMaster) \cup Range(EnumerateExisting) =
             Range(RefreshMaster \o EnumerateExisting)
    BY <1>1, <1>2, RangeOfConcat
  <2> QED
    BY <1>1, <1>2, <1>3, <2>1, <2>2
<1>4. CASE job.op = "master"
  BY <1>1, <1>4 DEF RequestsOf
<1>5. CASE job.op \in {"new", "remove"}
  <2>1. job \in Requests
    BY <1>5 DEF Jobs, Job, Requests
  <2>2. RequestsOf(job) = <<job>>
    BY <1>5 DEF RequestsOf
  <2> QED
    BY <1>5, <2>1, <2>2 DEF Range
<1> QED
  BY <1>3, <1>4, <1>5 DEF Jobs, Job

-----------------------------------------------------------------------------
(* The inductive invariant.                                                 *)

\* What the place of the worker in its job says of the job.
WorkerInv ==
  /\ pc \in {"idle", "exited"} => asks = <<>>
  /\ pc \in {"look", "asked", "answered", "add", "insert", "delete"} => asks # <<>>
  /\ pc = "delete" => Head(asks).op = "remove"
  /\ pc # "delete" => \A a \in Range(asks) : a.op # "remove"
  /\ pc \in {"asked", "answered", "insert"} => using \in Conns
  /\ (adding # None \/ removing # None) <=> pc = "report"
  /\ adding # None => asks # <<>> /\ infos # {}
  /\ pc = "report" /\ adding = None => asks = <<>>
  /\ pc \in {"add", "insert"} => infos # {}
  /\ pc = "add" => Head(asks).op # "master"
  /\ infos # {} => /\ pc \in {"answered", "add", "insert", "report"} /\ asks # <<>>
                   /\ IF Head(asks).op = "master" THEN \E d \in Devices : infos = {d}
                                                  ELSE infos \subseteq Streams
  /\ pc = "insert" /\ Head(asks).op # "master" => Min(infos) \notin Hidden

\* The manager has one connection at a time, and the worker is answered on
\* no other.
ManagerInv ==
  /\ current # NoConn <=> manager \in {"up", "clearing"}
  /\ manager = "up" => link[current] \notin {"fresh", "closed"}
  /\ manager = "clearing" => link[current] = "noticed"
  /\ manager = "stopped" <=> finder \notin {"new", "running"}
  /\ \A c \in Conns : link[c] \notin {"fresh", "closed"} =>
       /\ manager \in {"dialed", "up", "clearing"}
       /\ current # NoConn => c = current
  /\ \A c, d \in Conns : link[c] \notin {"fresh", "closed"} /\ link[d] \notin {"fresh", "closed"}
                           => c = d
  /\ \A c \in Conns : link[c] = "fresh" => wire[c] = <<>> /\ reading[c] = None /\ using # c
  /\ pc \in {"asked", "answered"} /\ link[using] = "open" => using = current

\* Release waits for the worker.
ReleaseInv ==
  /\ clearing # {} => manager = "clearing" \/ finder = "clearing"
  /\ pc = "exited" => finder \notin {"new", "running"}
  /\ finder \in {"clearing", "released"} => pc = "exited" /\ held = {}

\* The sessions are finitely many, and the one that is being removed is out
\* of the maps.
SessionsInv ==
  /\ IsFiniteSet(held) /\ IsFiniteSet(clearing) /\ IsFiniteSet(mixed)
  /\ removing \notin held

\* Events that a connection has yet to queue.
Told(c) == Range(wire[c]) \cup {reading[c]}

\* An open connection tells of the end of streams that have ended.
WireInv ==
  \A c \in Conns : link[c] = "open" =>
    \A i \in Streams : Job("remove", i) \in Told(c) => i \in used \ streams

\* Unless a job was overtaken, the handler knows what the maps hold, and
\* between two connections they hold nothing.
MixedInv ==
  ~overtaken =>
    /\ mixed = (held \ {adding}) \cup ({removing} \ {None}) \cup clearing
    /\ adding # None => adding \in held
    /\ manager \in {"down", "dialed", "clearing"} =>
         held = {} /\ pc \in {"idle", "delete", "look", "asked"}

\* Nothing was lost on the way from the server to the maps.
Following == manager = "up" /\ link[current] = "open" /\ ~missed /\ ~overtaken

Sync == Job("sync", None)
SyncIsQueued == Sync \in Range(workChan)

\* Jobs that have yet to begin.
Coming(job) == job \in Told(current) \cup Range(workChan)

\* Requests of the present job that have yet to be answered.
Unanswered ==
  IF pc \in {"look", "asked"} THEN Range(asks)
  ELSE IF asks = <<>> \/ pc = "delete" THEN {} ELSE Range(Tail(asks))

Ended(i) == i \in used \ streams

\* A removal that is not for this connection's stream is made good by the
\* first enumeration, which is behind it in the queue.
OldRemovals ==
  Following =>
    /\ \A p \in DOMAIN workChan :
         workChan[p].op = "remove" /\ ~Ended(workChan[p].id) =>
           \E q \in DOMAIN workChan : q > p /\ workChan[q] = Sync
    /\ pc = "delete" /\ ~Ended(Head(asks).id) => SyncIsQueued

OldRequests ==
  Following =>
    /\ pc = "asked" => using = current \/ SyncIsQueued
    /\ pc \in {"answered", "insert"} => using = current

\* What the maps hold is of this connection, and plays or is about to go.
HeldInv ==
  Following =>
    \A s \in held :
      /\ s.conn = current
      /\ s.id \in Streams => s.device = s.id /\ s.id \notin Hidden
      /\ s.id \in Streams \ streams =>
           Coming(Job("remove", s.id)) \/ (pc = "delete" /\ Head(asks).id = s.id)

\* What an answer names that has ended since is about to go, and what is
\* reported is in the maps.
InfosInv ==
  Following /\ infos # {} =>
    IF Head(asks).op = "master"
    THEN pc # "report" => infos = {default[Head(asks).id]} \/ Coming(Job("master", None))
    ELSE /\ \A i \in infos \ streams : Coming(Job("remove", i))
         /\ pc = "report" => Exists(Min(infos))

\* What plays is in the maps, or is about to be.
StreamsInv ==
  Following =>
    \A i \in streams \ Hidden :
      \/ Exists(i)
      \/ SyncIsQueued \/ Coming(Job("new", i))
      \/ {Job("list", KindOf[i]), Job("new", i)} \cap Unanswered # {}
      \/ i \in infos /\ Head(asks).op # "master"

\* So are the default devices, as long as there are any.
MastersInv ==
  Following =>
    \A m \in Range(Masters) :
      \/ m \in Gone \/ \E s \in held : s.id = m /\ s.device = default[m]
      \/ SyncIsQueued \/ Coming(Job("master", None))
      \/ Job("master", m) \in Unanswered
      \/ infos # {} /\ Head(asks) = Job("master", m) /\ pc # "report"

PulseIInv ==
  /\ PulseTypeOK /\ WorkerInv /\ ManagerInv /\ ReleaseInv /\ OneRemover /\ SessionsInv
  /\ WireInv /\ MixedInv
  /\ OldRemovals /\ OldRequests /\ HeldInv /\ InfosInv /\ StreamsInv /\ MastersInv

-----------------------------------------------------------------------------
(* Facts about every state of the invariant.                                *)

\* A request and the rest, an event and the rest, a job and the rest.
LEMMA Queues ==
  ASSUME PulseTypeOK
  PROVE  /\ asks # <<>> => /\ Head(asks) \in Requests /\ Tail(asks) \in Seq(Requests)
                           /\ Range(asks) = {Head(asks)} \cup Range(Tail(asks))
         /\ workChan # <<>> => /\ Head(workChan) \in Jobs /\ Tail(workChan) \in Seq(Jobs)
                               /\ Len(Tail(workChan)) = Len(workChan) - 1
                               /\ Range(workChan) = {Head(workChan)} \cup Range(Tail(workChan))
         /\ \A job \in Jobs : /\ Append(workChan, job) \in Seq(Jobs)
                              /\ Len(Append(workChan, job)) = Len(workChan) + 1
                              /\ Range(Append(workChan, job)) = Range(workChan) \cup {job}
         /\ Len(workChan) \in Nat
BY RangeOfTail, RangeOfAppend, LenProperties DEF PulseTypeOK

\* A job that fits goes to the end of the queue, one that does not is missed.
LEMMA Dispatched ==
  ASSUME PulseTypeOK, NEW job \in Jobs, DispatchWork(job)
  PROVE  /\ workChan' \in Seq(Jobs) /\ Len(workChan') <= MaxWork
         /\ ~missed' => /\ ~missed /\ workChan' = Append(workChan, job)
                        /\ Range(workChan') = Range(workChan) \cup {job}
<1>1. CASE Len(workChan) < MaxWork
  <2>1. workChan' = Append(workChan, job) /\ missed' = missed
    BY <1>1 DEF DispatchWork
  <2>2. Len(Append(workChan, job)) <= MaxWork
    BY <1>1, Queues, PulseAssumption
  <2> QED
    BY <2>1, <2>2, Queues
<1>2. CASE ~(Len(workChan) < MaxWork)
  BY <1>2 DEF DispatchWork, PulseTypeOK
<1> QED
  BY <1>1, <1>2

\* The first message of a connection, the others, and one more at the end.
LEMMA Wires ==
  ASSUME PulseTypeOK
  PROVE  \A c \in Conns :
         /\ wire[c] # <<>> =>
              /\ Head(wire[c]) \in Jobs \cup {Job("reply", None)}
              /\ Tail(wire[c]) \in Seq(Jobs \cup {Job("reply", None)})
              /\ Range(wire[c]) = {Head(wire[c])} \cup Range(Tail(wire[c]))
         /\ \A e \in Jobs \cup {Job("reply", None)} :
              /\ Append(wire[c], e) \in Seq(Jobs \cup {Job("reply", None)})
              /\ Append(wire[c], e) # <<>>
              /\ Range(Append(wire[c], e)) = Range(wire[c]) \cup {e}
<1> DEFINE Messages == Jobs \cup {Job("reply", None)}
<1>1. \A c \in Conns : wire[c] \in Seq(Messages)
  BY DEF PulseTypeOK
<1> HIDE DEF Messages
<1>2. \A s \in Seq(Messages) :
        /\ s # <<>> => /\ Head(s) \in Messages /\ Tail(s) \in Seq(Messages)
                       /\ Range(s) = {Head(s)} \cup Range(Tail(s))
        /\ \A e \in Messages : /\ Append(s, e) \in Seq(Messages) /\ Append(s, e) # <<>>
                               /\ Range(Append(s, e)) = Range(s) \cup {e}
  BY RangeOfTail, RangeOfAppend
<1> QED
  BY <1>1, <1>2 DEF Messages

\* What an answer names is a set of numbers, and has a least one.
LEMMA Infos ==
  ASSUME PulseTypeOK, infos # {}
  PROVE  Min(infos) \in infos /\ Min(infos) \in Streams \cup Devices
BY HasLeast, PulseAssumption DEF PulseTypeOK

\* After a request comes the next one of the job, or the job is over.
LEMMA RequestEnded ==
  ASSUME PulseTypeOK, asks # <<>>, EndRequest
  PROVE  /\ asks' = Tail(asks) /\ asks' \in Seq(Requests) /\ Range(asks') \subseteq Range(asks)
         /\ pc' \in {"idle", "look"} /\ (pc' = "idle" <=> asks' = <<>>)
         /\ using' = NoConn /\ infos' = {}
BY Queues DEF EndRequest, AfterRequest

\* The worker goes on to the next answer of its request, or to the next
\* request.
LEMMA InfoDone ==
  ASSUME PulseTypeOK, asks # <<>>, infos # {}, NextInfo
  PROVE  \/ EndRequest /\ infos = {Min(infos)}
         \/ /\ infos' = infos \ {Min(infos)} /\ infos' # {} /\ pc' = "add"
            /\ asks' = asks /\ using' = using
<1>1. Min(infos) \in infos
  BY Infos
<1>2. infos # {Min(infos)} => infos \ {Min(infos)} # {}
  BY <1>1
<1> QED
  BY <1>2 DEF NextInfo

\* What the server answers to each kind of request.
LEMMA Answers ==
  ASSUME PulseTypeOK, NEW ask \in Requests
  PROVE  /\ ask.op = "master" => /\ ask.id \in Range(Masters) /\ ask = Job("master", ask.id)
                                 /\ \/ default[ask.id] = NoDevice /\ Answer(ask) = {}
                                    \/ /\ default[ask.id] \in Devices
                                       /\ Answer(ask) = {default[ask.id]}
         /\ ask.op # "master" => Answer(ask) \subseteq streams
         /\ ask.op = "list" => Answer(ask) = {i \in streams : KindOf[i] = ask.id}
         /\ ask.op = "new" => Answer(ask) = {ask.id} \cap streams
         /\ ask.op = "remove" => ask.id \in Streams /\ ask = Job("remove", ask.id)
         /\ ask.op \in {"master", "list", "new", "remove"}
BY DEF Requests, Answer, PulseTypeOK, Job

-----------------------------------------------------------------------------
(* Types, in groups of variables.                                           *)

ServerTypeOK ==
  /\ streams \subseteq used /\ used \subseteq Streams
  /\ default \in [Range(Masters) -> Devices \cup {NoDevice}]

LinkTypeOK ==
  /\ reading \in [Conns -> Jobs \cup {None}]
  /\ link \in [Conns -> {"fresh", "open", "broken", "noticed", "closed"}]

WireTypeOK == wire \in [Conns -> Seq(Jobs \cup {Job("reply", None)})]

ManagerTypeOK ==
  /\ manager \in {"down", "dialed", "up", "clearing", "stopped"}
  /\ current \in Conns \cup {NoConn}
  /\ finder \in {"new", "running", "draining", "clearing", "released"}
  /\ missed \in BOOLEAN /\ overtaken \in BOOLEAN

WorkChanTypeOK == workChan \in Seq(Jobs) /\ Len(workChan) <= MaxWork

WorkerTypeOK ==
  /\ pc \in {"idle", "delete", "look", "asked", "answered", "add", "insert", "report", "exited"}
  /\ asks \in Seq(Requests)
  /\ using \in Conns \cup {NoConn}
  /\ infos \subseteq Streams \cup Devices

SessionTypeOK ==
  /\ adding \in Sessions \cup {None} /\ removing \in Sessions \cup {None}
  /\ held \subseteq Sessions /\ clearing \subseteq Sessions /\ mixed \subseteq Sessions

\* The type invariant, in the groups above.
LEMMA TypeGroups ==
  PulseTypeOK <=> /\ ServerTypeOK /\ LinkTypeOK /\ WireTypeOK /\ ManagerTypeOK
                  /\ WorkChanTypeOK /\ WorkerTypeOK /\ SessionTypeOK
BY DEF PulseTypeOK, ServerTypeOK, LinkTypeOK, WireTypeOK, ManagerTypeOK, WorkChanTypeOK,
       WorkerTypeOK, SessionTypeOK

\* The variables of the server keep their types.
LEMMA ServerTyped ==
  ASSUME PulseTypeOK, [Next]_vars
  PROVE  ServerTypeOK'
<1> USE PulseAssumption, TypeGroups
    DEF ServerTypeOK, vars, serverVars, connVars, managerVars, workerVars, mapVars,
        historyVars
<1>1. ASSUME NEW i \in Streams, StreamAppears(i)
      PROVE  ServerTypeOK'
  BY <1>1 DEF StreamAppears, Emit, ServerFrame
<1>2. ASSUME NEW i \in Streams, StreamEnds(i)
      PROVE  ServerTypeOK'
  BY <1>2 DEF StreamEnds, Emit, ServerFrame
<1>3. ASSUME NEW m \in Range(Masters), NEW d \in Devices \cup {NoDevice}, DefaultChanges(m, d)
      PROVE  ServerTypeOK'
  BY <1>3 DEF DefaultChanges, Emit, ServerFrame
<1>4. CASE ServerRestarts
  BY <1>4 DEF ServerRestarts
<1>5. CASE ServerAnswers
  BY <1>5 DEF ServerAnswers
<1>6. ASSUME NEW c \in Conns, TransportBreaks(c)
      PROVE  ServerTypeOK'
  BY <1>6 DEF TransportBreaks, TransportFrame
<1>7. ASSUME NEW c \in Conns, ConnectionClosed(c)
      PROVE  ServerTypeOK'
  BY <1>7 DEF ConnectionClosed, TransportFrame
<1>8. ASSUME NEW c \in Conns, Keepalive(c)
      PROVE  ServerTypeOK'
  BY <1>8 DEF Keepalive, ForceClose, TransportFrame
<1>9. ASSUME NEW s \in mixed, SetVolume(s)
      PROVE  ServerTypeOK'
  BY <1>9 DEF SetVolume, ForceClose, TransportFrame
<1>10. ASSUME NEW c \in Conns, ReadEvent(c)
      PROVE  ServerTypeOK'
  BY <1>10 DEF ReadEvent
<1>11. ASSUME NEW c \in Conns, ReadReply(c)
      PROVE  ServerTypeOK'
  BY <1>11 DEF ReadReply, EndRequest, AfterRequest
<1>12. ASSUME NEW c \in Conns, HandleSubscribeEvent(c)
      PROVE  ServerTypeOK'
  BY <1>12 DEF HandleSubscribeEvent, DispatchWork
<1>13. CASE Start
  BY <1>13 DEF Start, ManagerFrame
<1>14. ASSUME NEW c \in Conns, Dial(c)
      PROVE  ServerTypeOK'
  BY <1>14 DEF Dial, ManagerFrame
<1>15. ASSUME NEW c \in Conns, OnUp(c)
      PROVE  ServerTypeOK'
  BY <1>15 DEF OnUp, DispatchWork, ManagerFrame
<1>16. CASE OnDown
  BY <1>16 DEF OnDown, ClearSessions, ManagerFrame
<1>17. ASSUME NEW s \in clearing, ClearOne(s)
      PROVE  ServerTypeOK'
  BY <1>17 DEF ClearOne
<1>18. CASE Drop
  BY <1>18 DEF Drop, ManagerFrame
<1>19. CASE ReleaseStops
  BY <1>19 DEF ReleaseStops, ManagerFrame
<1>20. CASE ReleaseClears
  BY <1>20 DEF ReleaseClears, ClearSessions, ManagerFrame
<1>21. CASE ReleaseReturns
  BY <1>21 DEF ReleaseReturns, ManagerFrame
<1>22. CASE EventWorker
  BY <1>22 DEF EventWorker, WorkerFrame
<1>23. CASE Current
  BY <1>23 DEF Current, EndRequest, AfterRequest, WorkerFrame
<1>24. CASE RequestFails
  BY <1>24 DEF RequestFails, ForceClose, EndRequest, AfterRequest, WorkerFrame
<1>25. CASE AddFromInfo
  BY <1>25 DEF AddFromInfo, NextInfo, EndRequest, AfterRequest, WorkerFrame
<1>26. CASE AddInserts
  BY <1>26 DEF AddInserts, NextInfo, EndRequest, AfterRequest, WorkerFrame
<1>27. CASE MasterSwaps
  BY <1>27 DEF MasterSwaps, WorkerFrame
<1>28. CASE ReportRemoved
  BY <1>28 DEF ReportRemoved, WorkerFrame
<1>29. CASE ReportAdded
  BY <1>29 DEF ReportAdded, NextInfo, EndRequest, AfterRequest, WorkerFrame
<1>30. CASE RemoveDeletes
  BY <1>30 DEF RemoveDeletes, Delete, WorkerFrame
<1>31. CASE UNCHANGED vars
  BY <1>31
<1> QED
  BY <1>1, <1>2, <1>3, <1>4, <1>5, <1>6, <1>7, <1>8, <1>9, <1>10, <1>11, <1>12, <1>13,
     <1>14, <1>15, <1>16, <1>17, <1>18, <1>19, <1>20, <1>21, <1>22, <1>23, <1>24, <1>25,
     <1>26, <1>27, <1>28, <1>29, <1>30, <1>31
  DEF Next, Manager, Worker, Release, ReadLoop

\* Connections and their read loops.
LEMMA LinkTyped ==
  ASSUME PulseTypeOK, [Next]_vars
  PROVE  LinkTypeOK'
<1> USE PulseAssumption, TypeGroups
    DEF LinkTypeOK, vars, serverVars, connVars, managerVars, workerVars, mapVars,
        historyVars
<1>1. ASSUME NEW i \in Streams, StreamAppears(i)
      PROVE  LinkTypeOK'
  BY <1>1 DEF StreamAppears, Emit, ServerFrame
<1>2. ASSUME NEW i \in Streams, StreamEnds(i)
      PROVE  LinkTypeOK'
  BY <1>2 DEF StreamEnds, Emit, ServerFrame
<1>3. ASSUME NEW m \in Range(Masters), NEW d \in Devices \cup {NoDevice}, DefaultChanges(m, d)
      PROVE  LinkTypeOK'
  BY <1>3 DEF DefaultChanges, Emit, ServerFrame
<1>4. CASE ServerRestarts
  BY <1>4 DEF ServerRestarts
<1>5. CASE ServerAnswers
  BY <1>5 DEF ServerAnswers
<1>6. ASSUME NEW c \in Conns, TransportBreaks(c)
      PROVE  LinkTypeOK'
  BY <1>6 DEF TransportBreaks, TransportFrame
<1>7. ASSUME NEW c \in Conns, ConnectionClosed(c)
      PROVE  LinkTypeOK'
  BY <1>7 DEF ConnectionClosed, TransportFrame
<1>8. ASSUME NEW c \in Conns, Keepalive(c)
      PROVE  LinkTypeOK'
  BY <1>8 DEF Keepalive, ForceClose, TransportFrame
<1>9. ASSUME NEW s \in mixed, SetVolume(s)
      PROVE  LinkTypeOK'
  BY <1>9 DEF SetVolume, ForceClose, TransportFrame
<1>10. ASSUME NEW c \in Conns, ReadEvent(c)
      PROVE  LinkTypeOK'
  BY <1>10, Wires DEF ReadEvent, Job
<1>11. ASSUME NEW c \in Conns, ReadReply(c)
      PROVE  LinkTypeOK'
  BY <1>11 DEF ReadReply, EndRequest, AfterRequest
<1>12. ASSUME NEW c \in Conns, HandleSubscribeEvent(c)
      PROVE  LinkTypeOK'
  BY <1>12 DEF HandleSubscribeEvent, DispatchWork
<1>13. CASE Start
  BY <1>13 DEF Start, ManagerFrame
<1>14. ASSUME NEW c \in Conns, Dial(c)
      PROVE  LinkTypeOK'
  BY <1>14 DEF Dial, ManagerFrame
<1>15. ASSUME NEW c \in Conns, OnUp(c)
      PROVE  LinkTypeOK'
  BY <1>15 DEF OnUp, DispatchWork, ManagerFrame
<1>16. CASE OnDown
  BY <1>16 DEF OnDown, ClearSessions, ManagerFrame, ManagerTypeOK
<1>17. ASSUME NEW s \in clearing, ClearOne(s)
      PROVE  LinkTypeOK'
  BY <1>17 DEF ClearOne
<1>18. CASE Drop
  BY <1>18 DEF Drop, ManagerFrame
<1>19. CASE ReleaseStops
  BY <1>19 DEF ReleaseStops, ManagerFrame
<1>20. CASE ReleaseClears
  BY <1>20 DEF ReleaseClears, ClearSessions, ManagerFrame
<1>21. CASE ReleaseReturns
  BY <1>21 DEF ReleaseReturns, ManagerFrame
<1>22. CASE EventWorker
  BY <1>22 DEF EventWorker, WorkerFrame
<1>23. CASE Current
  BY <1>23 DEF Current, EndRequest, AfterRequest, WorkerFrame
<1>24. CASE RequestFails
  BY <1>24 DEF RequestFails, ForceClose, EndRequest, AfterRequest, WorkerFrame
<1>25. CASE AddFromInfo
  BY <1>25 DEF AddFromInfo, NextInfo, EndRequest, AfterRequest, WorkerFrame
<1>26. CASE AddInserts
  BY <1>26 DEF AddInserts, NextInfo, EndRequest, AfterRequest, WorkerFrame
<1>27. CASE MasterSwaps
  BY <1>27 DEF MasterSwaps, WorkerFrame
<1>28. CASE ReportRemoved
  BY <1>28 DEF ReportRemoved, WorkerFrame
<1>29. CASE ReportAdded
  BY <1>29 DEF ReportAdded, NextInfo, EndRequest, AfterRequest, WorkerFrame
<1>30. CASE RemoveDeletes
  BY <1>30 DEF RemoveDeletes, Delete, WorkerFrame
<1>31. CASE UNCHANGED vars
  BY <1>31
<1> QED
  BY <1>1, <1>2, <1>3, <1>4, <1>5, <1>6, <1>7, <1>8, <1>9, <1>10, <1>11, <1>12, <1>13,
     <1>14, <1>15, <1>16, <1>17, <1>18, <1>19, <1>20, <1>21, <1>22, <1>23, <1>24, <1>25,
     <1>26, <1>27, <1>28, <1>29, <1>30, <1>31
  DEF Next, Manager, Worker, Release, ReadLoop

\* What is on its way on a connection keeps its type.
LEMMA WireTyped ==
  ASSUME PulseTypeOK, [Next]_vars
  PROVE  WireTypeOK'
<1> USE PulseAssumption, TypeGroups
    DEF WireTypeOK, vars, serverVars, connVars, managerVars, workerVars, mapVars,
        historyVars
<1>1. ASSUME NEW i \in Streams, StreamAppears(i)
      PROVE  WireTypeOK'
  BY <1>1, Wires, JobsOf DEF StreamAppears, Emit, ServerFrame
<1>2. ASSUME NEW i \in Streams, StreamEnds(i)
      PROVE  WireTypeOK'
  BY <1>2, Wires, JobsOf DEF StreamEnds, Emit, ServerFrame
<1>3. ASSUME NEW m \in Range(Masters), NEW d \in Devices \cup {NoDevice}, DefaultChanges(m, d)
      PROVE  WireTypeOK'
  BY <1>3, Wires, JobsOf DEF DefaultChanges, Emit, ServerFrame
<1>4. CASE ServerRestarts
  BY <1>4 DEF ServerRestarts
<1>5. CASE ServerAnswers
  BY <1>5, Wires DEF ServerAnswers
<1>6. ASSUME NEW c \in Conns, TransportBreaks(c)
      PROVE  WireTypeOK'
  BY <1>6 DEF TransportBreaks, TransportFrame
<1>7. ASSUME NEW c \in Conns, ConnectionClosed(c)
      PROVE  WireTypeOK'
  BY <1>7 DEF ConnectionClosed, TransportFrame
<1>8. ASSUME NEW c \in Conns, Keepalive(c)
      PROVE  WireTypeOK'
  BY <1>8 DEF Keepalive, ForceClose, TransportFrame
<1>9. ASSUME NEW s \in mixed, SetVolume(s)
      PROVE  WireTypeOK'
  BY <1>9 DEF SetVolume, ForceClose, TransportFrame
<1>10. ASSUME NEW c \in Conns, ReadEvent(c)
      PROVE  WireTypeOK'
  BY <1>10, Wires DEF ReadEvent
<1>11. ASSUME NEW c \in Conns, ReadReply(c)
      PROVE  WireTypeOK'
  BY <1>11, Wires DEF ReadReply, EndRequest, AfterRequest
<1>12. ASSUME NEW c \in Conns, HandleSubscribeEvent(c)
      PROVE  WireTypeOK'
  BY <1>12 DEF HandleSubscribeEvent, DispatchWork
<1>13. CASE Start
  BY <1>13 DEF Start, ManagerFrame
<1>14. ASSUME NEW c \in Conns, Dial(c)
      PROVE  WireTypeOK'
  BY <1>14 DEF Dial, ManagerFrame
<1>15. ASSUME NEW c \in Conns, OnUp(c)
      PROVE  WireTypeOK'
  BY <1>15 DEF OnUp, DispatchWork, ManagerFrame
<1>16. CASE OnDown
  BY <1>16 DEF OnDown, ClearSessions, ManagerFrame
<1>17. ASSUME NEW s \in clearing, ClearOne(s)
      PROVE  WireTypeOK'
  BY <1>17 DEF ClearOne
<1>18. CASE Drop
  BY <1>18 DEF Drop, ManagerFrame
<1>19. CASE ReleaseStops
  BY <1>19 DEF ReleaseStops, ManagerFrame
<1>20. CASE ReleaseClears
  BY <1>20 DEF ReleaseClears, ClearSessions, ManagerFrame
<1>21. CASE ReleaseReturns
  BY <1>21 DEF ReleaseReturns, ManagerFrame
<1>22. CASE EventWorker
  BY <1>22 DEF EventWorker, WorkerFrame
<1>23. CASE Current
  BY <1>23 DEF Current, EndRequest, AfterRequest, WorkerFrame
<1>24. CASE RequestFails
  BY <1>24 DEF RequestFails, ForceClose, EndRequest, AfterRequest, WorkerFrame
<1>25. CASE AddFromInfo
  BY <1>25 DEF AddFromInfo, NextInfo, EndRequest, AfterRequest, WorkerFrame
<1>26. CASE AddInserts
  BY <1>26 DEF AddInserts, NextInfo, EndRequest, AfterRequest, WorkerFrame
<1>27. CASE MasterSwaps
  BY <1>27 DEF MasterSwaps, WorkerFrame
<1>28. CASE ReportRemoved
  BY <1>28 DEF ReportRemoved, WorkerFrame
<1>29. CASE ReportAdded
  BY <1>29 DEF ReportAdded, NextInfo, EndRequest, AfterRequest, WorkerFrame
<1>30. CASE RemoveDeletes
  BY <1>30 DEF RemoveDeletes, Delete, WorkerFrame
<1>31. CASE UNCHANGED vars
  BY <1>31
<1> QED
  BY <1>1, <1>2, <1>3, <1>4, <1>5, <1>6, <1>7, <1>8, <1>9, <1>10, <1>11, <1>12, <1>13,
     <1>14, <1>15, <1>16, <1>17, <1>18, <1>19, <1>20, <1>21, <1>22, <1>23, <1>24, <1>25,
     <1>26, <1>27, <1>28, <1>29, <1>30, <1>31
  DEF Next, Manager, Worker, Release, ReadLoop

\* The variables of the manager and the histories keep their types.
LEMMA ManagerTyped ==
  ASSUME PulseTypeOK, [Next]_vars
  PROVE  ManagerTypeOK'
<1> USE PulseAssumption, TypeGroups
    DEF ManagerTypeOK, vars, serverVars, connVars, managerVars, workerVars, mapVars,
        historyVars
<1>1. ASSUME NEW i \in Streams, StreamAppears(i)
      PROVE  ManagerTypeOK'
  BY <1>1 DEF StreamAppears, Emit, ServerFrame
<1>2. ASSUME NEW i \in Streams, StreamEnds(i)
      PROVE  ManagerTypeOK'
  BY <1>2 DEF StreamEnds, Emit, ServerFrame
<1>3. ASSUME NEW m \in Range(Masters), NEW d \in Devices \cup {NoDevice}, DefaultChanges(m, d)
      PROVE  ManagerTypeOK'
  BY <1>3 DEF DefaultChanges, Emit, ServerFrame
<1>4. CASE ServerRestarts
  BY <1>4 DEF ServerRestarts
<1>5. CASE ServerAnswers
  BY <1>5 DEF ServerAnswers
<1>6. ASSUME NEW c \in Conns, TransportBreaks(c)
      PROVE  ManagerTypeOK'
  BY <1>6 DEF TransportBreaks, TransportFrame
<1>7. ASSUME NEW c \in Conns, ConnectionClosed(c)
      PROVE  ManagerTypeOK'
  BY <1>7 DEF ConnectionClosed, TransportFrame
<1>8. ASSUME NEW c \in Conns, Keepalive(c)
      PROVE  ManagerTypeOK'
  BY <1>8 DEF Keepalive, ForceClose, TransportFrame
<1>9. ASSUME NEW s \in mixed, SetVolume(s)
      PROVE  ManagerTypeOK'
  BY <1>9 DEF SetVolume, ForceClose, TransportFrame
<1>10. ASSUME NEW c \in Conns, ReadEvent(c)
      PROVE  ManagerTypeOK'
  BY <1>10 DEF ReadEvent
<1>11. ASSUME NEW c \in Conns, ReadReply(c)
      PROVE  ManagerTypeOK'
  BY <1>11 DEF ReadReply, EndRequest, AfterRequest
<1>12. ASSUME NEW c \in Conns, HandleSubscribeEvent(c)
      PROVE  ManagerTypeOK'
  BY <1>12 DEF HandleSubscribeEvent, DispatchWork
<1>13. CASE Start
  BY <1>13 DEF Start, ManagerFrame
<1>14. ASSUME NEW c \in Conns, Dial(c)
      PROVE  ManagerTypeOK'
  BY <1>14 DEF Dial, ManagerFrame
<1>15. ASSUME NEW c \in Conns, OnUp(c)
      PROVE  ManagerTypeOK'
  BY <1>15 DEF OnUp, DispatchWork, ManagerFrame
<1>16. CASE OnDown
  BY <1>16 DEF OnDown, ClearSessions, ManagerFrame
<1>17. ASSUME NEW s \in clearing, ClearOne(s)
      PROVE  ManagerTypeOK'
  BY <1>17 DEF ClearOne
<1>18. CASE Drop
  BY <1>18 DEF Drop, ManagerFrame
<1>19. CASE ReleaseStops
  BY <1>19 DEF ReleaseStops, ManagerFrame
<1>20. CASE ReleaseClears
  BY <1>20 DEF ReleaseClears, ClearSessions, ManagerFrame
<1>21. CASE ReleaseReturns
  BY <1>21 DEF ReleaseReturns, ManagerFrame
<1>22. CASE EventWorker
  BY <1>22 DEF EventWorker, WorkerFrame
<1>23. CASE Current
  BY <1>23 DEF Current, EndRequest, AfterRequest, WorkerFrame
<1>24. CASE RequestFails
  BY <1>24 DEF RequestFails, ForceClose, EndRequest, AfterRequest, WorkerFrame
<1>25. CASE AddFromInfo
  BY <1>25 DEF AddFromInfo, NextInfo, EndRequest, AfterRequest, WorkerFrame
<1>26. CASE AddInserts
  BY <1>26 DEF AddInserts, NextInfo, EndRequest, AfterRequest, WorkerFrame
<1>27. CASE MasterSwaps
  BY <1>27 DEF MasterSwaps, WorkerFrame
<1>28. CASE ReportRemoved
  BY <1>28 DEF ReportRemoved, WorkerFrame
<1>29. CASE ReportAdded
  BY <1>29 DEF ReportAdded, NextInfo, EndRequest, AfterRequest, WorkerFrame
<1>30. CASE RemoveDeletes
  BY <1>30 DEF RemoveDeletes, Delete, WorkerFrame
<1>31. CASE UNCHANGED vars
  BY <1>31
<1> QED
  BY <1>1, <1>2, <1>3, <1>4, <1>5, <1>6, <1>7, <1>8, <1>9, <1>10, <1>11, <1>12, <1>13,
     <1>14, <1>15, <1>16, <1>17, <1>18, <1>19, <1>20, <1>21, <1>22, <1>23, <1>24, <1>25,
     <1>26, <1>27, <1>28, <1>29, <1>30, <1>31
  DEF Next, Manager, Worker, Release, ReadLoop

\* The queue holds jobs, and never more than it has places.
LEMMA WorkChanTyped ==
  ASSUME PulseTypeOK, [Next]_vars
  PROVE  WorkChanTypeOK'
<1> USE PulseAssumption, TypeGroups
    DEF WorkChanTypeOK, vars, serverVars, connVars, managerVars, workerVars, mapVars,
        historyVars
<1>1. ASSUME NEW i \in Streams, StreamAppears(i)
      PROVE  WorkChanTypeOK'
  BY <1>1 DEF StreamAppears, Emit, ServerFrame
<1>2. ASSUME NEW i \in Streams, StreamEnds(i)
      PROVE  WorkChanTypeOK'
  BY <1>2 DEF StreamEnds, Emit, ServerFrame
<1>3. ASSUME NEW m \in Range(Masters), NEW d \in Devices \cup {NoDevice}, DefaultChanges(m, d)
      PROVE  WorkChanTypeOK'
  BY <1>3 DEF DefaultChanges, Emit, ServerFrame
<1>4. CASE ServerRestarts
  BY <1>4 DEF ServerRestarts
<1>5. CASE ServerAnswers
  BY <1>5 DEF ServerAnswers
<1>6. ASSUME NEW c \in Conns, TransportBreaks(c)
      PROVE  WorkChanTypeOK'
  BY <1>6 DEF TransportBreaks, TransportFrame
<1>7. ASSUME NEW c \in Conns, ConnectionClosed(c)
      PROVE  WorkChanTypeOK'
  BY <1>7 DEF ConnectionClosed, TransportFrame
<1>8. ASSUME NEW c \in Conns, Keepalive(c)
      PROVE  WorkChanTypeOK'
  BY <1>8 DEF Keepalive, ForceClose, TransportFrame
<1>9. ASSUME NEW s \in mixed, SetVolume(s)
      PROVE  WorkChanTypeOK'
  BY <1>9 DEF SetVolume, ForceClose, TransportFrame
<1>10. ASSUME NEW c \in Conns, ReadEvent(c)
      PROVE  WorkChanTypeOK'
  BY <1>10 DEF ReadEvent
<1>11. ASSUME NEW c \in Conns, ReadReply(c)
      PROVE  WorkChanTypeOK'
  BY <1>11 DEF ReadReply, EndRequest, AfterRequest
<1>12. ASSUME NEW c \in Conns, HandleSubscribeEvent(c)
      PROVE  WorkChanTypeOK'
  <2>1. reading[c] \in Jobs
    BY <1>12 DEF HandleSubscribeEvent, LinkTypeOK
  <2> QED
    BY <1>12, <2>1, Dispatched DEF HandleSubscribeEvent
<1>13. CASE Start
  BY <1>13 DEF Start, ManagerFrame
<1>14. ASSUME NEW c \in Conns, Dial(c)
      PROVE  WorkChanTypeOK'
  BY <1>14 DEF Dial, ManagerFrame
<1>15. ASSUME NEW c \in Conns, OnUp(c)
      PROVE  WorkChanTypeOK'
  BY <1>15, Dispatched, JobsOf DEF OnUp
<1>16. CASE OnDown
  BY <1>16 DEF OnDown, ClearSessions, ManagerFrame
<1>17. ASSUME NEW s \in clearing, ClearOne(s)
      PROVE  WorkChanTypeOK'
  BY <1>17 DEF ClearOne
<1>18. CASE Drop
  BY <1>18 DEF Drop, ManagerFrame
<1>19. CASE ReleaseStops
  BY <1>19 DEF ReleaseStops, ManagerFrame
<1>20. CASE ReleaseClears
  BY <1>20 DEF ReleaseClears, ClearSessions, ManagerFrame
<1>21. CASE ReleaseReturns
  BY <1>21 DEF ReleaseReturns, ManagerFrame
<1>22. CASE EventWorker
  <2>1. workChan \in Seq(Jobs) /\ Len(workChan) \in Nat /\ Len(workChan) <= MaxWork
        /\ MaxWork \in Nat
    BY LenProperties
  <2>2. \/ workChan' = workChan
        \/ workChan # <<>> /\ workChan' = Tail(workChan)
    BY <1>22 DEF EventWorker
  <2> HIDE TypeGroups, PulseAssumption
  <2>3. workChan # <<>> => /\ Tail(workChan) \in Seq(Jobs)
                           /\ Len(Tail(workChan)) = Len(workChan) - 1
    BY <2>1, RangeOfTail
  <2> QED
    BY <2>1, <2>2, <2>3
<1>23. CASE Current
  BY <1>23 DEF Current, EndRequest, AfterRequest, WorkerFrame
<1>24. CASE RequestFails
  BY <1>24 DEF RequestFails, ForceClose, EndRequest, AfterRequest, WorkerFrame
<1>25. CASE AddFromInfo
  BY <1>25 DEF AddFromInfo, NextInfo, EndRequest, AfterRequest, WorkerFrame
<1>26. CASE AddInserts
  BY <1>26 DEF AddInserts, NextInfo, EndRequest, AfterRequest, WorkerFrame
<1>27. CASE MasterSwaps
  BY <1>27 DEF MasterSwaps, WorkerFrame
<1>28. CASE ReportRemoved
  BY <1>28 DEF ReportRemoved, WorkerFrame
<1>29. CASE ReportAdded
  BY <1>29 DEF ReportAdded, NextInfo, EndRequest, AfterRequest, WorkerFrame
<1>30. CASE RemoveDeletes
  BY <1>30 DEF RemoveDeletes, Delete, WorkerFrame
<1>31. CASE UNCHANGED vars
  BY <1>31
<1> QED
  BY <1>1, <1>2, <1>3, <1>4, <1>5, <1>6, <1>7, <1>8, <1>9, <1>10, <1>11, <1>12, <1>13,
     <1>14, <1>15, <1>16, <1>17, <1>18, <1>19, <1>20, <1>21, <1>22, <1>23, <1>24, <1>25,
     <1>26, <1>27, <1>28, <1>29, <1>30, <1>31
  DEF Next, Manager, Worker, Release, ReadLoop

\* The place of the worker, its requests and its answers keep their types.
LEMMA WorkerTyped ==
  ASSUME PulseTypeOK, WorkerInv, [Next]_vars
  PROVE  WorkerTypeOK'
<1> USE PulseAssumption, TypeGroups
    DEF WorkerTypeOK, vars, serverVars, connVars, managerVars, workerVars, mapVars,
        historyVars
<1>1. ASSUME NEW i \in Streams, StreamAppears(i)
      PROVE  WorkerTypeOK'
  BY <1>1 DEF StreamAppears, Emit, ServerFrame
<1>2. ASSUME NEW i \in Streams, StreamEnds(i)
      PROVE  WorkerTypeOK'
  BY <1>2 DEF StreamEnds, Emit, ServerFrame
<1>3. ASSUME NEW m \in Range(Masters), NEW d \in Devices \cup {NoDevice}, DefaultChanges(m, d)
      PROVE  WorkerTypeOK'
  BY <1>3 DEF DefaultChanges, Emit, ServerFrame
<1>4. CASE ServerRestarts
  BY <1>4 DEF ServerRestarts
<1>5. CASE ServerAnswers
  <2>1. /\ infos' = Answer(Head(asks)) /\ pc' = "answered"
        /\ UNCHANGED <<asks, using>> /\ Head(asks) \in Requests /\ streams \subseteq Streams
    BY <1>5, Queues DEF ServerAnswers, ServerTypeOK, WorkerInv
  <2>2. asks \in Seq(Requests) /\ using \in Conns \cup {NoConn}
    OBVIOUS
  <2> HIDE TypeGroups, PulseAssumption
  <2>3. infos' \subseteq Streams \cup Devices
    BY <2>1, Answers
  <2> QED
    BY <2>1, <2>2, <2>3
<1>6. ASSUME NEW c \in Conns, TransportBreaks(c)
      PROVE  WorkerTypeOK'
  BY <1>6 DEF TransportBreaks, TransportFrame
<1>7. ASSUME NEW c \in Conns, ConnectionClosed(c)
      PROVE  WorkerTypeOK'
  BY <1>7 DEF ConnectionClosed, TransportFrame
<1>8. ASSUME NEW c \in Conns, Keepalive(c)
      PROVE  WorkerTypeOK'
  BY <1>8 DEF Keepalive, ForceClose, TransportFrame
<1>9. ASSUME NEW s \in mixed, SetVolume(s)
      PROVE  WorkerTypeOK'
  BY <1>9 DEF SetVolume, ForceClose, TransportFrame
<1>10. ASSUME NEW c \in Conns, ReadEvent(c)
      PROVE  WorkerTypeOK'
  BY <1>10 DEF ReadEvent
<1>11. ASSUME NEW c \in Conns, ReadReply(c)
      PROVE  WorkerTypeOK'
  BY <1>11, Queues DEF ReadReply, EndRequest, AfterRequest, WorkerInv
<1>12. ASSUME NEW c \in Conns, HandleSubscribeEvent(c)
      PROVE  WorkerTypeOK'
  BY <1>12 DEF HandleSubscribeEvent, DispatchWork
<1>13. CASE Start
  BY <1>13 DEF Start, ManagerFrame
<1>14. ASSUME NEW c \in Conns, Dial(c)
      PROVE  WorkerTypeOK'
  BY <1>14 DEF Dial, ManagerFrame
<1>15. ASSUME NEW c \in Conns, OnUp(c)
      PROVE  WorkerTypeOK'
  BY <1>15 DEF OnUp, DispatchWork, ManagerFrame
<1>16. CASE OnDown
  BY <1>16 DEF OnDown, ClearSessions, ManagerFrame
<1>17. ASSUME NEW s \in clearing, ClearOne(s)
      PROVE  WorkerTypeOK'
  BY <1>17 DEF ClearOne
<1>18. CASE Drop
  BY <1>18 DEF Drop, ManagerFrame
<1>19. CASE ReleaseStops
  BY <1>19 DEF ReleaseStops, ManagerFrame
<1>20. CASE ReleaseClears
  BY <1>20 DEF ReleaseClears, ClearSessions, ManagerFrame
<1>21. CASE ReleaseReturns
  BY <1>21 DEF ReleaseReturns, ManagerFrame
<1>22. CASE EventWorker
  BY <1>22, Queues, RequestsOfJob DEF EventWorker, WorkerFrame
<1>23. CASE Current
  BY <1>23, Queues
  DEF Current, EndRequest, AfterRequest, WorkerFrame, ManagerTypeOK, WorkerInv
<1>24. CASE RequestFails
  BY <1>24, Queues
  DEF RequestFails, ForceClose, EndRequest, AfterRequest, WorkerFrame, WorkerInv
<1>25. CASE AddFromInfo
  BY <1>25, Queues, Infos
  DEF AddFromInfo, NextInfo, EndRequest, AfterRequest, WorkerFrame, ManagerTypeOK, WorkerInv
<1>26. CASE AddInserts
  BY <1>26, Queues, Infos
  DEF AddInserts, NextInfo, EndRequest, AfterRequest, WorkerFrame, WorkerInv
<1>27. CASE MasterSwaps
  BY <1>27 DEF MasterSwaps, WorkerFrame
<1>28. CASE ReportRemoved
  BY <1>28 DEF ReportRemoved, WorkerFrame
<1>29. CASE ReportAdded
  BY <1>29, Queues, Infos
  DEF ReportAdded, NextInfo, EndRequest, AfterRequest, WorkerFrame, WorkerInv
<1>30. CASE RemoveDeletes
  BY <1>30 DEF RemoveDeletes, Delete, WorkerFrame
<1>31. CASE UNCHANGED vars
  BY <1>31
<1> QED
  BY <1>1, <1>2, <1>3, <1>4, <1>5, <1>6, <1>7, <1>8, <1>9, <1>10, <1>11, <1>12, <1>13,
     <1>14, <1>15, <1>16, <1>17, <1>18, <1>19, <1>20, <1>21, <1>22, <1>23, <1>24, <1>25,
     <1>26, <1>27, <1>28, <1>29, <1>30, <1>31
  DEF Next, Manager, Worker, Release, ReadLoop

\* Finitely many sessions are in anybody's hands.
LEMMA OwnedIsFinite == ASSUME SessionsInv PROVE IsFiniteSet(Owned \cup mixed)
<1>1. IsFiniteSet({removing}) /\ IsFiniteSet({removing} \ {None})
  BY FS_Singleton, FS_Subset
<1>2. IsFiniteSet(held \cup clearing)
  BY FS_Union DEF SessionsInv
<1>3. IsFiniteSet(Owned)
  BY <1>1, <1>2, FS_Union DEF Owned
<1> QED
  BY <1>3, FS_Union DEF SessionsInv

\* What AddInserts and MasterSwaps make is new.
LEMMA Inserted ==
  ASSUME PulseTypeOK, WorkerInv, SessionsInv, AddInserts, ~Exists(Min(infos))
  PROVE  /\ Min(infos) \in infos /\ Min(infos) \in Streams /\ Min(infos) \notin Hidden
         /\ adding' \in Sessions /\ adding' \notin Owned \cup mixed
         /\ adding'.id = Min(infos) /\ adding'.device = Min(infos) /\ adding'.conn = using
         /\ held' = held \cup {adding'}
<1>1. /\ pc = "insert" /\ Head(asks).op # "master" /\ infos # {} /\ asks # <<>>
      /\ adding' = NewSession(Min(infos), Min(infos), using) /\ held' = held \cup {adding'}
  BY DEF AddInserts, WorkerInv
<1>2. Min(infos) \in infos /\ Min(infos) \in Streams /\ Min(infos) \notin Hidden /\ using \in Conns
  BY <1>1, Infos DEF WorkerInv
<1> QED
  BY <1>1, <1>2, NewSessionIsNew, OwnedIsFinite

\* A new master session takes the place of the old one of the same name.
LEMMA Swapped ==
  ASSUME PulseTypeOK, WorkerInv, SessionsInv, MasterSwaps
  PROVE  /\ Head(asks) \in Requests /\ Head(asks).id \in Range(Masters)
         /\ Head(asks) = Job("master", Head(asks).id)
         /\ infos = {Min(infos)}
         /\ adding' \in Sessions /\ adding' \notin Owned \cup mixed
         /\ adding'.id = Head(asks).id /\ adding'.device = Min(infos) /\ adding'.conn = using
         /\ held' = {s \in held : s.id # Head(asks).id} \cup {adding'}
         /\ \/ removing' = None /\ \A s \in held : s.id # Head(asks).id
            \/ removing' \in held /\ removing'.id = Head(asks).id
<1> DEFINE m == Head(asks).id
           old == {s \in held : s.id = m}
<1>1. /\ pc = "insert" /\ Head(asks).op = "master" /\ infos # {} /\ asks # <<>>
      /\ adding' = NewSession(m, Min(infos), using) /\ held' = (held \ old) \cup {adding'}
      /\ removing' = IF old = {} THEN None ELSE CHOOSE s \in old : TRUE
  BY DEF MasterSwaps, WorkerInv
<1>2. m \in Range(Masters) /\ Head(asks) \in Requests /\ Head(asks) = Job("master", m)
  BY <1>1, Queues, Answers
<1>3. infos = {Min(infos)} /\ Min(infos) \in Devices /\ using \in Conns
  <2>1. PICK d \in Devices : infos = {d}
    BY <1>1 DEF WorkerInv
  <2>2. Min(infos) = d
    BY <2>1, Infos
  <2> QED
    BY <1>1, <2>1, <2>2 DEF WorkerInv
<1>4. \/ removing' = None /\ old = {}
      \/ removing' \in old
  BY <1>1
<1> QED
  BY <1>1, <1>2, <1>3, <1>4, NewSessionIsNew, OwnedIsFinite

\* What is deleted was there, and was the only session of its stream.
LEMMA Deleted ==
  ASSUME OneRemover, NEW i, Exists(i), Delete(i)
  PROVE  /\ removing' \in held /\ removing'.id = i
         /\ held' = held \ {removing'}
         /\ \A s \in held' : s.id # i
<1>1. removing' \in {s \in held : s.id = i}
  BY DEF Delete, Exists
<1> QED
  BY <1>1 DEF Delete, OneRemover

\* The sessions in the maps and in the handler keep their types.
LEMMA SessionTyped ==
  ASSUME PulseIInv, [Next]_vars
  PROVE  SessionTypeOK'
<1> USE TypeGroups
    DEF PulseIInv, SessionTypeOK, vars, serverVars, connVars, managerVars, workerVars,
        mapVars, historyVars
<1>1. ASSUME NEW i \in Streams, StreamAppears(i)
      PROVE  SessionTypeOK'
  BY <1>1 DEF StreamAppears, Emit, ServerFrame
<1>2. ASSUME NEW i \in Streams, StreamEnds(i)
      PROVE  SessionTypeOK'
  BY <1>2 DEF StreamEnds, Emit, ServerFrame
<1>3. ASSUME NEW m \in Range(Masters), NEW d \in Devices \cup {NoDevice}, DefaultChanges(m, d)
      PROVE  SessionTypeOK'
  BY <1>3 DEF DefaultChanges, Emit, ServerFrame
<1>4. CASE ServerRestarts
  BY <1>4 DEF ServerRestarts
<1>5. CASE ServerAnswers
  BY <1>5 DEF ServerAnswers
<1>6. ASSUME NEW c \in Conns, TransportBreaks(c)
      PROVE  SessionTypeOK'
  BY <1>6 DEF TransportBreaks, TransportFrame
<1>7. ASSUME NEW c \in Conns, ConnectionClosed(c)
      PROVE  SessionTypeOK'
  BY <1>7 DEF ConnectionClosed, TransportFrame
<1>8. ASSUME NEW c \in Conns, Keepalive(c)
      PROVE  SessionTypeOK'
  BY <1>8 DEF Keepalive, ForceClose, TransportFrame
<1>9. ASSUME NEW s \in mixed, SetVolume(s)
      PROVE  SessionTypeOK'
  BY <1>9 DEF SetVolume, ForceClose, TransportFrame
<1>10. ASSUME NEW c \in Conns, ReadEvent(c)
      PROVE  SessionTypeOK'
  BY <1>10 DEF ReadEvent
<1>11. ASSUME NEW c \in Conns, ReadReply(c)
      PROVE  SessionTypeOK'
  BY <1>11 DEF ReadReply, EndRequest, AfterRequest
<1>12. ASSUME NEW c \in Conns, HandleSubscribeEvent(c)
      PROVE  SessionTypeOK'
  BY <1>12 DEF HandleSubscribeEvent, DispatchWork
<1>13. CASE Start
  BY <1>13 DEF Start, ManagerFrame
<1>14. ASSUME NEW c \in Conns, Dial(c)
      PROVE  SessionTypeOK'
  BY <1>14 DEF Dial, ManagerFrame
<1>15. ASSUME NEW c \in Conns, OnUp(c)
      PROVE  SessionTypeOK'
  BY <1>15 DEF OnUp, DispatchWork, ManagerFrame
<1>16. CASE OnDown
  BY <1>16 DEF OnDown, ClearSessions, ManagerFrame
<1>17. ASSUME NEW s \in clearing, ClearOne(s)
      PROVE  SessionTypeOK'
  BY <1>17 DEF ClearOne
<1>18. CASE Drop
  BY <1>18 DEF Drop, ManagerFrame
<1>19. CASE ReleaseStops
  BY <1>19 DEF ReleaseStops, ManagerFrame
<1>20. CASE ReleaseClears
  BY <1>20 DEF ReleaseClears, ClearSessions, ManagerFrame
<1>21. CASE ReleaseReturns
  BY <1>21 DEF ReleaseReturns, ManagerFrame
<1>22. CASE EventWorker
  BY <1>22 DEF EventWorker, WorkerFrame
<1>23. CASE Current
  BY <1>23 DEF Current, EndRequest, AfterRequest, WorkerFrame
<1>24. CASE RequestFails
  BY <1>24 DEF RequestFails, ForceClose, EndRequest, AfterRequest, WorkerFrame
<1>25. CASE AddFromInfo
  BY <1>25 DEF AddFromInfo, NextInfo, EndRequest, AfterRequest, WorkerFrame
<1>26. CASE AddInserts
  BY <1>26, Inserted DEF AddInserts, NextInfo, EndRequest, AfterRequest, WorkerFrame
<1>27. CASE MasterSwaps
  BY <1>27, Swapped DEF MasterSwaps, WorkerFrame
<1>28. CASE ReportRemoved
  BY <1>28 DEF ReportRemoved, WorkerFrame
<1>29. CASE ReportAdded
  BY <1>29 DEF ReportAdded, NextInfo, EndRequest, AfterRequest, WorkerFrame, WorkerInv
<1>30. CASE RemoveDeletes
  BY <1>30, Deleted DEF RemoveDeletes, Delete, WorkerFrame
<1>31. CASE UNCHANGED vars
  BY <1>31
<1> QED
  BY <1>1, <1>2, <1>3, <1>4, <1>5, <1>6, <1>7, <1>8, <1>9, <1>10, <1>11, <1>12, <1>13,
     <1>14, <1>15, <1>16, <1>17, <1>18, <1>19, <1>20, <1>21, <1>22, <1>23, <1>24, <1>25,
     <1>26, <1>27, <1>28, <1>29, <1>30, <1>31
  DEF Next, Manager, Worker, Release, ReadLoop

\* Every step keeps the types.
LEMMA TypeKept ==
  ASSUME PulseIInv, [Next]_vars
  PROVE  PulseTypeOK'
<1>1. PulseTypeOK /\ WorkerInv
  BY DEF PulseIInv
<1>2. /\ ServerTypeOK' /\ LinkTypeOK' /\ WireTypeOK' /\ ManagerTypeOK' /\ WorkChanTypeOK'
      /\ WorkerTypeOK' /\ SessionTypeOK'
  BY SMTT(30), <1>1, ServerTyped, LinkTyped, WireTyped, ManagerTyped, WorkChanTyped, WorkerTyped,
     SessionTyped
<1> QED
  BY <1>2 DEF PulseTypeOK, ServerTypeOK, LinkTypeOK, WireTypeOK, ManagerTypeOK, WorkChanTypeOK,
              WorkerTypeOK, SessionTypeOK

-----------------------------------------------------------------------------
(* Every part of the invariant is kept.                                     *)

\* What the worker has in hand fits its place in the job, in every step.
LEMMA WorkerKept ==
  ASSUME PulseIInv, [Next]_vars
  PROVE  WorkerInv'
<1> USE DEF PulseIInv, WorkerInv, vars, serverVars, connVars, managerVars, workerVars,
            mapVars, historyVars
<1>1. ASSUME NEW i \in Streams, StreamAppears(i)
      PROVE  WorkerInv'
  BY <1>1 DEF StreamAppears, Emit, ServerFrame
<1>2. ASSUME NEW i \in Streams, StreamEnds(i)
      PROVE  WorkerInv'
  BY <1>2 DEF StreamEnds, Emit, ServerFrame
<1>3. ASSUME NEW m \in Range(Masters), NEW d \in Devices \cup {NoDevice}, DefaultChanges(m, d)
      PROVE  WorkerInv'
  BY <1>3 DEF DefaultChanges, Emit, ServerFrame
<1>4. CASE ServerRestarts
  BY <1>4 DEF ServerRestarts
<1>5. CASE ServerAnswers
  <2>1. /\ pc = "asked" /\ pc' = "answered" /\ infos' = Answer(Head(asks)) /\ asks # <<>>
        /\ UNCHANGED <<asks, using, adding, removing>>
    BY <1>5 DEF ServerAnswers
  <2>2. Head(asks) \in Requests
    BY <2>1, Queues
  <2>3. infos' # {} => IF Head(asks).op = "master" THEN \E d \in Devices : infos' = {d}
                                                   ELSE infos' \subseteq Streams
    <3>1. streams \subseteq Streams
      BY DEF PulseTypeOK
    <3> QED
      BY <2>1, <2>2, <3>1, Answers
  <2> QED
    BY <2>1, <2>3
<1>6. ASSUME NEW c \in Conns, TransportBreaks(c)
      PROVE  WorkerInv'
  BY <1>6 DEF TransportBreaks, TransportFrame
<1>7. ASSUME NEW c \in Conns, ConnectionClosed(c)
      PROVE  WorkerInv'
  BY <1>7 DEF ConnectionClosed, TransportFrame
<1>8. ASSUME NEW c \in Conns, Keepalive(c)
      PROVE  WorkerInv'
  BY <1>8 DEF Keepalive, ForceClose, TransportFrame
<1>9. ASSUME NEW s \in mixed, SetVolume(s)
      PROVE  WorkerInv'
  BY <1>9 DEF SetVolume, ForceClose, TransportFrame
<1>10. ASSUME NEW c \in Conns, ReadEvent(c)
      PROVE  WorkerInv'
  BY <1>10 DEF ReadEvent
<1>11. ASSUME NEW c \in Conns, ReadReply(c)
      PROVE  WorkerInv'
  BY <1>11, Queues DEF ReadReply, EndRequest, AfterRequest
<1>12. ASSUME NEW c \in Conns, HandleSubscribeEvent(c)
      PROVE  WorkerInv'
  BY <1>12 DEF HandleSubscribeEvent, DispatchWork
<1>13. CASE Start
  BY <1>13 DEF Start, ManagerFrame
<1>14. ASSUME NEW c \in Conns, Dial(c)
      PROVE  WorkerInv'
  BY <1>14 DEF Dial, ManagerFrame
<1>15. ASSUME NEW c \in Conns, OnUp(c)
      PROVE  WorkerInv'
  BY <1>15 DEF OnUp, DispatchWork, ManagerFrame
<1>16. CASE OnDown
  BY <1>16 DEF OnDown, ClearSessions, ManagerFrame
<1>17. ASSUME NEW s \in clearing, ClearOne(s)
      PROVE  WorkerInv'
  BY <1>17 DEF ClearOne
<1>18. CASE Drop
  BY <1>18 DEF Drop, ManagerFrame
<1>19. CASE ReleaseStops
  BY <1>19 DEF ReleaseStops, ManagerFrame
<1>20. CASE ReleaseClears
  BY <1>20 DEF ReleaseClears, ClearSessions, ManagerFrame
<1>21. CASE ReleaseReturns
  BY <1>21 DEF ReleaseReturns, ManagerFrame
<1>22. CASE EventWorker
  <2>1. /\ pc = "idle" /\ infos = {} /\ adding = None /\ removing = None
        /\ UNCHANGED <<using, infos, adding, removing>>
    BY <1>22 DEF EventWorker, WorkerFrame
  <2>2. ASSUME workChan # <<>>, asks' = RequestsOf(Head(workChan)),
               pc' = IF Head(workChan).op = "remove" THEN "delete" ELSE "look"
        PROVE  WorkerInv'
    <3>1. Head(workChan) \in Jobs
      BY <2>2, Queues
    <3>2. Head(workChan).op \in {"new", "remove", "master", "sync"}
      BY <3>1 DEF Jobs, Job
    <3>3. /\ asks' # <<>>
          /\ Head(workChan).op = "remove" => Head(asks').op = "remove"
          /\ Head(workChan).op # "remove" => \A a \in Range(asks') : a.op # "remove"
      BY <2>2, <3>1, <3>2, RequestsOfJob
    <3> QED
      BY <2>1, <2>2, <3>3
  <2>3. ASSUME pc' = "exited", asks' = asks
        PROVE  WorkerInv'
    BY <2>1, <2>3
  <2> QED
    BY <1>22, <2>2, <2>3 DEF EventWorker
<1>23. CASE Current
  BY <1>23, Queues, TypeGroups
  DEF Current, EndRequest, AfterRequest, WorkerFrame, ManagerTypeOK
<1>24. CASE RequestFails
  BY <1>24, Queues DEF RequestFails, ForceClose, EndRequest, AfterRequest, WorkerFrame
<1>25. CASE AddFromInfo
  BY ZenonT(60), <1>25, Queues, Infos, TypeGroups
  DEF AddFromInfo, NextInfo, EndRequest, AfterRequest, WorkerFrame, ManagerTypeOK
<1>26. CASE AddInserts
  <2>1. CASE Exists(Min(infos))
    <3>1. NextInfo /\ UNCHANGED <<adding, removing>> /\ pc = "insert" /\ Head(asks).op # "master"
      BY <1>26, <2>1 DEF AddInserts, WorkerFrame
    <3> QED
      BY <3>1, Infos, InfoDone, RequestEnded
  <2>2. CASE ~Exists(Min(infos))
    <3>1. /\ pc = "insert" /\ pc' = "report" /\ Head(asks).op # "master"
          /\ UNCHANGED <<asks, using, infos, removing>>
      BY <1>26, <2>2 DEF AddInserts, WorkerFrame
    <3>2. adding' # None
      BY <1>26, <2>2, Inserted, JobsOf
    <3> QED
      BY <3>1, <3>2
  <2> QED
    BY <2>1, <2>2
<1>27. CASE MasterSwaps
  BY <1>27, Swapped, JobsOf DEF MasterSwaps, WorkerFrame
<1>28. CASE ReportRemoved
  <2>1. /\ pc = "report" /\ removing' = None /\ adding' = adding
        /\ pc' = IF adding = None THEN "idle" ELSE "report"
        /\ UNCHANGED <<asks, using, infos>>
    BY <1>28 DEF ReportRemoved, WorkerFrame
  <2> QED
    BY <2>1
<1>29. CASE ReportAdded
  <2>1. /\ pc = "report" /\ removing = None /\ removing' = None /\ adding' = None /\ NextInfo
    BY <1>29 DEF ReportAdded, WorkerFrame
  <2>2. asks # <<>> /\ infos # {} /\ Min(infos) \in infos
    BY <2>1, Infos
  <2> QED
    <3>1. CASE EndRequest
      BY <2>1, <2>2, <3>1, RequestEnded
    <3>2. CASE /\ infos' = infos \ {Min(infos)} /\ infos' # {} /\ pc' = "add"
               /\ asks' = asks /\ using' = using
      <4>1. Head(asks).op # "master" /\ infos' \subseteq Streams
        BY <2>2, <3>2
      <4> QED
        BY <2>1, <2>2, <3>2, <4>1
    <3> QED
      BY <2>1, <2>2, <3>1, <3>2, InfoDone
<1>30. CASE RemoveDeletes
  <2>1. /\ pc = "delete" /\ asks' = <<>> /\ infos = {} /\ adding = None /\ removing = None
        /\ UNCHANGED <<using, infos, adding>>
    BY <1>30 DEF RemoveDeletes, WorkerFrame
  <2>2. Range(asks') = {}
    BY <2>1 DEF Range
  <2>3. CASE Exists(Head(asks).id)
    <3>1. pc' = "report" /\ removing' # None
      BY <1>30, <2>3, Deleted, JobsOf, TypeGroups DEF RemoveDeletes, SessionTypeOK
    <3> QED
      BY <2>1, <2>2, <3>1
  <2>4. CASE ~Exists(Head(asks).id)
    <3>1. pc' = "idle" /\ removing' = removing
      BY <1>30, <2>4 DEF RemoveDeletes
    <3> QED
      BY <2>1, <2>2, <3>1
  <2> QED
    BY <2>3, <2>4
<1>31. CASE UNCHANGED vars
  BY <1>31
<1> QED
  BY <1>1, <1>2, <1>3, <1>4, <1>5, <1>6, <1>7, <1>8, <1>9, <1>10, <1>11, <1>12, <1>13,
     <1>14, <1>15, <1>16, <1>17, <1>18, <1>19, <1>20, <1>21, <1>22, <1>23, <1>24, <1>25,
     <1>26, <1>27, <1>28, <1>29, <1>30, <1>31
  DEF Next, Manager, Worker, Release, ReadLoop

\* The manager and its connections.
LEMMA ManagerKept ==
  ASSUME PulseIInv, [Next]_vars
  PROVE  ManagerInv'
<1> USE TypeGroups, PulseAssumption
    DEF PulseIInv, ManagerInv, vars, serverVars, connVars, managerVars, workerVars, mapVars,
        historyVars
<1>1. ASSUME NEW i \in Streams, StreamAppears(i)
      PROVE  ManagerInv'
  BY <1>1 DEF StreamAppears, Emit, ServerFrame
<1>2. ASSUME NEW i \in Streams, StreamEnds(i)
      PROVE  ManagerInv'
  BY <1>2 DEF StreamEnds, Emit, ServerFrame
<1>3. ASSUME NEW m \in Range(Masters), NEW d \in Devices \cup {NoDevice}, DefaultChanges(m, d)
      PROVE  ManagerInv'
  BY <1>3 DEF DefaultChanges, Emit, ServerFrame
<1>4. CASE ServerRestarts
  <2>1. /\ link' = [c \in Conns |-> IF link[c] = "open" THEN "broken" ELSE link[c]]
        /\ wire' = [c \in Conns |-> <<>>]
    BY <1>4 DEF ServerRestarts
  <2>2. \A c \in Conns :
          /\ link'[c] \notin {"fresh", "closed"} <=> link[c] \notin {"fresh", "closed"}
          /\ link'[c] = "fresh" <=> link[c] = "fresh"
          /\ link[c] = "noticed" => link'[c] = "noticed"
          /\ link'[c] # "open" /\ wire'[c] = <<>>
    BY <2>1
  <2>3. current # NoConn => current \in Conns
    BY DEF ManagerTypeOK
  <2>4. UNCHANGED <<reading, manager, current, finder, pc, using>>
    BY <1>4 DEF ServerRestarts
  <2>5. pc \in {"asked", "answered"} => using \in Conns
    BY DEF WorkerInv
  <2> QED
    BY <2>2, <2>3, <2>4, <2>5
<1>5. CASE ServerAnswers
  BY <1>5 DEF ServerAnswers
<1>6. ASSUME NEW c \in Conns, TransportBreaks(c)
      PROVE  ManagerInv'
  BY <1>6 DEF TransportBreaks, TransportFrame
<1>7. ASSUME NEW c \in Conns, ConnectionClosed(c)
      PROVE  ManagerInv'
  BY <1>7 DEF ConnectionClosed, TransportFrame
<1>8. ASSUME NEW c \in Conns, Keepalive(c)
      PROVE  ManagerInv'
  BY <1>8 DEF Keepalive, ForceClose, TransportFrame
<1>9. ASSUME NEW s \in mixed, SetVolume(s)
      PROVE  ManagerInv'
  BY <1>9 DEF SetVolume, ForceClose, TransportFrame
<1>10. ASSUME NEW c \in Conns, ReadEvent(c)
      PROVE  ManagerInv'
  BY <1>10 DEF ReadEvent
<1>11. ASSUME NEW c \in Conns, ReadReply(c)
      PROVE  ManagerInv'
  BY <1>11 DEF ReadReply, EndRequest, AfterRequest
<1>12. ASSUME NEW c \in Conns, HandleSubscribeEvent(c)
      PROVE  ManagerInv'
  BY <1>12 DEF HandleSubscribeEvent, DispatchWork, LinkTypeOK, ManagerTypeOK, WireTypeOK
<1>13. CASE Start
  BY <1>13 DEF Start, ManagerFrame
<1>14. ASSUME NEW c \in Conns, Dial(c)
      PROVE  ManagerInv'
  BY <1>14 DEF Dial, ManagerFrame
<1>15. ASSUME NEW c \in Conns, OnUp(c)
      PROVE  ManagerInv'
  <2>1. /\ UNCHANGED <<wire, reading, link, finder, pc, using>>
        /\ manager = "dialed" /\ manager' = "up" /\ current' = c
        /\ link[c] \notin {"fresh", "closed"}
    BY <1>15 DEF OnUp, ManagerFrame
  <2>2. current = NoConn /\ c # NoConn
    BY <2>1
  <2>3. pc \in {"asked", "answered"} => using \in Conns
    BY DEF WorkerInv
  <2> QED
    BY <2>1, <2>2, <2>3
<1>16. CASE OnDown
  BY <1>16 DEF OnDown, ClearSessions, ManagerFrame
<1>17. ASSUME NEW s \in clearing, ClearOne(s)
      PROVE  ManagerInv'
  BY <1>17 DEF ClearOne
<1>18. CASE Drop
  BY <1>18 DEF Drop, ManagerFrame, LinkTypeOK, ManagerTypeOK, WireTypeOK
<1>19. CASE ReleaseStops
  BY <1>19 DEF ReleaseStops, ManagerFrame, LinkTypeOK, ManagerTypeOK, WireTypeOK
<1>20. CASE ReleaseClears
  BY <1>20 DEF ReleaseClears, ClearSessions, ManagerFrame
<1>21. CASE ReleaseReturns
  BY <1>21 DEF ReleaseReturns, ManagerFrame
<1>22. CASE EventWorker
  BY <1>22 DEF EventWorker, WorkerFrame
<1>23. CASE Current
  BY <1>23 DEF Current, EndRequest, AfterRequest, WorkerFrame
<1>24. CASE RequestFails
  BY <1>24 DEF RequestFails, ForceClose, EndRequest, AfterRequest, WorkerFrame
<1>25. CASE AddFromInfo
  BY <1>25 DEF AddFromInfo, NextInfo, EndRequest, AfterRequest, WorkerFrame
<1>26. CASE AddInserts
  BY <1>26 DEF AddInserts, NextInfo, EndRequest, AfterRequest, WorkerFrame
<1>27. CASE MasterSwaps
  BY <1>27 DEF MasterSwaps, WorkerFrame
<1>28. CASE ReportRemoved
  BY <1>28 DEF ReportRemoved, WorkerFrame
<1>29. CASE ReportAdded
  BY <1>29 DEF ReportAdded, NextInfo, EndRequest, AfterRequest, WorkerFrame
<1>30. CASE RemoveDeletes
  BY <1>30 DEF RemoveDeletes, Delete, WorkerFrame
<1>31. CASE UNCHANGED vars
  BY <1>31
<1> QED
  BY <1>1, <1>2, <1>3, <1>4, <1>5, <1>6, <1>7, <1>8, <1>9, <1>10, <1>11, <1>12, <1>13,
     <1>14, <1>15, <1>16, <1>17, <1>18, <1>19, <1>20, <1>21, <1>22, <1>23, <1>24, <1>25,
     <1>26, <1>27, <1>28, <1>29, <1>30, <1>31
  DEF Next, Manager, Worker, Release, ReadLoop

\* Release and the clearing of the maps.
LEMMA ReleaseKept ==
  ASSUME PulseIInv, [Next]_vars
  PROVE  ReleaseInv'
<1> USE TypeGroups
    DEF PulseIInv, ReleaseInv, ManagerInv, vars, serverVars, connVars, managerVars,
        workerVars, mapVars, historyVars
<1>1. ASSUME NEW i \in Streams, StreamAppears(i)
      PROVE  ReleaseInv'
  BY <1>1 DEF StreamAppears, Emit, ServerFrame
<1>2. ASSUME NEW i \in Streams, StreamEnds(i)
      PROVE  ReleaseInv'
  BY <1>2 DEF StreamEnds, Emit, ServerFrame
<1>3. ASSUME NEW m \in Range(Masters), NEW d \in Devices \cup {NoDevice}, DefaultChanges(m, d)
      PROVE  ReleaseInv'
  BY <1>3 DEF DefaultChanges, Emit, ServerFrame
<1>4. CASE ServerRestarts
  BY <1>4 DEF ServerRestarts
<1>5. CASE ServerAnswers
  BY <1>5 DEF ServerAnswers
<1>6. ASSUME NEW c \in Conns, TransportBreaks(c)
      PROVE  ReleaseInv'
  BY <1>6 DEF TransportBreaks, TransportFrame
<1>7. ASSUME NEW c \in Conns, ConnectionClosed(c)
      PROVE  ReleaseInv'
  BY <1>7 DEF ConnectionClosed, TransportFrame
<1>8. ASSUME NEW c \in Conns, Keepalive(c)
      PROVE  ReleaseInv'
  BY <1>8 DEF Keepalive, ForceClose, TransportFrame
<1>9. ASSUME NEW s \in mixed, SetVolume(s)
      PROVE  ReleaseInv'
  BY <1>9 DEF SetVolume, ForceClose, TransportFrame
<1>10. ASSUME NEW c \in Conns, ReadEvent(c)
      PROVE  ReleaseInv'
  BY <1>10 DEF ReadEvent
<1>11. ASSUME NEW c \in Conns, ReadReply(c)
      PROVE  ReleaseInv'
  BY <1>11 DEF ReadReply, EndRequest, AfterRequest
<1>12. ASSUME NEW c \in Conns, HandleSubscribeEvent(c)
      PROVE  ReleaseInv'
  BY <1>12 DEF HandleSubscribeEvent, DispatchWork
<1>13. CASE Start
  BY <1>13 DEF Start, ManagerFrame
<1>14. ASSUME NEW c \in Conns, Dial(c)
      PROVE  ReleaseInv'
  BY <1>14 DEF Dial, ManagerFrame
<1>15. ASSUME NEW c \in Conns, OnUp(c)
      PROVE  ReleaseInv'
  BY <1>15 DEF OnUp, DispatchWork, ManagerFrame
<1>16. CASE OnDown
  BY <1>16 DEF OnDown, ClearSessions, ManagerFrame
<1>17. ASSUME NEW s \in clearing, ClearOne(s)
      PROVE  ReleaseInv'
  BY <1>17 DEF ClearOne
<1>18. CASE Drop
  BY <1>18 DEF Drop, ManagerFrame
<1>19. CASE ReleaseStops
  BY <1>19 DEF ReleaseStops, ManagerFrame
<1>20. CASE ReleaseClears
  BY <1>20 DEF ReleaseClears, ClearSessions, ManagerFrame
<1>21. CASE ReleaseReturns
  BY <1>21 DEF ReleaseReturns, ManagerFrame
<1>22. CASE EventWorker
  BY <1>22 DEF EventWorker, WorkerFrame
<1>23. CASE Current
  BY <1>23 DEF Current, EndRequest, AfterRequest, WorkerFrame
<1>24. CASE RequestFails
  BY <1>24 DEF RequestFails, ForceClose, EndRequest, AfterRequest, WorkerFrame
<1>25. CASE AddFromInfo
  BY <1>25 DEF AddFromInfo, NextInfo, EndRequest, AfterRequest, WorkerFrame
<1>26. CASE AddInserts
  BY <1>26 DEF AddInserts, NextInfo, EndRequest, AfterRequest, WorkerFrame
<1>27. CASE MasterSwaps
  BY <1>27 DEF MasterSwaps, WorkerFrame
<1>28. CASE ReportRemoved
  BY <1>28 DEF ReportRemoved, WorkerFrame
<1>29. CASE ReportAdded
  BY <1>29 DEF ReportAdded, NextInfo, EndRequest, AfterRequest, WorkerFrame
<1>30. CASE RemoveDeletes
  BY <1>30 DEF RemoveDeletes, Delete, WorkerFrame
<1>31. CASE UNCHANGED vars
  BY <1>31
<1> QED
  BY <1>1, <1>2, <1>3, <1>4, <1>5, <1>6, <1>7, <1>8, <1>9, <1>10, <1>11, <1>12, <1>13,
     <1>14, <1>15, <1>16, <1>17, <1>18, <1>19, <1>20, <1>21, <1>22, <1>23, <1>24, <1>25,
     <1>26, <1>27, <1>28, <1>29, <1>30, <1>31
  DEF Next, Manager, Worker, Release, ReadLoop

\* A session is taken out of the maps once: by the worker or by the clearing
\* after the connection is lost, never by both.
LEMMA OneRemoverKept ==
  ASSUME PulseIInv, [Next]_vars
  PROVE  OneRemover'
<1> USE DEF PulseIInv, OneRemover, SessionsInv, ReleaseInv, vars, serverVars, connVars,
            managerVars, workerVars, mapVars, historyVars
<1>1. ASSUME NEW i \in Streams, StreamAppears(i)
      PROVE  OneRemover'
  BY <1>1 DEF StreamAppears, Emit, ServerFrame
<1>2. ASSUME NEW i \in Streams, StreamEnds(i)
      PROVE  OneRemover'
  BY <1>2 DEF StreamEnds, Emit, ServerFrame
<1>3. ASSUME NEW m \in Range(Masters), NEW d \in Devices \cup {NoDevice}, DefaultChanges(m, d)
      PROVE  OneRemover'
  BY <1>3 DEF DefaultChanges, Emit, ServerFrame
<1>4. CASE ServerRestarts
  BY <1>4 DEF ServerRestarts
<1>5. CASE ServerAnswers
  BY <1>5 DEF ServerAnswers
<1>6. ASSUME NEW c \in Conns, TransportBreaks(c)
      PROVE  OneRemover'
  BY <1>6 DEF TransportBreaks, TransportFrame
<1>7. ASSUME NEW c \in Conns, ConnectionClosed(c)
      PROVE  OneRemover'
  BY <1>7 DEF ConnectionClosed, TransportFrame
<1>8. ASSUME NEW c \in Conns, Keepalive(c)
      PROVE  OneRemover'
  BY <1>8 DEF Keepalive, ForceClose, TransportFrame
<1>9. ASSUME NEW s \in mixed, SetVolume(s)
      PROVE  OneRemover'
  BY <1>9 DEF SetVolume, ForceClose, TransportFrame
<1>10. ASSUME NEW c \in Conns, ReadEvent(c)
      PROVE  OneRemover'
  BY <1>10 DEF ReadEvent
<1>11. ASSUME NEW c \in Conns, ReadReply(c)
      PROVE  OneRemover'
  BY <1>11 DEF ReadReply, EndRequest, AfterRequest
<1>12. ASSUME NEW c \in Conns, HandleSubscribeEvent(c)
      PROVE  OneRemover'
  BY <1>12 DEF HandleSubscribeEvent, DispatchWork
<1>13. CASE Start
  BY <1>13 DEF Start, ManagerFrame
<1>14. ASSUME NEW c \in Conns, Dial(c)
      PROVE  OneRemover'
  BY <1>14 DEF Dial, ManagerFrame
<1>15. ASSUME NEW c \in Conns, OnUp(c)
      PROVE  OneRemover'
  BY <1>15 DEF OnUp, DispatchWork, ManagerFrame
<1>16. CASE OnDown
  BY <1>16 DEF OnDown, ClearSessions, ManagerFrame
<1>17. ASSUME NEW s \in clearing, ClearOne(s)
      PROVE  OneRemover'
  BY <1>17 DEF ClearOne
<1>18. CASE Drop
  BY <1>18 DEF Drop, ManagerFrame
<1>19. CASE ReleaseStops
  BY <1>19 DEF ReleaseStops, ManagerFrame
<1>20. CASE ReleaseClears
  BY <1>20 DEF ReleaseClears, ClearSessions, ManagerFrame
<1>21. CASE ReleaseReturns
  BY <1>21 DEF ReleaseReturns, ManagerFrame
<1>22. CASE EventWorker
  BY <1>22 DEF EventWorker, WorkerFrame
<1>23. CASE Current
  BY <1>23 DEF Current, EndRequest, AfterRequest, WorkerFrame
<1>24. CASE RequestFails
  BY <1>24 DEF RequestFails, ForceClose, EndRequest, AfterRequest, WorkerFrame
<1>25. CASE AddFromInfo
  BY <1>25 DEF AddFromInfo, NextInfo, EndRequest, AfterRequest, WorkerFrame
<1>26. CASE AddInserts
  <2>1. CASE Exists(Min(infos))
    BY <1>26, <2>1 DEF AddInserts, WorkerFrame
  <2>2. CASE ~Exists(Min(infos))
    <3>1. UNCHANGED <<removing, clearing>>
      BY <1>26, <2>2 DEF AddInserts, WorkerFrame
    <3>2. /\ adding' \notin held \cup clearing /\ adding'.id = Min(infos)
          /\ held' = held \cup {adding'}
      BY <1>26, <2>2, Inserted DEF Owned
    <3>3. \A s \in held : s.id # Min(infos)
      BY <2>2 DEF Exists
    <3> QED
      BY <3>1, <3>2, <3>3
  <2> QED
    BY <2>1, <2>2
<1>27. CASE MasterSwaps
  <2>1. clearing' = clearing /\ None \notin clearing
    BY <1>27, JobsOf DEF MasterSwaps, WorkerFrame, PulseTypeOK
  <2> QED
    BY <1>27, <2>1, Swapped DEF Owned
<1>28. CASE ReportRemoved
  <2>1. UNCHANGED <<held, clearing>> /\ removing' = None /\ None \notin clearing
    BY <1>28, JobsOf DEF ReportRemoved, WorkerFrame, PulseTypeOK
  <2> QED
    BY <2>1
<1>29. CASE ReportAdded
  BY <1>29 DEF ReportAdded, NextInfo, EndRequest, AfterRequest, WorkerFrame
<1>30. CASE RemoveDeletes
  BY <1>30, Deleted DEF RemoveDeletes, Delete, WorkerFrame
<1>31. CASE UNCHANGED vars
  BY <1>31
<1> QED
  BY <1>1, <1>2, <1>3, <1>4, <1>5, <1>6, <1>7, <1>8, <1>9, <1>10, <1>11, <1>12, <1>13,
     <1>14, <1>15, <1>16, <1>17, <1>18, <1>19, <1>20, <1>21, <1>22, <1>23, <1>24, <1>25,
     <1>26, <1>27, <1>28, <1>29, <1>30, <1>31
  DEF Next, Manager, Worker, Release, ReadLoop

\* The sessions stay finitely many, and the one that is being removed stays
\* out of the maps.
LEMMA SessionsKept ==
  ASSUME PulseIInv, [Next]_vars
  PROVE  SessionsInv'
<1> USE DEF PulseIInv, SessionsInv, vars, serverVars, connVars, managerVars, workerVars,
            mapVars, historyVars
<1>1. ASSUME NEW i \in Streams, StreamAppears(i)
      PROVE  SessionsInv'
  BY <1>1 DEF StreamAppears, Emit, ServerFrame
<1>2. ASSUME NEW i \in Streams, StreamEnds(i)
      PROVE  SessionsInv'
  BY <1>2 DEF StreamEnds, Emit, ServerFrame
<1>3. ASSUME NEW m \in Range(Masters), NEW d \in Devices \cup {NoDevice}, DefaultChanges(m, d)
      PROVE  SessionsInv'
  BY <1>3 DEF DefaultChanges, Emit, ServerFrame
<1>4. CASE ServerRestarts
  BY <1>4 DEF ServerRestarts
<1>5. CASE ServerAnswers
  BY <1>5 DEF ServerAnswers
<1>6. ASSUME NEW c \in Conns, TransportBreaks(c)
      PROVE  SessionsInv'
  BY <1>6 DEF TransportBreaks, TransportFrame
<1>7. ASSUME NEW c \in Conns, ConnectionClosed(c)
      PROVE  SessionsInv'
  BY <1>7 DEF ConnectionClosed, TransportFrame
<1>8. ASSUME NEW c \in Conns, Keepalive(c)
      PROVE  SessionsInv'
  BY <1>8 DEF Keepalive, ForceClose, TransportFrame
<1>9. ASSUME NEW s \in mixed, SetVolume(s)
      PROVE  SessionsInv'
  BY <1>9 DEF SetVolume, ForceClose, TransportFrame
<1>10. ASSUME NEW c \in Conns, ReadEvent(c)
      PROVE  SessionsInv'
  BY <1>10 DEF ReadEvent
<1>11. ASSUME NEW c \in Conns, ReadReply(c)
      PROVE  SessionsInv'
  BY <1>11 DEF ReadReply, EndRequest, AfterRequest
<1>12. ASSUME NEW c \in Conns, HandleSubscribeEvent(c)
      PROVE  SessionsInv'
  BY <1>12 DEF HandleSubscribeEvent, DispatchWork
<1>13. CASE Start
  BY <1>13 DEF Start, ManagerFrame
<1>14. ASSUME NEW c \in Conns, Dial(c)
      PROVE  SessionsInv'
  BY <1>14 DEF Dial, ManagerFrame
<1>15. ASSUME NEW c \in Conns, OnUp(c)
      PROVE  SessionsInv'
  BY <1>15 DEF OnUp, DispatchWork, ManagerFrame
<1>16. CASE OnDown
  BY <1>16, FS_EmptySet, FS_RemoveElement, FS_AddElement
  DEF OnDown, ClearSessions, ManagerFrame
<1>17. ASSUME NEW s \in clearing, ClearOne(s)
      PROVE  SessionsInv'
  BY <1>17, FS_EmptySet, FS_RemoveElement, FS_AddElement DEF ClearOne
<1>18. CASE Drop
  BY <1>18 DEF Drop, ManagerFrame
<1>19. CASE ReleaseStops
  BY <1>19 DEF ReleaseStops, ManagerFrame
<1>20. CASE ReleaseClears
  BY <1>20, FS_EmptySet, FS_RemoveElement, FS_AddElement
  DEF ReleaseClears, ClearSessions, ManagerFrame
<1>21. CASE ReleaseReturns
  BY <1>21 DEF ReleaseReturns, ManagerFrame
<1>22. CASE EventWorker
  BY <1>22 DEF EventWorker, WorkerFrame
<1>23. CASE Current
  BY <1>23 DEF Current, EndRequest, AfterRequest, WorkerFrame
<1>24. CASE RequestFails
  BY <1>24 DEF RequestFails, ForceClose, EndRequest, AfterRequest, WorkerFrame
<1>25. CASE AddFromInfo
  BY <1>25 DEF AddFromInfo, NextInfo, EndRequest, AfterRequest, WorkerFrame
<1>26. CASE AddInserts
  <2>1. CASE Exists(Min(infos))
    BY <1>26, <2>1 DEF AddInserts, WorkerFrame
  <2>2. CASE ~Exists(Min(infos))
    <3>1. UNCHANGED <<removing, clearing, mixed>> /\ pc = "insert"
      BY <1>26, <2>2 DEF AddInserts, WorkerFrame
    <3>2. held' = held \cup {adding'} /\ adding' # None
      BY <1>26, <2>2, Inserted, JobsOf
    <3> QED
      BY <3>1, <3>2, FS_AddElement DEF WorkerInv
  <2> QED
    BY <2>1, <2>2
<1>27. CASE MasterSwaps
  <2>1. UNCHANGED <<clearing, mixed>>
    BY <1>27 DEF MasterSwaps, WorkerFrame
  <2>2. IsFiniteSet({s \in held : s.id # Head(asks).id})
    BY FS_Subset
  <2>3. /\ held' = {s \in held : s.id # Head(asks).id} \cup {adding'} /\ adding' \notin held
        /\ adding' # None /\ None \notin held
    BY <1>27, Swapped, JobsOf DEF Owned, PulseTypeOK
  <2>4. removing' \notin held'
    BY <1>27, <2>3, Swapped
  <2> QED
    BY <2>1, <2>2, <2>3, <2>4, FS_AddElement
<1>28. CASE ReportRemoved
  <2>1. /\ UNCHANGED <<held, clearing>> /\ mixed' = mixed \ {removing} /\ removing' = None
        /\ None \notin held
    BY <1>28, JobsOf DEF ReportRemoved, WorkerFrame, PulseTypeOK
  <2> QED
    BY <2>1, FS_RemoveElement
<1>29. CASE ReportAdded
  <2>1. UNCHANGED <<held, clearing, removing>> /\ mixed' = mixed \cup {adding}
    BY <1>29 DEF ReportAdded, WorkerFrame
  <2> QED
    BY <2>1, FS_AddElement
<1>30. CASE RemoveDeletes
  <2>1. UNCHANGED <<clearing, mixed>>
    BY <1>30 DEF RemoveDeletes, WorkerFrame
  <2>2. CASE Exists(Head(asks).id)
    <3>1. removing' \notin held' /\ held' = held \ {removing'}
      BY <1>30, <2>2, Deleted DEF RemoveDeletes
    <3> QED
      BY <2>1, <3>1, FS_RemoveElement
  <2>3. CASE ~Exists(Head(asks).id)
    BY <1>30, <2>1, <2>3 DEF RemoveDeletes
  <2> QED
    BY <2>2, <2>3
<1>31. CASE UNCHANGED vars
  BY <1>31
<1> QED
  BY <1>1, <1>2, <1>3, <1>4, <1>5, <1>6, <1>7, <1>8, <1>9, <1>10, <1>11, <1>12, <1>13,
     <1>14, <1>15, <1>16, <1>17, <1>18, <1>19, <1>20, <1>21, <1>22, <1>23, <1>24, <1>25,
     <1>26, <1>27, <1>28, <1>29, <1>30, <1>31
  DEF Next, Manager, Worker, Release, ReadLoop

\* Every open connection is told of an event.
LEMMA Emitted ==
  ASSUME PulseTypeOK, NEW e \in Jobs, Emit(e)
  PROVE  \A c \in Conns : /\ link[c] = "open" => Range(wire'[c]) = Range(wire[c]) \cup {e}
                          /\ link[c] # "open" => wire'[c] = wire[c]
<1>1. wire' = [c \in Conns |-> IF link[c] = "open" THEN Append(wire[c], e) ELSE wire[c]]
  BY DEF Emit
<1>2. \A c \in Conns : Range(Append(wire[c], e)) = Range(wire[c]) \cup {e}
  BY Wires
<1> QED
  BY <1>1, <1>2

\* The read loop loses no event, and makes none up.
LEMMA Read ==
  ASSUME PulseTypeOK, NEW c \in Conns, ReadEvent(c) \/ ReadReply(c)
  PROVE  \A d \in Conns : \A job \in Jobs : job \in Told(d)' <=> job \in Told(d)
<1>1. wire[c] # <<>> /\ reading[c] = None /\ wire' = [wire EXCEPT ![c] = Tail(@)]
  BY DEF ReadEvent, ReadReply
<1>2. Range(wire[c]) = {Head(wire[c])} \cup Range(wire'[c])
  BY <1>1, Wires DEF PulseTypeOK
<1>3. CASE ReadEvent(c)
  <2>1. reading' = [reading EXCEPT ![c] = Head(wire[c])]
    BY <1>3 DEF ReadEvent
  <2> QED
    BY <1>1, <1>2, <2>1, JobsOf DEF Told, PulseTypeOK
<1>4. CASE ReadReply(c)
  <2>1. reading' = reading /\ Head(wire[c]) \notin Jobs
    BY <1>4 DEF ReadReply, Jobs, Job
  <2> QED
    BY <1>1, <1>2, <2>1 DEF Told, PulseTypeOK
<1> QED
  BY <1>3, <1>4

\* The event the read loop holds becomes a job.
LEMMA Handled ==
  ASSUME PulseTypeOK, NEW c \in Conns, HandleSubscribeEvent(c)
  PROVE  /\ reading[c] \in Jobs
         /\ \A d \in Conns : \A job \in Jobs :
              /\ job \in Told(d)' => job \in Told(d)
              /\ job \in Told(d) => job \in Told(d)' \/ job = reading[c]
         /\ ~missed' => /\ ~missed /\ workChan' = Append(workChan, reading[c])
                        /\ Range(workChan') = Range(workChan) \cup {reading[c]}
<1>1. /\ reading[c] \in Jobs /\ wire' = wire /\ reading' = [reading EXCEPT ![c] = None]
      /\ DispatchWork(reading[c])
  BY DEF HandleSubscribeEvent, PulseTypeOK
<1>2. \A d \in Conns : \A job \in Jobs :
        /\ job \in Told(d)' => job \in Told(d)
        /\ job \in Told(d) => job \in Told(d)' \/ job = reading[c]
  <2> SUFFICES ASSUME NEW d \in Conns, NEW job \in Jobs
               PROVE  /\ job \in Told(d)' => job \in Told(d)
                      /\ job \in Told(d) => job \in Told(d)' \/ job = reading[c]
    OBVIOUS
  <2>1. reading'[d] = IF d = c THEN None ELSE reading[d]
    BY <1>1 DEF PulseTypeOK
  <2> QED
    BY <1>1, <2>1, JobsOf DEF Told
<1> QED
  BY <1>1, <1>2, Dispatched

\* A new connection has nothing on its way.
LEMMA NothingOnTheWire == Range(<<>>) = {}
BY DEF Range

\* An open connection never tells of the end of a stream that plays.
LEMMA WireKept ==
  ASSUME PulseIInv, [Next]_vars
  PROVE  WireInv'
<1> USE TypeGroups
    DEF PulseIInv, WireInv, LinkTypeOK, vars, serverVars, connVars, managerVars, workerVars,
        mapVars, historyVars
<1>1. ASSUME NEW i \in Streams, StreamAppears(i)
      PROVE  WireInv'
  <2>1. /\ i \notin used /\ streams' = streams \cup {i} /\ used' = used \cup {i}
        /\ reading' = reading /\ link' = link
        /\ Emit(Job("new", i))
    BY <1>1 DEF StreamAppears, ServerFrame
  <2>2. \A d \in Conns : link[d] = "open" => Told(d)' = Told(d) \cup {Job("new", i)}
    BY <2>1, Emitted, JobsOf DEF Told
  <2>3. \A j \in Streams : Job("remove", j) # Job("new", i)
    BY DEF Job
  <2> QED
    BY <2>1, <2>2, <2>3
<1>2. ASSUME NEW i \in Streams, StreamEnds(i)
      PROVE  WireInv'
  <2>1. /\ i \in streams /\ streams' = streams \ {i} /\ used' = used
        /\ reading' = reading /\ link' = link
        /\ Emit(Job("remove", i))
    BY <1>2 DEF StreamEnds, ServerFrame
  <2>2. \A d \in Conns : link[d] = "open" => Told(d)' = Told(d) \cup {Job("remove", i)}
    BY <2>1, Emitted, JobsOf DEF Told
  <2>3. \A j \in Streams : Job("remove", j) = Job("remove", i) => j = i
    BY DEF Job
  <2>4. i \in used
    BY <2>1 DEF ServerTypeOK
  <2> QED
    BY <2>1, <2>2, <2>3, <2>4
<1>3. ASSUME NEW m \in Range(Masters), NEW d \in Devices \cup {NoDevice}, DefaultChanges(m, d)
      PROVE  WireInv'
  <2>1. /\ UNCHANGED <<streams, used, reading, link>>
        /\ Emit(Job("master", None))
    BY <1>3 DEF DefaultChanges, ServerFrame
  <2>2. \A c \in Conns : link[c] = "open" => Told(c)' = Told(c) \cup {Job("master", None)}
    BY <2>1, Emitted, JobsOf DEF Told
  <2>3. \A j \in Streams : Job("remove", j) # Job("master", None)
    BY DEF Job
  <2> QED
    BY <2>1, <2>2, <2>3
<1>4. CASE ServerRestarts
  BY <1>4 DEF ServerRestarts, Told
<1>5. CASE ServerAnswers
  <2>1. /\ UNCHANGED <<streams, used, reading, link>> /\ link[using] = "open" /\ using \in Conns
        /\ wire' = [wire EXCEPT ![using] = Append(wire[using], Job("reply", None))]
    BY <1>5 DEF ServerAnswers, WorkerInv
  <2>2. Range(wire'[using]) = Range(wire[using]) \cup {Job("reply", None)}
    BY <2>1, Wires DEF WireTypeOK
  <2>3. \A j \in Streams : Job("remove", j) # Job("reply", None)
    BY DEF Job
  <2> QED
    BY <2>1, <2>2, <2>3 DEF Told, WireTypeOK
<1>6. ASSUME NEW c \in Conns, TransportBreaks(c)
      PROVE  WireInv'
  BY <1>6 DEF TransportBreaks, TransportFrame, Told, WireTypeOK
<1>7. ASSUME NEW c \in Conns, ConnectionClosed(c)
      PROVE  WireInv'
  BY <1>7 DEF ConnectionClosed, TransportFrame, Told, WireTypeOK
<1>8. ASSUME NEW c \in Conns, Keepalive(c)
      PROVE  WireInv'
  BY <1>8 DEF Keepalive, ForceClose, TransportFrame, Told
<1>9. ASSUME NEW s \in mixed, SetVolume(s)
      PROVE  WireInv'
  BY <1>9 DEF SetVolume, ForceClose, TransportFrame, Told
<1>10. ASSUME NEW c \in Conns, ReadEvent(c)
      PROVE  WireInv'
  <2>1. UNCHANGED <<streams, used, link>>
    BY <1>10 DEF ReadEvent
  <2> QED
    BY <1>10, <2>1, Read, JobsOf
<1>11. ASSUME NEW c \in Conns, ReadReply(c)
      PROVE  WireInv'
  <2>1. UNCHANGED <<streams, used, link>>
    BY <1>11 DEF ReadReply
  <2> QED
    BY <1>11, <2>1, Read, JobsOf
<1>12. ASSUME NEW c \in Conns, HandleSubscribeEvent(c)
      PROVE  WireInv'
  <2>1. UNCHANGED <<streams, used, link>>
    BY <1>12 DEF HandleSubscribeEvent
  <2> QED
    BY <1>12, <2>1, Handled, JobsOf
<1>13. CASE Start
  BY <1>13 DEF Start, ManagerFrame, Told
<1>14. ASSUME NEW c \in Conns, Dial(c)
      PROVE  WireInv'
  <2>1. /\ UNCHANGED <<streams, used, wire, reading>> /\ link' = [link EXCEPT ![c] = "open"]
        /\ link[c] = "fresh"
    BY <1>14 DEF Dial, ManagerFrame
  <2>2. Told(c)' = {None}
    BY <2>1, NothingOnTheWire DEF Told, ManagerInv
  <2> QED
    BY <2>1, <2>2, JobsOf DEF Told
<1>15. ASSUME NEW c \in Conns, OnUp(c)
      PROVE  WireInv'
  BY <1>15 DEF OnUp, DispatchWork, ManagerFrame, Told
<1>16. CASE OnDown
  BY <1>16 DEF OnDown, ClearSessions, ManagerFrame, Told
<1>17. ASSUME NEW s \in clearing, ClearOne(s)
      PROVE  WireInv'
  BY <1>17 DEF ClearOne, Told
<1>18. CASE Drop
  BY <1>18 DEF Drop, ManagerFrame, Told
<1>19. CASE ReleaseStops
  BY <1>19 DEF ReleaseStops, ManagerFrame, Told
<1>20. CASE ReleaseClears
  BY <1>20 DEF ReleaseClears, ClearSessions, ManagerFrame, Told
<1>21. CASE ReleaseReturns
  BY <1>21 DEF ReleaseReturns, ManagerFrame, Told
<1>22. CASE EventWorker
  BY <1>22 DEF EventWorker, WorkerFrame, Told
<1>23. CASE Current
  BY <1>23 DEF Current, EndRequest, AfterRequest, WorkerFrame, Told
<1>24. CASE RequestFails
  BY <1>24 DEF RequestFails, ForceClose, EndRequest, AfterRequest, WorkerFrame, Told
<1>25. CASE AddFromInfo
  BY <1>25 DEF AddFromInfo, NextInfo, EndRequest, AfterRequest, WorkerFrame, Told
<1>26. CASE AddInserts
  BY <1>26 DEF AddInserts, NextInfo, EndRequest, AfterRequest, WorkerFrame, Told
<1>27. CASE MasterSwaps
  BY <1>27 DEF MasterSwaps, WorkerFrame, Told
<1>28. CASE ReportRemoved
  BY <1>28 DEF ReportRemoved, WorkerFrame, Told
<1>29. CASE ReportAdded
  BY <1>29 DEF ReportAdded, NextInfo, EndRequest, AfterRequest, WorkerFrame, Told
<1>30. CASE RemoveDeletes
  BY <1>30 DEF RemoveDeletes, Delete, WorkerFrame, Told
<1>31. CASE UNCHANGED vars
  BY <1>31 DEF Told
<1> QED
  BY <1>1, <1>2, <1>3, <1>4, <1>5, <1>6, <1>7, <1>8, <1>9, <1>10, <1>11, <1>12, <1>13,
     <1>14, <1>15, <1>16, <1>17, <1>18, <1>19, <1>20, <1>21, <1>22, <1>23, <1>24, <1>25,
     <1>26, <1>27, <1>28, <1>29, <1>30, <1>31
  DEF Next, Manager, Worker, Release, ReadLoop

\* Unless a job was overtaken by a clearing, the handler is told of what the
\* maps hold, step by step.
LEMMA MixedKept ==
  ASSUME PulseIInv, [Next]_vars
  PROVE  MixedInv'
<1> USE TypeGroups
    DEF PulseIInv, MixedInv, ManagerTypeOK, vars, serverVars, connVars, managerVars,
        workerVars, mapVars, historyVars
<1>1. ASSUME NEW i \in Streams, StreamAppears(i)
      PROVE  MixedInv'
  BY <1>1 DEF StreamAppears, Emit, ServerFrame
<1>2. ASSUME NEW i \in Streams, StreamEnds(i)
      PROVE  MixedInv'
  BY <1>2 DEF StreamEnds, Emit, ServerFrame
<1>3. ASSUME NEW m \in Range(Masters), NEW d \in Devices \cup {NoDevice}, DefaultChanges(m, d)
      PROVE  MixedInv'
  BY <1>3 DEF DefaultChanges, Emit, ServerFrame
<1>4. CASE ServerRestarts
  BY <1>4 DEF ServerRestarts
<1>5. CASE ServerAnswers
  <2>1. /\ pc = "asked" /\ link[using] = "open" /\ manager' = manager
        /\ UNCHANGED <<overtaken, mixed, held, adding, removing, clearing>>
    BY <1>5 DEF ServerAnswers
  <2>2. using = current /\ using # NoConn
    BY <2>1, PulseAssumption DEF ManagerInv, WorkerInv
  <2>3. manager = "up"
    BY <2>1, <2>2 DEF ManagerInv
  <2> QED
    BY <2>1, <2>3
<1>6. ASSUME NEW c \in Conns, TransportBreaks(c)
      PROVE  MixedInv'
  BY <1>6 DEF TransportBreaks, TransportFrame
<1>7. ASSUME NEW c \in Conns, ConnectionClosed(c)
      PROVE  MixedInv'
  BY <1>7 DEF ConnectionClosed, TransportFrame
<1>8. ASSUME NEW c \in Conns, Keepalive(c)
      PROVE  MixedInv'
  BY <1>8 DEF Keepalive, ForceClose, TransportFrame
<1>9. ASSUME NEW s \in mixed, SetVolume(s)
      PROVE  MixedInv'
  BY <1>9 DEF SetVolume, ForceClose, TransportFrame
<1>10. ASSUME NEW c \in Conns, ReadEvent(c)
      PROVE  MixedInv'
  BY <1>10 DEF ReadEvent
<1>11. ASSUME NEW c \in Conns, ReadReply(c)
      PROVE  MixedInv'
  BY <1>11, Queues, RequestEnded DEF ReadReply, EndRequest, AfterRequest
<1>12. ASSUME NEW c \in Conns, HandleSubscribeEvent(c)
      PROVE  MixedInv'
  BY <1>12 DEF HandleSubscribeEvent, DispatchWork
<1>13. CASE Start
  BY <1>13 DEF Start, ManagerFrame
<1>14. ASSUME NEW c \in Conns, Dial(c)
      PROVE  MixedInv'
  BY <1>14 DEF Dial, ManagerFrame, ManagerInv
<1>15. ASSUME NEW c \in Conns, OnUp(c)
      PROVE  MixedInv'
  BY <1>15 DEF OnUp, DispatchWork, ManagerFrame, WorkerInv
<1>16. CASE OnDown
  BY <1>16 DEF OnDown, ClearSessions, ManagerFrame, WorkerInv, ReleaseInv, ManagerInv
<1>17. ASSUME NEW s \in clearing, ClearOne(s)
      PROVE  MixedInv'
  BY <1>17 DEF ClearOne, OneRemover, ReleaseInv, SessionsInv
<1>18. CASE Drop
  BY <1>18 DEF Drop, ManagerFrame, ReleaseInv
<1>19. CASE ReleaseStops
  BY <1>19 DEF ReleaseStops, ManagerFrame, ReleaseInv
<1>20. CASE ReleaseClears
  <2>1. /\ finder = "draining" /\ pc = "exited" /\ clearing' = held /\ held' = {}
        /\ UNCHANGED <<overtaken, mixed, adding, removing, manager>>
    BY <1>20 DEF ReleaseClears, ClearSessions, ManagerFrame
  <2>2. adding = None /\ removing = None /\ None \notin held
    BY <2>1, JobsOf DEF WorkerInv, SessionTypeOK
  <2>3. manager = "stopped" /\ clearing = {}
    BY <2>1 DEF ManagerInv, ReleaseInv
  <2> QED
    BY <2>1, <2>2, <2>3
<1>21. CASE ReleaseReturns
  BY <1>21 DEF ReleaseReturns, ManagerFrame
<1>22. CASE EventWorker
  BY <1>22 DEF EventWorker, WorkerFrame, ReleaseInv, ManagerInv
<1>23. CASE Current
  BY <1>23 DEF Current, EndRequest, AfterRequest, WorkerFrame
<1>24. CASE RequestFails
  BY <1>24 DEF RequestFails, ForceClose, EndRequest, AfterRequest, WorkerFrame
<1>25. CASE AddFromInfo
  BY <1>25 DEF AddFromInfo, NextInfo, EndRequest, AfterRequest, WorkerFrame
<1>26. CASE AddInserts
  <2>1. CASE Exists(Min(infos))
    <3>1. /\ pc = "insert" /\ NextInfo /\ infos # {} /\ asks # <<>>
          /\ UNCHANGED <<overtaken, mixed, held, adding, removing, clearing, manager>>
      BY <1>26, <2>1 DEF AddInserts, WorkerFrame, WorkerInv
    <3> QED
      BY <3>1
  <2>2. CASE ~Exists(Min(infos))
    <3>1. /\ pc = "insert" /\ UNCHANGED <<overtaken, mixed, removing, clearing, manager>>
      BY <1>26, <2>2 DEF AddInserts, WorkerFrame
    <3>2. /\ adding' # None /\ adding' \notin held \cup clearing \cup mixed
          /\ held' = held \cup {adding'}
      BY <1>26, <2>2, Inserted, JobsOf DEF Owned
    <3>3. adding = None /\ None \notin held
      BY <3>1, JobsOf DEF WorkerInv, SessionTypeOK
    <3> QED
      BY <3>1, <3>2, <3>3
  <2> QED
    BY <2>1, <2>2
<1>27. CASE MasterSwaps
  <2>1. pc = "insert" /\ UNCHANGED <<overtaken, mixed, clearing, manager>>
    BY <1>27 DEF MasterSwaps, WorkerFrame
  <2>2. adding = None /\ removing = None /\ None \notin held
    BY <2>1, JobsOf DEF WorkerInv, SessionTypeOK
  <2>3. /\ adding' # None /\ adding' \notin held \cup clearing \cup mixed
        /\ held' = {s \in held : s.id # Head(asks).id} \cup {adding'}
        /\ \/ removing' = None /\ \A s \in held : s.id # Head(asks).id
           \/ removing' \in held /\ removing'.id = Head(asks).id
    BY <1>27, Swapped, JobsOf DEF Owned
  <2>4. held = {s \in held : s.id # Head(asks).id} \cup ({removing'} \ {None})
    <3>1. CASE removing' = None /\ \A s \in held : s.id # Head(asks).id
      BY <3>1
    <3>2. CASE removing' \in held /\ removing'.id = Head(asks).id
      BY <2>2, <3>2 DEF OneRemover
    <3> QED
      BY <2>3, <3>1, <3>2
  <2> QED
    BY <2>1, <2>2, <2>3, <2>4
<1>28. CASE ReportRemoved
  BY <1>28, JobsOf DEF ReportRemoved, WorkerFrame, OneRemover, SessionsInv, SessionTypeOK
<1>29. CASE ReportAdded
  <2>1. /\ pc = "report" /\ mixed' = mixed \cup {adding} /\ adding' = None /\ removing = None
        /\ UNCHANGED <<overtaken, held, removing, clearing, manager>>
    BY <1>29 DEF ReportAdded, WorkerFrame
  <2>2. adding # None /\ None \notin held
    BY <2>1, JobsOf DEF WorkerInv, SessionTypeOK
  <2>3. ~overtaken => manager \notin {"down", "dialed", "clearing"}
    BY <2>1
  <2> QED
    BY <2>1, <2>2, <2>3
<1>30. CASE RemoveDeletes
  BY <1>30, Deleted, JobsOf
  DEF RemoveDeletes, Delete, WorkerFrame, SessionTypeOK, WorkerInv, Exists
<1>31. CASE UNCHANGED vars
  BY <1>31
<1> QED
  BY <1>1, <1>2, <1>3, <1>4, <1>5, <1>6, <1>7, <1>8, <1>9, <1>10, <1>11, <1>12, <1>13,
     <1>14, <1>15, <1>16, <1>17, <1>18, <1>19, <1>20, <1>21, <1>22, <1>23, <1>24, <1>25,
     <1>26, <1>27, <1>28, <1>29, <1>30, <1>31
  DEF Next, Manager, Worker, Release, ReadLoop

-----------------------------------------------------------------------------
(* While nothing is lost.                                                   *)

\* A connection is followed from its OnUp.  The maps are empty then, and the
\* first enumeration is queued.
LEMMA FollowingBegins ==
  ASSUME PulseIInv, [Next]_vars, ~Following, Following'
  PROVE  /\ workChan' = Append(workChan, Sync) /\ SyncIsQueued'
         /\ held' = {} /\ infos' = {} /\ pc' \in {"idle", "delete", "look", "asked"}
         /\ UNCHANGED <<asks, pc, streams, used>>
<1>1. PICK c \in Conns : OnUp(c)
  <2> SUFFICES ASSUME \A c \in Conns : ~OnUp(c) PROVE FALSE
    OBVIOUS
  <2> USE TypeGroups DEF PulseIInv, ManagerTypeOK, LinkTypeOK, Following, vars, serverVars,
            connVars, managerVars, workerVars, mapVars, historyVars
  <2>1. ASSUME NEW i \in Streams, StreamAppears(i)
        PROVE  FALSE
    BY <2>1 DEF StreamAppears, Emit, ServerFrame, Following
  <2>2. ASSUME NEW i \in Streams, StreamEnds(i)
        PROVE  FALSE
    BY <2>2 DEF StreamEnds, Emit, ServerFrame, Following
  <2>3. ASSUME NEW m \in Range(Masters), NEW d \in Devices \cup {NoDevice}, DefaultChanges(m, d)
        PROVE  FALSE
    BY <2>3 DEF DefaultChanges, Emit, ServerFrame, Following
  <2>4. CASE ServerRestarts
    BY <2>4 DEF ServerRestarts, Following, ManagerInv
  <2>5. CASE ServerAnswers
    BY <2>5 DEF ServerAnswers, Following
  <2>6. ASSUME NEW c \in Conns, TransportBreaks(c)
        PROVE  FALSE
    BY <2>6 DEF TransportBreaks, TransportFrame, Following
  <2>7. ASSUME NEW c \in Conns, ConnectionClosed(c)
        PROVE  FALSE
    BY <2>7 DEF ConnectionClosed, TransportFrame, Following
  <2>8. ASSUME NEW c \in Conns, Keepalive(c)
        PROVE  FALSE
    BY <2>8 DEF Keepalive, ForceClose, TransportFrame, Following
  <2>9. ASSUME NEW s \in mixed, SetVolume(s)
        PROVE  FALSE
    BY <2>9 DEF SetVolume, ForceClose, TransportFrame, Following
  <2>10. ASSUME NEW c \in Conns, ReadEvent(c)
        PROVE  FALSE
    BY <2>10 DEF ReadEvent, Following
  <2>11. ASSUME NEW c \in Conns, ReadReply(c)
        PROVE  FALSE
    BY <2>11 DEF ReadReply, EndRequest, AfterRequest, Following
  <2>12. ASSUME NEW c \in Conns, HandleSubscribeEvent(c)
        PROVE  FALSE
    BY <2>12 DEF HandleSubscribeEvent, DispatchWork, Following
  <2>13. CASE Start
    BY <2>13 DEF Start, ManagerFrame, Following
  <2>14. ASSUME NEW c \in Conns, Dial(c)
        PROVE  FALSE
    BY <2>14 DEF Dial, ManagerFrame, Following
  <2>15. ASSUME NEW c \in Conns, OnUp(c)
        PROVE  FALSE
    BY <2>15 
  <2>16. CASE OnDown
    BY <2>16 DEF OnDown, ClearSessions, ManagerFrame, Following
  <2>17. ASSUME NEW s \in clearing, ClearOne(s)
        PROVE  FALSE
    BY <2>17 DEF ClearOne, Following
  <2>18. CASE Drop
    BY <2>18 DEF Drop, ManagerFrame, Following
  <2>19. CASE ReleaseStops
    BY <2>19 DEF ReleaseStops, ManagerFrame, Following
  <2>20. CASE ReleaseClears
    BY <2>20 DEF ReleaseClears, ClearSessions, ManagerFrame, Following
  <2>21. CASE ReleaseReturns
    BY <2>21 DEF ReleaseReturns, ManagerFrame, Following
  <2>22. CASE EventWorker
    BY <2>22 DEF EventWorker, WorkerFrame, Following
  <2>23. CASE Current
    BY <2>23 DEF Current, EndRequest, AfterRequest, WorkerFrame, Following
  <2>24. CASE RequestFails
    BY <2>24 DEF RequestFails, ForceClose, EndRequest, AfterRequest, WorkerFrame, Following
  <2>25. CASE AddFromInfo
    BY <2>25 DEF AddFromInfo, NextInfo, EndRequest, AfterRequest, WorkerFrame, Following
  <2>26. CASE AddInserts
    BY <2>26 DEF AddInserts, NextInfo, EndRequest, AfterRequest, WorkerFrame, Following
  <2>27. CASE MasterSwaps
    BY <2>27 DEF MasterSwaps, WorkerFrame, Following
  <2>28. CASE ReportRemoved
    BY <2>28 DEF ReportRemoved, WorkerFrame, Following
  <2>29. CASE ReportAdded
    BY <2>29 DEF ReportAdded, NextInfo, EndRequest, AfterRequest, WorkerFrame, Following
  <2>30. CASE RemoveDeletes
    BY <2>30 DEF RemoveDeletes, Delete, WorkerFrame, Following
  <2>31. CASE UNCHANGED vars
    BY <2>31
  <2> QED
    BY <2>1, <2>2, <2>3, <2>4, <2>5, <2>6, <2>7, <2>8, <2>9, <2>10, <2>11, <2>12, <2>13,
       <2>14, <2>15, <2>16, <2>17, <2>18, <2>19, <2>20, <2>21, <2>22, <2>23, <2>24, <2>25,
       <2>26, <2>27, <2>28, <2>29, <2>30, <2>31
    DEF Next, Manager, Worker, Release, ReadLoop
<1>2. /\ manager = "dialed" /\ DispatchWork(Sync) /\ ~missed' /\ ~overtaken
      /\ UNCHANGED <<held, infos, pc, asks, streams, used>>
  BY <1>1 DEF OnUp, ManagerFrame, Following, Sync, workerVars, serverVars
<1>3. workChan' = Append(workChan, Sync) /\ Range(workChan') = Range(workChan) \cup {Sync}
  BY <1>2, Dispatched, JobsOf DEF PulseIInv, Sync
<1>4. held = {} /\ pc \in {"idle", "delete", "look", "asked"}
  BY <1>2 DEF PulseIInv, MixedInv
<1>5. infos = {}
  BY <1>4 DEF PulseIInv, WorkerInv
<1> QED
  BY <1>2, <1>3, <1>4, <1>5 DEF SyncIsQueued, Sync

\* What can happen to a connection that is followed still.
LEMMA StepsWhileFollowing ==
  ASSUME PulseIInv, [Next]_vars, Following, Following'
  PROVE  /\ current' = current /\ current \in Conns
         /\ \/ UNCHANGED <<streams, used, default, held, infos, asks, pc, using>>
            \/ \E i \in Streams : StreamAppears(i) \/ StreamEnds(i)
            \/ \E m \in Range(Masters), d \in Devices \cup {NoDevice} : DefaultChanges(m, d)
            \/ ServerAnswers \/ \E c \in Conns : ReadReply(c)
            \/ Worker
<1> USE TypeGroups DEF PulseIInv, ManagerTypeOK, LinkTypeOK, Following, vars, serverVars,
                       connVars, managerVars, workerVars, mapVars, historyVars
<1>1. current \in Conns /\ manager = "up" /\ manager' = "up"
  BY DEF ManagerInv
<1> DEFINE Kept == UNCHANGED <<streams, used, default, held, infos, asks, pc, using>>
<1>2. ASSUME NEW i \in Streams, StreamAppears(i) \/ StreamEnds(i)
      PROVE  current' = current
  BY <1>2 DEF StreamAppears, StreamEnds, ServerFrame
<1>3. ASSUME NEW m \in Range(Masters), NEW d \in Devices \cup {NoDevice}, DefaultChanges(m, d)
      PROVE  current' = current
  BY <1>3 DEF DefaultChanges, ServerFrame
<1>4. ~ServerRestarts
  BY <1>1 DEF ServerRestarts
<1>5. ASSUME ServerAnswers
      PROVE  current' = current
  BY <1>5 DEF ServerAnswers
<1>6. ASSUME NEW c \in Conns,
             TransportBreaks(c) \/ ConnectionClosed(c) \/ Keepalive(c)
      PROVE  current' = current /\ Kept
  BY <1>6 DEF TransportBreaks, ConnectionClosed, Keepalive, TransportFrame
<1>7. ASSUME NEW c \in Conns, ReadEvent(c) \/ HandleSubscribeEvent(c)
      PROVE  current' = current /\ Kept
  BY <1>7 DEF ReadEvent, HandleSubscribeEvent
<1>8. ASSUME NEW c \in Conns, ReadReply(c)
      PROVE  current' = current
  BY <1>8 DEF ReadReply
<1>9. ASSUME NEW s \in mixed, SetVolume(s)
      PROVE  current' = current /\ Kept
  BY <1>9 DEF SetVolume, TransportFrame
<1>10. ASSUME Start
       PROVE  current' = current /\ Kept
  BY <1>10 DEF Start, ManagerFrame
<1>11. ~ReleaseStops
  BY <1>1 DEF ReleaseStops
<1>12. ~OnDown /\ ~Drop
  BY <1>1 DEF OnDown, Drop
<1>13. ASSUME NEW c \in Conns, Dial(c) \/ OnUp(c)
       PROVE  FALSE
  BY <1>1, <1>13 DEF Dial, OnUp
<1>14. ASSUME NEW s \in clearing, ClearOne(s)
       PROVE  current' = current /\ Kept
  BY <1>14 DEF ClearOne
<1>15. ~ReleaseClears /\ ~ReleaseReturns
  BY <1>1 DEF ReleaseClears, ReleaseReturns, ManagerInv
<1>16. ASSUME Worker
       PROVE  current' = current
  <2>1. UNCHANGED managerVars
    BY <1>16 DEF Worker, EventWorker, Current, RequestFails, AddFromInfo, AddInserts,
                 MasterSwaps, ReportRemoved, ReportAdded, RemoveDeletes, WorkerFrame
  <2> QED
    BY <2>1
<1>17. ASSUME UNCHANGED vars
       PROVE  current' = current /\ Kept
  BY <1>17
<1> HIDE DEF Kept
<1>18. current' = current
  BY <1>2, <1>3, <1>4, <1>5, <1>6, <1>7, <1>8, <1>9, <1>10, <1>11, <1>12, <1>13, <1>14, <1>15,
     <1>16, <1>17 DEF Next, Manager, Release, ReadLoop
<1>19. \/ Kept
       \/ \E i \in Streams : StreamAppears(i) \/ StreamEnds(i)
       \/ \E m \in Range(Masters), d \in Devices \cup {NoDevice} : DefaultChanges(m, d)
       \/ ServerAnswers \/ \E c \in Conns : ReadReply(c)
       \/ Worker
  BY <1>4, <1>6, <1>7, <1>9, <1>10, <1>11, <1>12, <1>13, <1>14, <1>15, <1>17
  DEF Next, Manager, Release, ReadLoop
<1> QED
  BY <1>1, <1>18, <1>19 DEF Kept

\* The worker takes a job.
Taken(job) ==
  /\ pc = "idle" /\ workChan # <<>> /\ job = Head(workChan)
  /\ workChan' = Tail(workChan) /\ asks' = RequestsOf(job)
  /\ pc' = IF job.op = "remove" THEN "delete" ELSE "look"
  /\ UNCHANGED <<using, infos, adding, removing, held>>

\* A notice that is on its way, or queued, stays so until the worker takes
\* its job.
LEMMA ComingKept ==
  ASSUME PulseIInv, [Next]_vars, Following, Following', NEW job \in Jobs
  PROVE  /\ Coming(job) => Coming(job)' \/ Taken(job)
         /\ job \in Range(workChan) => job \in Range(workChan') \/ Taken(job)
<1>1. current' = current /\ current \in Conns /\ link[current] = "open" /\ link'[current] = "open"
      /\ ~missed' /\ PulseTypeOK
  BY StepsWhileFollowing DEF Following, PulseIInv
<1> DEFINE Goal == /\ Coming(job) => Coming(job)' \/ Taken(job)
                   /\ job \in Range(workChan) => job \in Range(workChan') \/ Taken(job)
<1>2. ASSUME job \in Told(current) => job \in Told(current)', workChan' = workChan
      PROVE  Goal
  BY <1>1, <1>2 DEF Coming, Told
<1>3. ASSUME NEW e \in Jobs, Emit(e), workChan' = workChan, reading' = reading
      PROVE  Goal
  <2>1. job \in Told(current) => job \in Told(current)'
    BY <1>1, <1>3, Emitted DEF Told
  <2> QED
    BY <1>2, <1>3, <2>1
<1>4. ASSUME UNCHANGED <<wire, reading, workChan>>
      PROVE  Goal
  BY <1>1, <1>2, <1>4 DEF Told
<1> SUFFICES Goal
  OBVIOUS
<1> HIDE DEF Goal
<1>5. ASSUME NEW i \in Streams, StreamAppears(i) \/ StreamEnds(i)
      PROVE  Goal
  <2>1. (Emit(Job("new", i)) \/ Emit(Job("remove", i))) /\ UNCHANGED <<workChan, reading>>
    BY <1>5 DEF StreamAppears, StreamEnds, ServerFrame
  <2> QED
    BY <1>3, <2>1, JobsOf
<1>6. ASSUME NEW m \in Range(Masters), NEW d \in Devices \cup {NoDevice}, DefaultChanges(m, d)
      PROVE  Goal
  <2>1. Emit(Job("master", None)) /\ UNCHANGED <<workChan, reading>>
    BY <1>6 DEF DefaultChanges, ServerFrame
  <2> QED
    BY <1>3, <2>1, JobsOf
<1>7. CASE ServerAnswers
  <2>1. UNCHANGED <<workChan, reading>> /\ pc = "asked"
        /\ wire' = [wire EXCEPT ![using] = Append(wire[using], Job("reply", None))]
    BY <1>7 DEF ServerAnswers
  <2>2. using \in Conns
    BY <2>1 DEF PulseIInv, WorkerInv
  <2>3. Range(wire'[using]) = Range(wire[using]) \cup {Job("reply", None)}
    BY <1>1, <2>1, <2>2, Wires DEF PulseTypeOK
  <2>4. job \in Told(current) => job \in Told(current)'
    BY <1>1, <2>1, <2>2, <2>3 DEF Told, PulseTypeOK
  <2> QED
    BY <1>2, <2>1, <2>4
<1>8. ASSUME NEW c \in Conns, TransportBreaks(c) \/ ConnectionClosed(c) \/ Keepalive(c)
      PROVE  Goal
  <2>1. /\ UNCHANGED <<workChan, reading>>
        /\ c # current => wire'[current] = wire[current]
        /\ ~(link'[c] # "open")  => wire'[c] = wire[c]
    BY <1>1, <1>8 DEF TransportBreaks, ConnectionClosed, Keepalive, TransportFrame, PulseTypeOK
  <2>2. wire'[current] = wire[current]
    BY <1>1, <2>1
  <2> QED
    BY <1>1, <1>2, <2>1, <2>2 DEF Told
<1>9. ASSUME NEW s \in mixed, SetVolume(s)
      PROVE  Goal
  BY <1>4, <1>9 DEF SetVolume, TransportFrame
<1>10. ASSUME NEW c \in Conns, ReadEvent(c) \/ ReadReply(c)
       PROVE  Goal
  <2>1. workChan' = workChan
    BY <1>10 DEF ReadEvent, ReadReply
  <2> QED
    BY <1>1, <1>2, <1>10, <2>1, Read
<1>11. ASSUME NEW c \in Conns, HandleSubscribeEvent(c)
       PROVE  Goal
  BY <1>1, <1>11, Handled DEF Goal, Coming, Told
<1>12. CASE Start \/ ReleaseReturns
  BY <1>4, <1>12 DEF Start, ReleaseReturns, ManagerFrame
<1>13. ~(ServerRestarts \/ OnDown \/ Drop \/ ReleaseStops \/ ReleaseClears)
  <2>1. manager = "up" /\ manager' = "up"
    BY DEF Following
  <2> QED
    BY <1>1, <2>1 DEF ServerRestarts, OnDown, Drop, ReleaseStops, ReleaseClears,
                         ManagerFrame, PulseIInv, ManagerInv, PulseTypeOK
<1>14. ASSUME NEW c \in Conns, Dial(c) \/ OnUp(c)
       PROVE  Goal
  BY <1>14 DEF Dial, OnUp, Following
<1>15. ASSUME NEW s \in clearing, ClearOne(s)
       PROVE  Goal
  BY <1>4, <1>15 DEF ClearOne, connVars
<1>16. CASE EventWorker
  <2>1. UNCHANGED <<wire, reading, using, infos, adding, removing, held>> /\ pc = "idle"
    BY <1>16 DEF EventWorker, WorkerFrame
  <2>2. CASE workChan' = workChan
    BY <1>4, <2>1, <2>2
  <2>3. ASSUME workChan # <<>>, workChan' = Tail(workChan), asks' = RequestsOf(Head(workChan)),
               pc' = IF Head(workChan).op = "remove" THEN "delete" ELSE "look"
        PROVE  Goal
    <3>1. Range(workChan) = {Head(workChan)} \cup Range(workChan')
      BY <1>1, <2>3, Queues
    <3>2. job = Head(workChan) => Taken(job)
      BY <2>1, <2>3 DEF Taken
    <3>3. Told(current)' = Told(current)
      BY <1>1, <2>1 DEF Told
    <3> QED
      BY <1>1, <3>1, <3>2, <3>3 DEF Goal, Coming, Told
  <2> QED
    BY <1>16, <2>2, <2>3 DEF EventWorker
<1>17. CASE Current \/ RequestFails \/ AddFromInfo \/ AddInserts \/ MasterSwaps \/ ReportRemoved
            \/ ReportAdded \/ RemoveDeletes
  <2>1. UNCHANGED <<wire, reading, workChan>>
    BY <1>17 DEF Current, RequestFails, AddFromInfo, AddInserts, MasterSwaps, ReportRemoved,
                 ReportAdded, RemoveDeletes, WorkerFrame
  <2> QED
    BY <1>4, <2>1
<1>18. CASE UNCHANGED vars
  BY <1>4, <1>18 DEF vars, connVars
<1> QED
  BY <1>5, <1>6, <1>7, <1>8, <1>9, <1>10, <1>11, <1>12, <1>13, <1>14, <1>15, <1>16, <1>17, <1>18
  DEF Next, Manager, Worker, Release, ReadLoop

\* When the worker goes on to its next answer the requests it has not sent
\* stay the same.
LEMMA InfoTaken ==
  ASSUME PulseTypeOK, WorkerInv, pc \in {"add", "insert", "report"}, asks # <<>>, infos # {},
         NextInfo
  PROVE  /\ Min(infos) \in infos /\ infos' = infos \ {Min(infos)}
         /\ infos' # {} => asks' = asks /\ pc' = "add"
         /\ pc' \in {"idle", "look", "add"} /\ Unanswered' = Unanswered
<1>1. Min(infos) \in infos
  BY Infos
<1>2. CASE EndRequest /\ infos = {Min(infos)}
  <2>1. /\ asks' = Tail(asks) /\ infos' = {} /\ pc' \in {"idle", "look"}
        /\ pc' = "idle" <=> asks' = <<>>
    BY <1>2, RequestEnded
  <2>2. Range(<<>>) = {}
    BY NothingOnTheWire
  <2> QED
    BY <1>1, <1>2, <2>1, <2>2 DEF Unanswered
<1>3. CASE /\ infos' = infos \ {Min(infos)} /\ infos' # {} /\ pc' = "add"
           /\ asks' = asks /\ using' = using
  BY <1>1, <1>3 DEF Unanswered
<1> QED
  BY <1>2, <1>3, InfoDone

\* The steps of the worker within a job leave the server, the wire and the
\* queue alone.
LEMMA WorkerLeaves ==
  ASSUME Current \/ RequestFails \/ AddFromInfo \/ AddInserts \/ MasterSwaps \/ ReportRemoved
           \/ ReportAdded \/ RemoveDeletes
  PROVE  /\ UNCHANGED <<streams, used, default, current, workChan>>
         /\ SyncIsQueued' <=> SyncIsQueued
         /\ \A job : Coming(job)' <=> Coming(job)
<1>1. UNCHANGED <<streams, used, default, current, workChan, wire, reading>>
  BY DEF Current, RequestFails, AddFromInfo, AddInserts, MasterSwaps, ReportRemoved, ReportAdded,
         RemoveDeletes, WorkerFrame, serverVars, managerVars
<1> QED
  BY <1>1 DEF SyncIsQueued, Coming, Told

\* What the steps of the worker do to the job and to the maps.
Looks ==
  /\ pc = "look" /\ pc' = "asked" /\ using' = current /\ asks # <<>>
  /\ UNCHANGED <<asks, infos, held>>

Fails ==
  /\ pc = "asked" /\ SyncIsQueued /\ infos = {} /\ infos' = {} /\ asks' = Tail(asks)
  /\ pc' \in {"idle", "look"}
  /\ UNCHANGED held

Skips ==
  /\ pc \in {"add", "insert", "report"} /\ asks # <<>> /\ infos # {} /\ NextInfo
  /\ \/ Min(infos) \in Hidden
     \/ Exists(Min(infos))
     \/ pc = "report"
  /\ Head(asks).op = "master" => pc = "report"
  /\ UNCHANGED held

Looks2 ==
  /\ pc = "add" /\ pc' = "insert" /\ using' = current /\ asks # <<>>
  /\ UNCHANGED <<asks, infos, held>>

Inserts ==
  /\ pc = "insert" /\ pc' = "report" /\ asks # <<>> /\ Head(asks).op # "master"
  /\ using = current /\ Min(infos) \in infos
  /\ Min(infos) \in Streams \ Hidden
  /\ adding'.id = Min(infos) /\ adding'.device = Min(infos) /\ adding'.conn = using
  /\ held' = held \cup {adding'}
  /\ UNCHANGED <<asks, infos>>

Swaps ==
  /\ pc = "insert" /\ pc' = "report" /\ asks # <<>> /\ Head(asks).id \in Range(Masters)
  /\ using = current /\ Head(asks) = Job("master", Head(asks).id) /\ infos = {Min(infos)}
  /\ adding'.id = Head(asks).id /\ adding'.device = Min(infos) /\ adding'.conn = using
  /\ held' = {s \in held : s.id # Head(asks).id} \cup {adding'}
  /\ UNCHANGED <<asks, infos>>

Reports ==
  /\ pc = "report" /\ pc' \in {"report", "idle"}
  /\ pc' = "idle" => asks = <<>> /\ infos = {}
  /\ UNCHANGED <<asks, infos, held>>

Deletes ==
  /\ pc = "delete" /\ pc' \in {"report", "idle"} /\ asks' = <<>> /\ infos = {} /\ infos' = {}
  /\ asks # <<>> /\ Head(asks) \in Requests /\ Head(asks).op = "remove"
  /\ held' = {s \in held : s.id # Head(asks).id}

\* While the finder follows a connection a step of the worker is a job taken
\* or one of the steps within a job.
LEMMA WorkerSteps ==
  ASSUME PulseIInv, Following, Following', Worker
  PROVE  \/ \E job \in Jobs : Taken(job)
         \/ /\ UNCHANGED <<streams, used, default, current, workChan>>
            /\ SyncIsQueued' <=> SyncIsQueued
            /\ \A job : Coming(job)' <=> Coming(job)
            /\ \/ Looks \/ Fails \/ Skips \/ Looks2 \/ Inserts \/ Swaps \/ Reports \/ Deletes
<1> USE DEF PulseIInv
<1> DEFINE Leaves == /\ UNCHANGED <<streams, used, default, current, workChan>>
                     /\ SyncIsQueued' <=> SyncIsQueued
                     /\ \A job : Coming(job)' <=> Coming(job)
           Does == Looks \/ Fails \/ Skips \/ Looks2 \/ Inserts \/ Swaps \/ Reports \/ Deletes
<1>1. /\ manager = "up" /\ current # NoConn /\ current \in Conns /\ link[current] = "open"
      /\ finder \in {"new", "running"}
  BY TypeGroups DEF Following, ManagerInv, ManagerTypeOK
<1>2. ASSUME EventWorker
      PROVE  \E job \in Jobs : Taken(job)
  <2>1. workChan # <<>> /\ workChan' = Tail(workChan) /\ asks' = RequestsOf(Head(workChan))
        /\ pc' = IF Head(workChan).op = "remove" THEN "delete" ELSE "look"
    BY <1>1, <1>2 DEF EventWorker
  <2>2. pc = "idle" /\ UNCHANGED <<using, infos, adding, removing, held>>
    BY <1>2 DEF EventWorker, WorkerFrame
  <2> QED
    BY <2>1, <2>2, Queues DEF Taken
<1>3. ASSUME Current PROVE Looks
  BY <1>1, <1>3 DEF Current, Looks, WorkerInv
<1>4. ASSUME RequestFails PROVE Fails
  <2>1. /\ pc \in {"asked", "answered"} /\ link[using] # "open" /\ EndRequest /\ held' = held
    BY <1>4 DEF RequestFails
  <2>2. pc = "asked" /\ SyncIsQueued /\ asks # <<>> /\ infos = {}
    BY <1>1, <2>1 DEF OldRequests, WorkerInv
  <2> QED
    BY <2>1, <2>2, RequestEnded DEF Fails
<1>5. ASSUME AddFromInfo PROVE Skips \/ Looks2
  <2>1. /\ pc = "add" /\ asks # <<>> /\ infos # {} /\ Head(asks).op # "master" /\ held' = held
    BY <1>5 DEF AddFromInfo, WorkerInv
  <2>2. CASE Min(infos) \in Hidden
    BY <1>5, <2>1, <2>2 DEF AddFromInfo, Skips
  <2>3. CASE Min(infos) \notin Hidden
    BY <1>1, <1>5, <2>1, <2>3 DEF AddFromInfo, Looks2
  <2> QED
    BY <2>2, <2>3
<1>6. ASSUME AddInserts PROVE Skips \/ Inserts
  <2>1. /\ pc = "insert" /\ asks # <<>> /\ infos # {} /\ Head(asks).op # "master"
        /\ using = current
    BY <1>6 DEF AddInserts, WorkerInv, OldRequests
  <2>2. CASE Exists(Min(infos))
    BY <1>6, <2>1, <2>2 DEF AddInserts, Skips
  <2>3. CASE ~Exists(Min(infos))
    <3>1. pc' = "report" /\ UNCHANGED <<asks, infos>>
      BY <1>6, <2>3 DEF AddInserts
    <3> QED
      BY <1>6, <2>1, <2>3, <3>1, Inserted DEF Inserts
  <2> QED
    BY <2>2, <2>3
<1>7. ASSUME MasterSwaps PROVE Swaps
  <2>1. /\ pc = "insert" /\ pc' = "report" /\ UNCHANGED <<asks, infos>> /\ asks # <<>>
        /\ using = current
    BY <1>7 DEF MasterSwaps, WorkerInv, OldRequests
  <2> QED
    BY <1>7, <2>1, Swapped DEF Swaps
<1>8. ASSUME ReportRemoved PROVE Reports
  BY <1>8 DEF ReportRemoved, Reports, WorkerInv
<1>9. ASSUME ReportAdded PROVE Skips
  <2>1. pc = "report" /\ NextInfo /\ held' = held /\ removing = None
    BY <1>9 DEF ReportAdded
  <2>2. asks # <<>> /\ infos # {}
    BY <2>1 DEF WorkerInv
  <2> QED
    BY <2>1, <2>2 DEF Skips
<1>10. ASSUME RemoveDeletes PROVE Deletes
  <2>1. /\ pc = "delete" /\ asks' = <<>> /\ infos = {} /\ infos' = {} /\ asks # <<>>
        /\ Head(asks).op = "remove" /\ Head(asks) \in Requests
    BY <1>10, Queues DEF RemoveDeletes, WorkerInv
  <2>2. CASE Exists(Head(asks).id)
    <3>1. Delete(Head(asks).id) /\ pc' = "report"
      BY <1>10, <2>2 DEF RemoveDeletes
    <3>2. held' = {s \in held : s.id # Head(asks).id}
      BY <2>2, <3>1, Deleted
    <3> QED
      BY <2>1, <3>1, <3>2 DEF Deletes
  <2>3. CASE ~Exists(Head(asks).id)
    <3>1. held' = held /\ pc' = "idle"
      BY <1>10, <2>3 DEF RemoveDeletes
    <3>2. held' = {s \in held : s.id # Head(asks).id}
      BY <2>3, <3>1 DEF Exists
    <3> QED
      BY <2>1, <3>1, <3>2 DEF Deletes
  <2> QED
    BY <2>2, <2>3
<1> HIDE DEF Leaves, Does
<1>11. Worker => \/ EventWorker
                 \/ Current \/ RequestFails \/ AddFromInfo \/ AddInserts \/ MasterSwaps
                      \/ ReportRemoved \/ ReportAdded \/ RemoveDeletes
  BY DEF Worker
<1>12. ASSUME Current \/ RequestFails \/ AddFromInfo \/ AddInserts \/ MasterSwaps
                \/ ReportRemoved \/ ReportAdded \/ RemoveDeletes
       PROVE  Leaves /\ Does
  <2>1. Leaves
    BY <1>12, WorkerLeaves DEF Leaves
  <2>2. Does
    BY <1>12, <1>3, <1>4, <1>5, <1>6, <1>7, <1>8, <1>9, <1>10 DEF Does
  <2> QED
    BY <2>1, <2>2
<1> QED
  BY <1>2, <1>11, <1>12 DEF Leaves, Does

\* A stream that has ended stays ended.
LEMMA EndedStays ==
  ASSUME PulseIInv, [Next]_vars, Following, Following', NEW i, Ended(i)
  PROVE  Ended(i)'
<1>1. CASE UNCHANGED <<streams, used>>
  BY <1>1 DEF Ended
<1>2. ASSUME NEW j \in Streams, StreamAppears(j) \/ StreamEnds(j)
      PROVE  Ended(i)'
  BY <1>2 DEF StreamAppears, StreamEnds, Ended
<1>3. ASSUME NEW m \in Range(Masters), NEW d \in Devices \cup {NoDevice}, DefaultChanges(m, d)
      PROVE  UNCHANGED <<streams, used>>
  BY <1>3 DEF DefaultChanges
<1>4. ASSUME ServerAnswers \/ \E c \in Conns : ReadReply(c)
      PROVE  UNCHANGED <<streams, used>>
  BY <1>4 DEF ServerAnswers, ReadReply, serverVars
<1>5. ASSUME Worker
      PROVE  UNCHANGED <<streams, used>>
  BY <1>5 DEF Worker, EventWorker, Current, RequestFails, AddFromInfo, AddInserts, MasterSwaps,
              ReportRemoved, ReportAdded, RemoveDeletes, WorkerFrame, serverVars
<1> QED
  BY <1>1, <1>2, <1>3, <1>4, <1>5, StepsWhileFollowing

\* What the queue of jobs goes through.
LEMMA WorkChanSteps ==
  ASSUME PulseIInv, [Next]_vars, Following, Following'
  PROVE  \/ workChan' = workChan
         \/ \E job \in Jobs : Taken(job)
         \/ HandleSubscribeEvent(current)
<1> USE DEF PulseIInv
<1>1. CASE Worker
  BY <1>1, WorkerSteps
<1>2. ASSUME NEW c \in Conns, HandleSubscribeEvent(c)
      PROVE  HandleSubscribeEvent(current)
  <2>1. link[c] # "closed" /\ reading[c] # None
    BY <1>2 DEF HandleSubscribeEvent, Following
  <2>2. current # NoConn /\ link[c] \notin {"fresh", "closed"}
    BY <2>1 DEF ManagerInv, Following
  <2>3. c = current
    BY <2>2 DEF ManagerInv
  <2> QED
    BY <1>2, <2>3
<1>3. ASSUME NEW c \in Conns, Dial(c) \/ OnUp(c)
      PROVE  FALSE
  BY <1>3 DEF Dial, OnUp, Following
<1>4. ASSUME NEW i \in Streams, StreamAppears(i) \/ StreamEnds(i)
      PROVE  workChan' = workChan
  BY <1>4 DEF StreamAppears, StreamEnds, ServerFrame
<1>5. ASSUME NEW m \in Range(Masters), NEW d \in Devices \cup {NoDevice}, DefaultChanges(m, d)
      PROVE  workChan' = workChan
  BY <1>5 DEF DefaultChanges, ServerFrame
<1>6. ServerRestarts \/ ServerAnswers => workChan' = workChan
  BY DEF ServerRestarts, ServerAnswers
<1>7. ASSUME NEW c \in Conns, TransportBreaks(c) \/ ConnectionClosed(c) \/ Keepalive(c)
      PROVE  workChan' = workChan
  BY <1>7 DEF TransportBreaks, ConnectionClosed, Keepalive, TransportFrame
<1>8. ASSUME NEW c \in Conns, ReadEvent(c) \/ ReadReply(c)
      PROVE  workChan' = workChan
  BY <1>8 DEF ReadEvent, ReadReply
<1>9. ASSUME NEW s \in mixed, SetVolume(s)
      PROVE  workChan' = workChan
  BY <1>9 DEF SetVolume, TransportFrame
<1>10. ASSUME NEW s \in clearing, ClearOne(s)
       PROVE  workChan' = workChan
  BY <1>10 DEF ClearOne
<1>11. Start \/ ReleaseStops \/ OnDown \/ Drop \/ ReleaseClears \/ ReleaseReturns
         => workChan' = workChan
  BY DEF Start, ReleaseStops, OnDown, Drop, ReleaseClears, ReleaseReturns
<1>12. UNCHANGED vars => workChan' = workChan
  BY DEF vars
<1> QED
  BY <1>1, <1>2, <1>3, <1>4, <1>5, <1>6, <1>7, <1>8, <1>9, <1>10, <1>11, <1>12
  DEF Next, Manager, Release, ReadLoop

-----------------------------------------------------------------------------
(* The parts of the invariant about a connection that is followed.          *)

\* A request of an earlier connection is answered by nothing that counts: the
\* first enumeration of this one is still queued.
LEMMA OldRequestsKept ==
  ASSUME PulseIInv, [Next]_vars
  PROVE  OldRequests'
<1> SUFFICES ASSUME Following'
             PROVE  /\ pc' = "asked" => using' = current' \/ SyncIsQueued'
                    /\ pc' \in {"answered", "insert"} => using' = current'
  BY DEF OldRequests
<1>1. CASE ~Following
  BY <1>1, FollowingBegins
<1>2. CASE Following
  <2> USE <1>2 DEF PulseIInv, OldRequests
  <2>1. current' = current
    BY StepsWhileFollowing
  <2>2. SyncIsQueued /\ pc # "idle" => SyncIsQueued'
    <3>1. Sync \in Jobs /\ (Taken(Sync) => pc = "idle")
      BY JobsOf DEF Sync, Taken
    <3> QED
      BY <3>1, ComingKept DEF SyncIsQueued
  <2>3. CASE UNCHANGED <<streams, used, default, held, infos, asks, pc, using>>
    BY <2>1, <2>2, <2>3
  <2>4. ASSUME \/ \E i \in Streams : StreamAppears(i) \/ StreamEnds(i)
               \/ \E m \in Range(Masters), d \in Devices \cup {NoDevice} : DefaultChanges(m, d)
        PROVE  UNCHANGED <<pc, using>>
    BY <2>4 DEF StreamAppears, StreamEnds, DefaultChanges, ServerFrame, workerVars
  <2>5. ASSUME ServerAnswers
        PROVE  pc' = "answered" /\ using' = using /\ using = current
    BY <2>5 DEF ServerAnswers, ManagerInv
  <2>6. ASSUME NEW c \in Conns, ReadReply(c)
        PROVE  \/ UNCHANGED <<pc, using>>
               \/ pc' \in {"idle", "look", "add"}
               \/ pc = "answered" /\ using' = using
    BY <2>6 DEF ReadReply, EndRequest, AfterRequest
  <2>7. ASSUME Worker
        PROVE  \/ pc' \in {"asked", "insert"} /\ using' = current
               \/ pc' \in {"idle", "look", "delete", "add", "report"}
    <3>1. ASSUME NEW job \in Jobs, Taken(job)
          PROVE  pc' \in {"delete", "look"}
      BY <3>1 DEF Taken
    <3>2. ASSUME Skips
          PROVE  pc' \in {"idle", "look", "add"}
      BY <3>2, InfoTaken DEF Skips
    <3> QED
      BY <2>7, <3>1, <3>2, WorkerSteps DEF Looks, Fails, Looks2, Inserts, Swaps, Reports, Deletes
  <2>8. ASSUME UNCHANGED <<pc, using>>
        PROVE  /\ pc' = "asked" => using' = current' \/ SyncIsQueued'
               /\ pc' \in {"answered", "insert"} => using' = current'
    BY <2>1, <2>2, <2>8
  <2> QED
    BY <2>1, <2>3, <2>4, <2>5, <2>6, <2>7, <2>8, StepsWhileFollowing
<1> QED
  BY <1>1, <1>2

\* A removal left by an earlier connection stays before the first enumeration
\* of this one in the queue.
LEMMA OldRemovalsKept ==
  ASSUME PulseIInv, [Next]_vars
  PROVE  OldRemovals'
<1> USE DEF PulseIInv
<1> SUFFICES ASSUME Following'
             PROVE  /\ \A p \in DOMAIN workChan' :
                         workChan'[p].op = "remove" /\ workChan'[p].id \notin used' \ streams' =>
                           \E q \in DOMAIN workChan' : q > p /\ workChan'[q] = Sync
                    /\ pc' = "delete" /\ Head(asks').id \notin used' \ streams' => SyncIsQueued'
  BY DEF OldRemovals, Ended
<1> DEFINE n == Len(workChan)
<1>1. n \in Nat /\ DOMAIN workChan = 1..n /\ \A p \in 1..n : workChan[p] \in Jobs
  BY LenProperties DEF PulseTypeOK
<1>2. \A job \in Jobs : /\ DOMAIN Append(workChan, job) = 1..(n + 1)
                        /\ \A p \in 1..n : Append(workChan, job)[p] = workChan[p]
                        /\ Append(workChan, job)[n + 1] = job
  BY <1>1, AppendProperties, LenProperties DEF PulseTypeOK
<1> HIDE DEF n
<1>3. CASE ~Following
  <2>1. workChan' = Append(workChan, Sync) /\ SyncIsQueued' /\ Sync \in Jobs /\ Sync.op = "sync"
    BY <1>3, FollowingBegins, JobsOf DEF Sync, Job
  <2>2. ASSUME NEW p \in DOMAIN workChan', workChan'[p].op = "remove"
        PROVE  \E q \in DOMAIN workChan' : q > p /\ workChan'[q] = Sync
    <3>1. p \in 1..n
      BY <1>1, <1>2, <2>1, <2>2
    <3> QED
      BY <1>1, <1>2, <2>1, <3>1
  <2> QED
    BY <2>1, <2>2
<1>4. CASE Following
  <2>1. \A p \in 1..n : workChan[p].op = "remove" /\ ~Ended(workChan[p].id) =>
                          \E q \in 1..n : q > p /\ workChan[q] = Sync
    BY <1>1, <1>4 DEF OldRemovals
  <2>2. \A i : Ended(i) => i \in used' \ streams'
    BY <1>4, EndedStays DEF Ended
  <2>3. CASE workChan' = workChan
    <3>1. \A p \in DOMAIN workChan' :
            workChan'[p].op = "remove" /\ workChan'[p].id \notin used' \ streams' =>
              \E q \in DOMAIN workChan' : q > p /\ workChan'[q] = Sync
      BY <1>1, <2>1, <2>2, <2>3
    <3>2. pc' = "delete" => pc = "delete" /\ asks' = asks
      <4>1. ASSUME \/ \E i \in Streams : StreamAppears(i) \/ StreamEnds(i)
                   \/ \E m \in Range(Masters), d \in Devices \cup {NoDevice} : DefaultChanges(m, d)
            PROVE  UNCHANGED <<pc, asks>>
        BY <4>1 DEF StreamAppears, StreamEnds, DefaultChanges, ServerFrame, workerVars
      <4>2. ServerAnswers => pc' # "delete"
        BY DEF ServerAnswers
      <4>3. ASSUME NEW c \in Conns, ReadReply(c)
            PROVE  pc' # "delete" \/ UNCHANGED <<pc, asks>>
        BY <4>3 DEF ReadReply, EndRequest, AfterRequest
      <4>4. ASSUME Worker
            PROVE  pc' # "delete"
        <5>1. ~Taken(workChan[1]) /\ \A job \in Jobs : ~Taken(job)
          BY <2>3, Queues, LenProperties DEF Taken
        <5>2. Skips => pc' # "delete"
          BY InfoTaken DEF Skips
        <5> QED
          BY <1>4, <4>4, <5>1, <5>2, WorkerSteps
          DEF Looks, Fails, Looks2, Inserts, Swaps, Reports, Deletes
      <4> QED
        BY <1>4, <4>1, <4>2, <4>3, <4>4, StepsWhileFollowing
    <3>3. pc' = "delete" /\ Head(asks').id \notin used' \ streams' => SyncIsQueued'
      BY <1>4, <2>2, <2>3, <3>2 DEF OldRemovals, SyncIsQueued
    <3> QED
      BY <3>1, <3>3
  <2>4. ASSUME NEW job \in Jobs, Taken(job)
        PROVE  /\ \A p \in DOMAIN workChan' :
                    workChan'[p].op = "remove" /\ workChan'[p].id \notin used' \ streams' =>
                      \E q \in DOMAIN workChan' : q > p /\ workChan'[q] = Sync
               /\ pc' = "delete" /\ Head(asks').id \notin used' \ streams' => SyncIsQueued'
    <3>1. /\ n >= 1 /\ workChan' = Tail(workChan) /\ job = workChan[1]
          /\ DOMAIN workChan' = 1..(n - 1)
          /\ \A p \in 1..(n - 1) : workChan'[p] = workChan[p + 1]
      BY <1>1, <2>4, HeadTailProperties, LenProperties, EmptySeq DEF Taken, PulseTypeOK, n
    <3>2. ASSUME NEW p \in 1..(n - 1),
                 workChan'[p].op = "remove", workChan'[p].id \notin used' \ streams'
          PROVE  \E q \in 1..(n - 1) : q > p /\ workChan'[q] = Sync
      <4>1. p + 1 \in 1..n /\ workChan[p + 1].op = "remove" /\ ~Ended(workChan[p + 1].id)
        BY <1>1, <2>2, <3>1, <3>2
      <4>2. PICK q \in 1..n : q > p + 1 /\ workChan[q] = Sync
        BY <2>1, <4>1
      <4>3. q - 1 \in 1..(n - 1) /\ q - 1 > p /\ workChan'[q - 1] = Sync
        BY <1>1, <3>1, <4>2
      <4> QED
        BY <4>3
    <3>3. ASSUME pc' = "delete", Head(asks').id \notin used' \ streams'
          PROVE  SyncIsQueued'
      <4>1. job.op = "remove" /\ Head(asks') = job
        BY <2>4, <3>3, RequestsOfJob DEF Taken
      <4>2. 1 \in 1..n /\ ~Ended(workChan[1].id)
        BY <1>1, <2>2, <3>1, <3>3, <4>1
      <4>3. PICK q \in 1..n : q > 1 /\ workChan[q] = Sync
        BY <2>1, <3>1, <4>1, <4>2
      <4>4. q - 1 \in DOMAIN workChan' /\ workChan'[q - 1] = Sync
        BY <1>1, <3>1, <4>3
      <4> QED
        BY <4>4 DEF SyncIsQueued, Range
    <3> QED
      BY <3>1, <3>2, <3>3
  <2>5. CASE HandleSubscribeEvent(current)
    <3>1. current \in Conns /\ link[current] = "open" /\ ~missed'
      BY <1>4, StepsWhileFollowing DEF Following
    <3>2. reading[current] \in Jobs /\ workChan' = Append(workChan, reading[current])
      BY <2>5, <3>1, Handled
    <3>3. reading[current].op = "remove" => Ended(reading[current].id)
      <4>1. reading[current].op = "remove" =>
              /\ reading[current].id \in Streams
              /\ reading[current] = Job("remove", reading[current].id)
        BY <3>2 DEF Jobs, Job
      <4> QED
        BY <3>1, <4>1 DEF WireInv, Told, Ended
    <3>4. ASSUME NEW p \in 1..(n + 1),
                 workChan'[p].op = "remove", workChan'[p].id \notin used' \ streams'
          PROVE  \E q \in 1..(n + 1) : q > p /\ workChan'[q] = Sync
      <4>1. p # n + 1
        BY <1>2, <2>2, <3>2, <3>3, <3>4
      <4>2. p \in 1..n /\ workChan'[p] = workChan[p]
        BY <1>1, <1>2, <3>2, <4>1
      <4>3. PICK q \in 1..n : q > p /\ workChan[q] = Sync
        BY <2>1, <2>2, <3>4, <4>2
      <4> QED
        BY <1>1, <1>2, <3>2, <4>3
    <3>5. UNCHANGED <<pc, asks>> /\ (SyncIsQueued => SyncIsQueued')
      <4>1. UNCHANGED <<pc, asks>>
        BY <2>5 DEF HandleSubscribeEvent, workerVars
      <4>2. Range(workChan') = Range(workChan) \cup {reading[current]}
        BY <2>5, <3>1, Handled
      <4> QED
        BY <4>1, <4>2 DEF SyncIsQueued
    <3> QED
      BY <1>2, <1>4, <2>2, <3>2, <3>4, <3>5 DEF OldRemovals
  <2> QED
    BY <1>4, <2>3, <2>4, <2>5, WorkChanSteps
<1> QED
  BY <1>3, <1>4

\* An event is on its way to the worker.
LEMMA EmittedComes ==
  ASSUME PulseTypeOK, current \in Conns, link[current] = "open", current' = current,
         NEW e \in Jobs, Emit(e)
  PROVE  Coming(e)'
BY Emitted DEF Coming, Told

\* What the maps hold is of this connection, and plays or is about to go, in
\* every step.
LEMMA HeldKept ==
  ASSUME PulseIInv, [Next]_vars
  PROVE  HeldInv'
<1> USE DEF PulseIInv
<1> SUFFICES ASSUME Following', NEW s \in held'
             PROVE  /\ s.conn = current'
                    /\ s.id \in Streams => s.device = s.id /\ s.id \notin Hidden
                    /\ s.id \in Streams \ streams' =>
                         \/ Coming(Job("remove", s.id))'
                         \/ pc' = "delete" /\ Head(asks').id = s.id
  BY DEF HeldInv
<1> DEFINE Goes == Coming(Job("remove", s.id))' \/ (pc' = "delete" /\ Head(asks').id = s.id)
           Goal == /\ s.conn = current'
                   /\ s.id \in Streams => s.device = s.id /\ s.id \notin Hidden
                   /\ s.id \in Streams \ streams' => Goes
<1> SUFFICES Goal
  OBVIOUS
<1> HIDE DEF Goal, Goes
<1>1. CASE ~Following
  BY <1>1, FollowingBegins
<1>2. CASE Following
  <2>1. current' = current /\ current \in Conns /\ link[current] = "open"
    BY <1>2, StepsWhileFollowing DEF Following
  <2>2. s \in held => /\ s.conn = current
                      /\ s.id \in Streams => s.device = s.id /\ s.id \notin Hidden
                      /\ s.id \in Streams \ streams =>
                           \/ Coming(Job("remove", s.id))
                           \/ pc = "delete" /\ Head(asks).id = s.id
    BY <1>2 DEF HeldInv
  <2>3. s.id \in Streams /\ Coming(Job("remove", s.id)) => Goes
    <3> DEFINE gone == Job("remove", s.id)
    <3>1. s.id \in Streams => gone \in Jobs /\ gone.op = "remove" /\ gone.id = s.id
      BY JobsOf DEF Job
    <3> HIDE DEF gone
    <3>2. ASSUME gone \in Jobs, gone.op = "remove", Taken(gone)
          PROVE  pc' = "delete" /\ Head(asks') = gone
      BY <3>2, RequestsOfJob DEF Taken
    <3>3. gone \in Jobs /\ Coming(gone) => Coming(gone)' \/ Taken(gone)
      BY <1>2, ComingKept
    <3> QED
      BY <3>1, <3>2, <3>3 DEF Goes, gone, Coming
  <2>4. ASSUME s \in held, streams \subseteq streams',
               pc # "delete" \/ UNCHANGED <<pc, asks>>
        PROVE  Goal
    BY <2>1, <2>2, <2>3, <2>4 DEF Goal, Goes
  <2>5. CASE UNCHANGED <<streams, used, default, held, infos, asks, pc, using>>
    BY <2>4, <2>5
  <2>6. ASSUME NEW i \in Streams, StreamAppears(i)
        PROVE  Goal
    <3>1. streams \subseteq streams' /\ UNCHANGED <<held, pc, asks>>
      BY <2>6 DEF StreamAppears, ServerFrame, workerVars, mapVars
    <3> QED
      BY <2>4, <3>1
  <2>7. ASSUME NEW i \in Streams, StreamEnds(i)
        PROVE  Goal
    <3>1. streams' = streams \ {i} /\ UNCHANGED <<held, pc, asks>> /\ Emit(Job("remove", i))
      BY <2>7 DEF StreamEnds, ServerFrame, workerVars, mapVars
    <3>2. Coming(Job("remove", i))'
      BY <2>1, <3>1, EmittedComes, JobsOf
    <3>3. CASE s.id = i
      BY <2>1, <2>2, <3>1, <3>2, <3>3 DEF Goal, Goes, Coming
    <3>4. CASE s.id # i
      BY <2>1, <2>2, <2>3, <3>1, <3>4 DEF Goal, Goes
    <3> QED
      BY <3>3, <3>4
  <2>8. ASSUME NEW m \in Range(Masters), NEW d \in Devices \cup {NoDevice}, DefaultChanges(m, d)
        PROVE  Goal
    <3>1. UNCHANGED <<streams, held, pc, asks>>
      BY <2>8 DEF DefaultChanges, ServerFrame, workerVars, mapVars
    <3> QED
      BY <2>4, <3>1
  <2>9. CASE ServerAnswers
    <3>1. UNCHANGED <<streams, held>> /\ pc = "asked"
      BY <2>9 DEF ServerAnswers, serverVars, mapVars
    <3> QED
      BY <2>4, <3>1
  <2>10. ASSUME NEW c \in Conns, ReadReply(c)
         PROVE  Goal
    <3>1. UNCHANGED <<streams, held>> /\ (pc = "answered" \/ UNCHANGED <<pc, asks>>)
      BY <2>10 DEF ReadReply, serverVars, mapVars
    <3> QED
      BY <2>4, <3>1
  <2>11. CASE Worker
    <3>1. ASSUME NEW job \in Jobs, Taken(job)
          PROVE  Goal
      <4>1. UNCHANGED held /\ pc = "idle"
        BY <3>1 DEF Taken
      <4>2. streams' = streams
        BY <2>11 DEF Worker, EventWorker, Current, RequestFails, AddFromInfo, AddInserts,
                     MasterSwaps, ReportRemoved, ReportAdded, RemoveDeletes, WorkerFrame,
                     serverVars
      <4> QED
        BY <2>4, <4>1, <4>2
    <3>2. ASSUME streams' = streams, Looks \/ Fails \/ Skips \/ Looks2 \/ Reports
          PROVE  Goal
      BY <2>4, <3>2 DEF Looks, Fails, Skips, Looks2, Reports
    <3>3. ASSUME streams' = streams, Inserts
          PROVE  Goal
      <4>1. CASE s \in held
        BY <2>4, <3>3, <4>1 DEF Inserts
      <4>2. CASE s \notin held
        <5>1. /\ s.id = Min(infos) /\ s.device = Min(infos) /\ s.conn = current
              /\ Min(infos) \in infos /\ Min(infos) \in Streams \ Hidden
              /\ Head(asks).op # "master"
          BY <3>3, <4>2 DEF Inserts
        <5>2. s.id \in Streams \ streams => Coming(Job("remove", s.id))
          BY <1>2, <5>1 DEF InfosInv
        <5> QED
          BY <2>1, <2>3, <3>3, <5>1, <5>2 DEF Goal
      <4> QED
        BY <4>1, <4>2
    <3>4. ASSUME streams' = streams, Swaps
          PROVE  Goal
      <4>1. CASE s \in held
        BY <2>4, <3>4, <4>1 DEF Swaps
      <4>2. CASE s \notin held
        <5>1. s.id \in Range(Masters) /\ s.conn = current
          BY <3>4, <4>2 DEF Swaps
        <5> QED
          BY <2>1, <5>1, PulseAssumption DEF Goal
      <4> QED
        BY <4>1, <4>2
    <3>5. ASSUME streams' = streams, Deletes
          PROVE  Goal
      <4>1. s \in held /\ s.id # Head(asks).id
        BY <3>5 DEF Deletes
      <4> QED
        BY <2>1, <2>2, <2>3, <3>5, <4>1 DEF Goal
    <3> QED
      BY <1>2, <2>11, <3>1, <3>2, <3>3, <3>4, <3>5, WorkerSteps
  <2> QED
    BY <1>2, <2>5, <2>6, <2>7, <2>8, <2>9, <2>10, <2>11, StepsWhileFollowing
<1> QED
  BY <1>1, <1>2

\* What an answer names and has ended since is about to go, in every step.
LEMMA InfosKept ==
  ASSUME PulseIInv, [Next]_vars
  PROVE  InfosInv'
<1> USE DEF PulseIInv
<1> DEFINE Goal ==
      IF Head(asks').op = "master"
      THEN pc' # "report" => \/ infos' = {default'[Head(asks').id]}
                             \/ Coming(Job("master", None))'
      ELSE /\ \A i \in infos' \ streams' : Coming(Job("remove", i))'
           /\ pc' = "report" => \E s \in held' : s.id = Min(infos')
<1> SUFFICES ASSUME Following', infos' # {}
             PROVE  Goal
  BY DEF InfosInv, Exists
<1> HIDE DEF Goal
<1>1. CASE ~Following
  BY <1>1, FollowingBegins
<1>2. CASE Following
  <2>1. current' = current /\ current \in Conns /\ link[current] = "open"
    BY <1>2, StepsWhileFollowing DEF Following
  <2>2. infos # {} =>
          IF Head(asks).op = "master"
          THEN pc # "report" => \/ infos = {default[Head(asks).id]}
                                \/ Coming(Job("master", None))
          ELSE /\ \A i \in infos \ streams : Coming(Job("remove", i))
               /\ pc = "report" => \E s \in held : s.id = Min(infos)
    BY <1>2 DEF InfosInv, Exists
  <2>3. \A job \in Jobs : Coming(job) => Coming(job)'
    <3>1. \A job \in Jobs : ~Taken(job)
      BY DEF Taken, WorkerInv
    <3> QED
      BY <1>2, <3>1, ComingKept
  <2>4. Coming(Job("master", None)) => Coming(Job("master", None))'
    BY <2>3, JobsOf
  <2>5. \A i \in infos : Head(asks).op # "master" /\ Coming(Job("remove", i))
                           => Coming(Job("remove", i))'
    BY <2>3, JobsOf DEF WorkerInv
  <2>6. ASSUME UNCHANGED <<default, held, infos, asks>>, streams \subseteq streams',
               pc' = pc \/ (pc' # "report" /\ pc # "report")
        PROVE  Goal
    BY <2>2, <2>4, <2>5, <2>6 DEF Goal
  <2>7. CASE UNCHANGED <<streams, used, default, held, infos, asks, pc, using>>
    BY <2>6, <2>7
  <2>8. ASSUME NEW i \in Streams, StreamAppears(i)
        PROVE  Goal
    <3>1. streams \subseteq streams' /\ UNCHANGED <<default, held, infos, asks, pc>>
      BY <2>8 DEF StreamAppears, ServerFrame, workerVars, mapVars
    <3> QED
      BY <2>6, <3>1
  <2>9. ASSUME NEW i \in Streams, StreamEnds(i)
        PROVE  Goal
    <3>1. /\ streams' = streams \ {i} /\ Emit(Job("remove", i))
          /\ UNCHANGED <<default, held, infos, asks, pc>>
      BY <2>9 DEF StreamEnds, ServerFrame, workerVars, mapVars
    <3>2. Coming(Job("remove", i))'
      BY <2>1, <3>1, EmittedComes, JobsOf
    <3> QED
      BY <2>2, <2>4, <2>5, <3>1, <3>2 DEF Goal
  <2>10. ASSUME NEW m \in Range(Masters), NEW d \in Devices \cup {NoDevice}, DefaultChanges(m, d)
         PROVE  Goal
    <3>1. UNCHANGED <<streams, held, infos, asks, pc>> /\ Emit(Job("master", None))
      BY <2>10 DEF DefaultChanges, ServerFrame, workerVars, mapVars
    <3>2. Coming(Job("master", None))'
      BY <2>1, <3>1, EmittedComes, JobsOf
    <3> QED
      BY <2>2, <2>5, <3>1, <3>2 DEF Goal
  <2>11. CASE ServerAnswers
    <3>1. /\ UNCHANGED <<streams, default, asks>> /\ pc' = "answered" /\ asks # <<>>
          /\ infos' = Answer(Head(asks))
      BY <2>11 DEF ServerAnswers, serverVars, WorkerInv
    <3>2. Head(asks) \in Requests
      BY <3>1, Queues
    <3> QED
      BY <3>1, <3>2, Answers DEF Goal
  <2>12. ASSUME NEW c \in Conns, ReadReply(c)
         PROVE  Goal
    <3>1. UNCHANGED <<streams, default, held>>
      BY <2>12 DEF ReadReply, serverVars, mapVars
    <3>2. /\ UNCHANGED <<infos, asks>>
          /\ pc' = pc \/ (pc' # "report" /\ pc # "report")
      BY <2>12 DEF ReadReply, EndRequest
    <3> QED
      BY <2>6, <3>1, <3>2
  <2>13. CASE Worker
    <3>1. ASSUME NEW job \in Jobs, Taken(job)
          PROVE  FALSE
      BY <3>1 DEF Taken, WorkerInv
    <3>2. ASSUME Looks \/ Fails \/ Deletes
          PROVE  FALSE
      BY <3>2 DEF Looks, Fails, Deletes, WorkerInv
    <3>3. ASSUME UNCHANGED <<streams, default>>, Skips
          PROVE  Goal
      <4>1. /\ Min(infos) \in infos /\ infos' = infos \ {Min(infos)}
            /\ asks' = asks /\ pc' = "add"
        BY <3>3, InfoTaken DEF Skips
      <4>2. Head(asks).op # "master"
        BY <3>3, <4>1 DEF Skips, WorkerInv
      <4> QED
        BY <2>2, <2>5, <3>3, <4>1, <4>2 DEF Goal
    <3>4. ASSUME UNCHANGED <<streams, default>>, Looks2
          PROVE  Goal
      BY <2>6, <3>4 DEF Looks2
    <3>5. ASSUME UNCHANGED <<streams, default>>, Inserts
          PROVE  Goal
      BY <2>2, <2>5, <3>5 DEF Goal, Inserts
    <3>6. ASSUME Swaps
          PROVE  Goal
      BY <3>6 DEF Goal, Swaps, Job
    <3>7. ASSUME UNCHANGED <<streams, default>>, Reports
          PROVE  Goal
      BY <2>6, <3>7 DEF Reports
    <3> QED
      BY <1>2, <2>13, <3>1, <3>2, <3>3, <3>4, <3>5, <3>6, <3>7, WorkerSteps
  <2> QED
    BY <1>2, <2>7, <2>8, <2>9, <2>10, <2>11, <2>12, <2>13, StepsWhileFollowing
<1> QED
  BY <1>1, <1>2

\* Requests in hand are answered one by one.
LEMMA RequestTaken ==
  ASSUME PulseIInv, NEW c \in Conns, ReadReply(c)
  PROVE  \/ UNCHANGED <<infos, asks, pc>>
         \/ /\ pc = "answered" /\ infos = {} /\ infos' = {} /\ Unanswered' = Unanswered
         \/ /\ pc = "answered" /\ pc' \in {"insert", "add"} /\ UNCHANGED <<infos, asks>>
            /\ Unanswered' = Unanswered
<1> USE DEF PulseIInv
<1>1. CASE pc = "answered" /\ using = c /\ infos = {}
  <2>1. EndRequest /\ asks # <<>>
    BY <1>1 DEF ReadReply, WorkerInv
  <2>2. asks' = Tail(asks) /\ pc' \in {"idle", "look"} /\ (pc' = "idle" <=> asks' = <<>>)
        /\ infos' = {}
    BY <2>1, RequestEnded
  <2> QED
    BY <1>1, <2>1, <2>2, NothingOnTheWire DEF Unanswered
<1>2. CASE pc = "answered" /\ using = c /\ infos # {}
  <2>1. pc' \in {"insert", "add"} /\ UNCHANGED <<infos, asks>>
    BY <1>2 DEF ReadReply
  <2> QED
    BY <1>2, <2>1 DEF Unanswered
<1>3. CASE ~(pc = "answered" /\ using = c)
  BY <1>3 DEF ReadReply
<1> QED
  BY <1>1, <1>2, <1>3

\* What plays is in the maps or is about to be found, in every step.
LEMMA StreamsKept ==
  ASSUME PulseIInv, [Next]_vars
  PROVE  StreamsInv'
<1> USE DEF PulseIInv
<1> SUFFICES ASSUME Following', NEW i \in streams' \ Hidden
             PROVE  \/ \E s \in held' : s.id = i
                    \/ SyncIsQueued' \/ Coming(Job("new", i))'
                    \/ {Job("list", KindOf[i]), Job("new", i)} \cap Unanswered' # {}
                    \/ i \in infos' /\ Head(asks').op # "master"
  BY DEF StreamsInv, Exists
<1> DEFINE new == Job("new", i)
           list == Job("list", KindOf[i])
           There == \E s \in held' : s.id = i
           Asked == list \in Unanswered' \/ new \in Unanswered'
           Named == i \in infos' /\ Head(asks').op # "master"
           Goal == There \/ SyncIsQueued' \/ Coming(new)' \/ Asked \/ Named
<1>a. i \in Streams
  <2>1. PulseTypeOK'
    BY TypeKept
  <2> QED
    BY <2>1 DEF PulseTypeOK
<1>b. new \in Jobs /\ new.op = "new" /\ new.id = i
  BY <1>a, JobsOf DEF Job
<1>c. list.op = "list" /\ list.id = KindOf[i] /\ KindOf[i] \in Range(Kinds)
  BY <1>a, PulseAssumption DEF Job
<1>d. Sync \in Jobs /\ Sync.op = "sync"
  BY JobsOf DEF Sync, Job
<1>e. i \notin Range(Masters)
  BY <1>a, PulseAssumption
<1> SUFFICES Goal
  BY Zenon
<1>f. list = Job("list", KindOf[i])
  OBVIOUS
<1> HIDE DEF new, list, Goal, There, Asked, Named
<1>1. CASE ~Following
  BY <1>1, FollowingBegins DEF Goal
<1>2. CASE Following
  <2>1. current' = current /\ current \in Conns /\ link[current] = "open"
    BY <1>2, StepsWhileFollowing DEF Following
  <2>2. i \in streams =>
          \/ \E s \in held : s.id = i
          \/ SyncIsQueued \/ Coming(new)
          \/ list \in Unanswered \/ new \in Unanswered
          \/ i \in infos /\ Head(asks).op # "master"
    BY <1>2 DEF StreamsInv, Exists, new, list
  <2>3. Coming(new) => Coming(new)' \/ Taken(new)
    BY <1>2, <1>b, ComingKept
  <2>4. SyncIsQueued => SyncIsQueued' \/ Taken(Sync)
    BY <1>2, <1>d, ComingKept DEF SyncIsQueued
  <2>5. ASSUME Taken(new) PROVE Goal
    BY <1>b, <2>5, RequestsOfJob DEF Goal, Asked, Taken, Unanswered
  <2>6. ASSUME Taken(Sync) PROVE Goal
    BY <1>c, <1>d, <1>f, <2>6, RequestsOfJob DEF Goal, Asked, Taken, Unanswered
  <2>7. SyncIsQueued \/ Coming(new) => Goal
    BY <2>3, <2>4, <2>5, <2>6 DEF Goal
  <2>8. ASSUME i \in streams, held \subseteq held',
               Unanswered' = Unanswered, UNCHANGED <<infos, asks>>
        PROVE  Goal
    BY <2>2, <2>7, <2>8 DEF Goal, There, Asked, Named
  <2>9. ASSUME i \in streams, UNCHANGED <<held, infos, asks, pc>>
        PROVE  Goal
    BY <2>8, <2>9 DEF Unanswered
  <2>10. CASE UNCHANGED <<streams, used, default, held, infos, asks, pc, using>>
    BY <2>9, <2>10
  <2>11. ASSUME NEW j \in Streams, StreamAppears(j)
         PROVE  Goal
    <3>1. streams' = streams \cup {j} /\ UNCHANGED <<held, infos, asks, pc>> /\ Emit(Job("new", j))
      BY <2>11 DEF StreamAppears, ServerFrame, workerVars, mapVars
    <3>2. Coming(Job("new", j))'
      BY <2>1, <3>1, EmittedComes, JobsOf
    <3>3. i = j => Coming(new)'
      BY <3>2 DEF Coming, new
    <3> QED
      BY <2>9, <3>1, <3>3 DEF Goal
  <2>12. ASSUME NEW j \in Streams, StreamEnds(j)
         PROVE  Goal
    <3>1. streams' = streams \ {j} /\ UNCHANGED <<held, infos, asks, pc>>
      BY <2>12 DEF StreamEnds, ServerFrame, workerVars, mapVars
    <3> QED
      BY <2>9, <3>1
  <2>13. ASSUME NEW m \in Range(Masters), NEW d \in Devices \cup {NoDevice}, DefaultChanges(m, d)
         PROVE  Goal
    <3>1. UNCHANGED <<streams, held, infos, asks, pc>>
      BY <2>13 DEF DefaultChanges, ServerFrame, workerVars, mapVars
    <3> QED
      BY <2>9, <3>1
  <2>14. CASE ServerAnswers
    <3>1. /\ UNCHANGED <<streams, held, asks>> /\ pc = "asked" /\ pc' = "answered"
          /\ asks # <<>> /\ infos' = Answer(Head(asks)) /\ infos = {}
      BY <2>14 DEF ServerAnswers, serverVars, mapVars, WorkerInv
    <3>2. /\ Head(asks) \in Requests
          /\ Unanswered = {Head(asks)} \cup Unanswered'
      BY <3>1, Queues DEF Unanswered
    <3>3. CASE Head(asks) = list
      BY <1>c, <3>1, <3>2, <3>3, Answers DEF Goal, Named
    <3>4. CASE Head(asks) = new
      BY <1>b, <3>1, <3>2, <3>4, Answers DEF Goal, Named
    <3>5. CASE Head(asks) # list /\ Head(asks) # new
      BY <2>2, <2>7, <3>1, <3>2, <3>5 DEF Goal, There, Asked
    <3> QED
      BY <3>3, <3>4, <3>5
  <2>15. ASSUME NEW c \in Conns, ReadReply(c)
         PROVE  Goal
    <3>1. UNCHANGED <<streams, held>>
      BY <2>15 DEF ReadReply, serverVars, mapVars
    <3>2. CASE UNCHANGED <<infos, asks, pc>>
      BY <2>9, <3>1, <3>2
    <3>3. CASE Unanswered' = Unanswered /\ infos = {}
      BY <2>2, <2>7, <3>1, <3>3 DEF Goal, There, Asked
    <3>4. CASE Unanswered' = Unanswered /\ UNCHANGED <<infos, asks>>
      BY <2>8, <3>1, <3>4
    <3> QED
      BY <2>15, <3>2, <3>3, <3>4, RequestTaken
  <2>16. CASE Worker
    <3>1. ASSUME NEW job \in Jobs, Taken(job)
          PROVE  Goal
      <4>1. /\ infos = {} /\ asks = <<>> /\ pc = "idle" /\ held' = held
        BY <3>1 DEF Taken, WorkerInv
      <4>2. streams' = streams
        BY <2>16 DEF Worker, EventWorker, Current, RequestFails, AddFromInfo, AddInserts,
                     MasterSwaps, ReportRemoved, ReportAdded, RemoveDeletes, WorkerFrame,
                     serverVars
      <4> QED
        BY <2>2, <2>7, <4>1, <4>2 DEF Goal, There, Unanswered
    <3> SUFFICES ASSUME streams' = streams,
                        Looks \/ Fails \/ Skips \/ Looks2 \/ Inserts \/ Swaps \/ Reports \/ Deletes
                 PROVE  Goal
      BY <1>2, <2>16, <3>1, WorkerSteps
    <3>2. CASE Looks
      BY <2>8, <3>2 DEF Looks, Unanswered
    <3>3. CASE Fails
      BY <2>7, <3>3 DEF Fails
    <3>4. CASE Skips
      <4>1. /\ Min(infos) \in infos /\ infos' = infos \ {Min(infos)}
            /\ infos' # {} => asks' = asks
            /\ Unanswered' = Unanswered /\ held' = held
        BY <3>4, InfoTaken DEF Skips
      <4>2. ASSUME i = Min(infos), Head(asks).op # "master"
            PROVE  \E s \in held : s.id = i
        <5>1. CASE pc = "report"
          BY <1>2, <4>1, <4>2, <5>1 DEF InfosInv, Exists
        <5>2. CASE pc # "report"
          BY <3>4, <4>2, <5>2 DEF Skips, Exists
        <5> QED
          BY <5>1, <5>2
      <4> QED
        BY <2>2, <2>7, <4>1, <4>2 DEF Goal, There, Asked, Named
    <3>5. CASE Looks2
      BY <2>8, <3>5 DEF Looks2, Unanswered
    <3>6. CASE Inserts
      BY <2>8, <3>6 DEF Inserts, Unanswered
    <3>7. CASE Swaps
      <4>1. \A s \in held : s.id = i => s \in held'
        BY <1>e, <3>7 DEF Swaps
      <4>2. Unanswered' = Unanswered /\ UNCHANGED <<infos, asks>>
        BY <3>7 DEF Swaps, Unanswered
      <4> QED
        BY <2>2, <2>7, <4>1, <4>2 DEF Goal, There, Asked, Named
    <3>8. CASE Reports
      BY <2>8, <3>8, NothingOnTheWire DEF Reports, Unanswered
    <3>9. CASE Deletes
      <4>1. /\ Unanswered = {} /\ infos = {} /\ pc = "delete"
            /\ held' = {s \in held : s.id # Head(asks).id}
        BY <3>9 DEF Deletes, Unanswered
      <4>2. Head(asks).id = i => SyncIsQueued
        BY <1>2, <4>1 DEF OldRemovals, Ended
      <4> QED
        BY <2>2, <2>7, <4>1, <4>2 DEF Goal, There
    <3> QED
      BY <3>2, <3>3, <3>4, <3>5, <3>6, <3>7, <3>8, <3>9
  <2> QED
    BY <1>2, <2>10, <2>11, <2>12, <2>13, <2>14, <2>15, <2>16, StepsWhileFollowing
<1> QED
  BY <1>1, <1>2

\* A default device that there is has its master session or is about to get
\* it, in every step.
LEMMA MastersKept ==
  ASSUME PulseIInv, [Next]_vars
  PROVE  MastersInv'
<1> USE DEF PulseIInv
<1> SUFFICES ASSUME Following', NEW m \in Range(Masters)
             PROVE  \/ default'[m] = NoDevice \/ \E s \in held' : s.id = m /\ s.device = default'[m]
                    \/ SyncIsQueued' \/ Coming(Job("master", None))'
                    \/ Job("master", m) \in Unanswered'
                    \/ infos' # {} /\ Head(asks') = Job("master", m) /\ pc' # "report"
  BY DEF MastersInv, Gone
<1> DEFINE changed == Job("master", None)
           ask == Job("master", m)
           There == default'[m] = NoDevice \/ \E s \in held' : s.id = m /\ s.device = default'[m]
           Answered == infos' # {} /\ Head(asks') = ask /\ pc' # "report"
           Goal == There \/ SyncIsQueued' \/ Coming(changed)' \/ ask \in Unanswered' \/ Answered
<1> SUFFICES Goal
  BY Zenon
<1>a. changed \in Jobs /\ changed.op = "master"
  BY JobsOf DEF Job
<1>b. Sync \in Jobs /\ Sync.op = "sync"
  BY JobsOf DEF Sync, Job
<1>c. ask.op = "master" /\ ask.id = m /\ m \notin Streams
  BY PulseAssumption DEF Job
<1>d. ask = Job("master", m)
  OBVIOUS
<1> HIDE DEF changed, ask, Goal, There, Answered
<1>1. CASE ~Following
  BY <1>1, FollowingBegins DEF Goal
<1>2. CASE Following
  <2>1. current' = current /\ current \in Conns /\ link[current] = "open"
    BY <1>2, StepsWhileFollowing DEF Following
  <2>2. \/ default[m] = NoDevice \/ \E s \in held : s.id = m /\ s.device = default[m]
        \/ SyncIsQueued \/ Coming(changed)
        \/ ask \in Unanswered
        \/ infos # {} /\ Head(asks) = ask /\ pc # "report"
    BY <1>2 DEF MastersInv, Gone, changed, ask
  <2>3. Coming(changed) => Coming(changed)' \/ Taken(changed)
    BY <1>2, <1>a, ComingKept
  <2>4. SyncIsQueued => SyncIsQueued' \/ Taken(Sync)
    BY <1>2, <1>b, ComingKept DEF SyncIsQueued
  <2>5. ASSUME NEW job \in Jobs, job.op \in {"master", "sync"}, Taken(job)
        PROVE  Goal
    BY <1>d, <2>5, RequestsOfJob DEF Goal, Taken, Unanswered
  <2>6. SyncIsQueued \/ Coming(changed) => Goal
    BY <1>a, <1>b, <2>3, <2>4, <2>5 DEF Goal
  <2>7. ASSUME default' = default, held \subseteq held', Unanswered' = Unanswered,
               infos # {} /\ Head(asks) = ask /\ pc # "report" => Answered
        PROVE  Goal
    BY <2>2, <2>6, <2>7 DEF Goal, There
  <2>8. ASSUME UNCHANGED <<default, held, infos, asks, pc>>
        PROVE  Goal
    BY <2>7, <2>8 DEF Unanswered, Answered
  <2>9. CASE UNCHANGED <<streams, used, default, held, infos, asks, pc, using>>
    BY <2>8, <2>9
  <2>10. ASSUME NEW i \in Streams, StreamAppears(i) \/ StreamEnds(i)
         PROVE  Goal
    <3>1. UNCHANGED <<default, held, infos, asks, pc>>
      BY <2>10 DEF StreamAppears, StreamEnds, ServerFrame, workerVars, mapVars
    <3> QED
      BY <2>8, <3>1
  <2>11. ASSUME NEW n \in Range(Masters), NEW d \in Devices \cup {NoDevice}, DefaultChanges(n, d)
         PROVE  Goal
    <3>1. Emit(changed)
      BY <2>11 DEF DefaultChanges, changed
    <3>2. Coming(changed)'
      BY <1>a, <2>1, <3>1, EmittedComes
    <3> QED
      BY <3>2 DEF Goal
  <2>12. CASE ServerAnswers
    <3>1. /\ UNCHANGED <<default, held, asks>> /\ pc = "asked" /\ pc' = "answered"
          /\ asks # <<>> /\ infos' = Answer(Head(asks)) /\ infos = {}
      BY <2>12 DEF ServerAnswers, serverVars, mapVars, WorkerInv
    <3>2. /\ Head(asks) \in Requests
          /\ Unanswered = {Head(asks)} \cup Unanswered'
      BY <3>1, Queues DEF Unanswered
    <3>3. CASE Head(asks) = ask
      <4>1. default[m] = NoDevice \/ infos' = {default[m]}
        BY <1>c, <3>1, <3>2, <3>3, Answers
      <4> QED
        BY <3>1, <3>3, <4>1 DEF Goal, There, Answered
    <3>4. CASE Head(asks) # ask
      BY <2>2, <2>6, <3>1, <3>2, <3>4 DEF Goal, There
    <3> QED
      BY <3>3, <3>4
  <2>13. ASSUME NEW c \in Conns, ReadReply(c)
         PROVE  Goal
    <3>1. UNCHANGED <<default, held>>
      BY <2>13 DEF ReadReply, serverVars, mapVars
    <3>2. CASE UNCHANGED <<infos, asks, pc>>
      BY <2>8, <3>1, <3>2
    <3>3. CASE Unanswered' = Unanswered /\ infos = {}
      BY <2>7, <3>1, <3>3
    <3>4. CASE Unanswered' = Unanswered /\ UNCHANGED <<infos, asks>> /\ pc' \in {"insert", "add"}
      BY <2>7, <3>1, <3>4 DEF Answered
    <3> QED
      BY <2>13, <3>2, <3>3, <3>4, RequestTaken
  <2>14. CASE Worker
    <3>1. ASSUME NEW job \in Jobs, Taken(job)
          PROVE  Goal
      <4>1. /\ infos = {} /\ asks = <<>> /\ pc = "idle" /\ held' = held
        BY <3>1 DEF Taken, WorkerInv
      <4>2. default' = default
        BY <2>14 DEF Worker, EventWorker, Current, RequestFails, AddFromInfo, AddInserts,
                     MasterSwaps, ReportRemoved, ReportAdded, RemoveDeletes, WorkerFrame,
                     serverVars
      <4> QED
        BY <2>2, <2>6, <4>1, <4>2 DEF Goal, There, Unanswered
    <3> SUFFICES ASSUME default' = default,
                        Looks \/ Fails \/ Skips \/ Looks2 \/ Inserts \/ Swaps \/ Reports \/ Deletes
                 PROVE  Goal
      BY <1>2, <2>14, <3>1, WorkerSteps
    <3>2. CASE Looks
      BY <2>7, <3>2 DEF Looks, Unanswered, WorkerInv
    <3>3. CASE Fails
      BY <2>6, <3>3 DEF Fails
    <3>4. CASE Skips
      <4>1. Unanswered' = Unanswered /\ held' = held
        BY <3>4, InfoTaken DEF Skips
      <4>2. Head(asks) = ask => pc = "report"
        BY <1>c, <3>4 DEF Skips
      <4> QED
        BY <2>7, <4>1, <4>2
    <3>5. CASE Looks2
      BY <2>7, <3>5 DEF Looks2, Unanswered, Answered
    <3>6. CASE Inserts
      BY <1>c, <2>7, <3>6 DEF Inserts, Unanswered
    <3>7. CASE Swaps
      <4>1. /\ Unanswered' = Unanswered /\ Head(asks) = Job("master", Head(asks).id)
            /\ pc = "insert" /\ infos # {} /\ infos = {Min(infos)}
            /\ adding' \in held' /\ adding'.id = Head(asks).id /\ adding'.device = Min(infos)
            /\ \A s \in held : s.id # Head(asks).id => s \in held'
        BY <3>7 DEF Swaps, Unanswered
      <4>2. CASE Head(asks) = ask
        <5>1. infos = {default[m]} \/ Coming(changed)
          BY <1>2, <1>c, <4>1, <4>2 DEF InfosInv, changed
        <5>2. infos = {default[m]} => There
          BY <1>c, <4>1, <4>2, <5>1 DEF There
        <5> QED
          BY <2>6, <5>1, <5>2 DEF Goal
      <4>3. CASE Head(asks) # ask
        <5>1. Head(asks).id # m
          BY <1>d, <4>1, <4>3
        <5> QED
          BY <2>2, <2>6, <4>1, <4>3, <5>1 DEF Goal, There
      <4> QED
        BY <4>2, <4>3
    <3>8. CASE Reports
      BY <2>7, <3>8, NothingOnTheWire DEF Reports, Unanswered
    <3>9. CASE Deletes
      <4>1. /\ Unanswered = {} /\ infos = {}
            /\ held' = {s \in held : s.id # Head(asks).id} /\ Head(asks).id \in Streams
        BY <3>9, Answers DEF Deletes, Unanswered
      <4> QED
        BY <1>c, <2>2, <2>6, <4>1 DEF Goal, There
    <3> QED
      BY <3>2, <3>3, <3>4, <3>5, <3>6, <3>7, <3>8, <3>9
  <2> QED
    BY <1>2, <2>9, <2>10, <2>11, <2>12, <2>13, <2>14, StepsWhileFollowing
<1> QED
  BY <1>1, <1>2

-----------------------------------------------------------------------------
(* The theorems.                                                            *)

\* The finder starts with no connection, no session and no job.
LEMMA InitEstablishes == Init => PulseIInv
<1> SUFFICES ASSUME Init
             PROVE  PulseIInv
  OBVIOUS
<1>1. /\ streams \subseteq Streams /\ used = streams
      /\ default \in [Range(Masters) -> {Min(Devices), NoDevice}]
      /\ wire = [c \in Conns |-> <<>>] /\ reading = [c \in Conns |-> None]
      /\ link = [c \in Conns |-> "fresh"]
      /\ manager = "down" /\ current = NoConn /\ finder = "new" /\ workChan = <<>>
      /\ pc = "idle" /\ asks = <<>> /\ using = NoConn /\ infos = {}
      /\ adding = None /\ removing = None /\ held = {} /\ mixed = {} /\ clearing = {}
      /\ missed = FALSE /\ overtaken = FALSE
  BY DEF Init
<1>2. PulseTypeOK
  <2>1. Min(Devices) \in Devices
    BY HasLeast, PulseAssumption
  <2>2. ServerTypeOK
    BY <1>1, <2>1 DEF ServerTypeOK
  <2>3. <<>> \in Seq(Jobs \cup {Job("reply", None)}) /\ <<>> \in Seq(Jobs) /\ <<>> \in Seq(Requests)
    BY EmptySeq
  <2>4. WorkChanTypeOK
    BY <1>1, <2>3, EmptySeq, PulseAssumption DEF WorkChanTypeOK
  <2>5. LinkTypeOK /\ WireTypeOK /\ ManagerTypeOK /\ WorkerTypeOK /\ SessionTypeOK
    BY <1>1, <2>3
    DEF LinkTypeOK, WireTypeOK, ManagerTypeOK, WorkerTypeOK, SessionTypeOK
  <2> QED
    BY <2>2, <2>4, <2>5, TypeGroups
<1>3. WorkerInv /\ ReleaseInv /\ OneRemover
  BY <1>1, NothingOnTheWire DEF WorkerInv, ReleaseInv, OneRemover
<1>4. ManagerInv /\ WireInv
  BY <1>1, PulseAssumption DEF ManagerInv, WireInv
<1>5. SessionsInv /\ MixedInv
  BY <1>1, FS_EmptySet DEF SessionsInv, MixedInv
<1>6. ~Following
  BY <1>1 DEF Following
<1>7. OldRemovals /\ OldRequests /\ HeldInv /\ InfosInv /\ StreamsInv /\ MastersInv
  BY <1>6 DEF OldRemovals, OldRequests, HeldInv, InfosInv, StreamsInv, MastersInv
<1> QED
  BY <1>2, <1>3, <1>4, <1>5, <1>7 DEF PulseIInv

\* The parts together are inductive.
LEMMA StepKeeps ==
  ASSUME PulseIInv, [Next]_vars
  PROVE  PulseIInv'
BY TypeKept, WorkerKept, ManagerKept, ReleaseKept, OneRemoverKept, SessionsKept, WireKept,
   MixedKept, OldRemovalsKept, OldRequestsKept, HeldKept, InfosKept, StreamsKept, MastersKept
DEF PulseIInv

\* Whatever the server, the connections, the manager and Release do, the
\* worker's job, the maps and what the handler knows of them stay in step.
THEOREM Invariance == Spec => []PulseIInv
<1>1. PulseIInv /\ [Next]_vars => PulseIInv'
  BY StepKeeps
<1> QED
  BY InitEstablishes, <1>1, PTL DEF Spec

\* The worker's removal (removeSinkInput and its kin), a change of master and
\* the clearing of the maps (clearSessions) never take the same session out,
\* and a stream has one session.  Unless the maps were cleared during a job or
\* an event of a closed connection was queued (overtaken), the handler has no
\* session that was released.
THEOREM SessionsLeaveOnce == Spec => []PulseInv
<1>1. PulseIInv => PulseInv
  BY DEF PulseIInv, PulseInv, KnownIsOwned, MixedInv, Owned
<1> QED
  BY Invariance, <1>1, PTL

\* With nothing queued, on its way or in hand, the parts say that the maps
\* are what plays.
LEMMA FollowsWhenQuiet == PulseIInv => FollowsServer
<1> SUFFICES ASSUME PulseIInv, Quiet, ~missed, ~overtaken
             PROVE  /\ mixed = held
                    /\ \A s \in held : s.conn = current
                    /\ {<<s.id, s.device>> : s \in {t \in held : t.id \notin Gone}} =
                         {<<i, i>> : i \in streams \ Hidden} \cup
                         {<<m, default[m]>> : m \in Range(Masters) \ Gone}
  BY DEF FollowsServer
<1> USE DEF PulseIInv
<1>1. /\ finder = "running" /\ manager = "up" /\ link[current] = "open"
      /\ workChan = <<>> /\ pc = "idle"
      /\ \A c \in Conns : wire[c] = <<>> /\ reading[c] = None
  BY DEF Quiet
<1>2. Following /\ current \in Conns
  BY <1>1, TypeGroups DEF Following, ManagerInv, ManagerTypeOK
<1>3. adding = None /\ removing = None /\ clearing = {} /\ None \notin held
  BY <1>1, JobsOf, TypeGroups DEF WorkerInv, ReleaseInv, SessionTypeOK
<1>4. mixed = held
  BY <1>3 DEF MixedInv
<1>5. \A job \in Jobs : ~Coming(job)
  <2>1. Told(current) = {None} /\ Range(workChan) = {}
    BY <1>1, <1>2, NothingOnTheWire DEF Told
  <2> QED
    BY <2>1, JobsOf DEF Coming
<1>6. ~SyncIsQueued /\ Unanswered = {} /\ infos = {}
  BY <1>1, NothingOnTheWire DEF SyncIsQueued, Unanswered, WorkerInv
<1>7. \A i \in streams \ Hidden : \E s \in held : s.id = i
  <2> TAKE i \in streams \ Hidden
  <2>1. i \in Streams
    BY TypeGroups DEF ServerTypeOK
  <2>2. ~Coming(Job("new", i))
    BY <1>5, <2>1, JobsOf
  <2> QED
    BY <1>2, <1>6, <2>2 DEF StreamsInv, Exists
<1>8. \A m \in Range(Masters) \ Gone : \E s \in held : s.id = m /\ s.device = default[m]
  <2>1. ~Coming(Job("master", None))
    BY <1>5, JobsOf
  <2> QED
    BY <1>2, <1>6, <2>1 DEF MastersInv
<1>9. \A s \in held : /\ s.conn = current
                      /\ s.id \in Streams => s.device = s.id /\ s.id \in streams \ Hidden
  <2> TAKE s \in held
  <2>1. ASSUME s.id \in Streams
        PROVE  ~Coming(Job("remove", s.id))
    BY <1>5, <2>1, JobsOf
  <2> QED
    BY <1>1, <1>2, <2>1 DEF HeldInv
<1>10. \A s \in held : s.id \in Streams \cup Range(Masters)
  BY TypeGroups DEF SessionTypeOK, Sessions
<1>11. \A s \in held : s.id \in Range(Masters) \ Gone => s.device = default[s.id]
  BY <1>8 DEF OneRemover
<1>12. streams \subseteq Streams /\ \A i \in Streams : i \notin Gone
  BY TypeGroups, PulseAssumption DEF ServerTypeOK, Gone
<1> DEFINE Known == {<<s.id, s.device>> : s \in {t \in held : t.id \notin Gone}}
           Playing == {<<i, i>> : i \in streams \ Hidden}
           Defaults == {<<m, default[m]>> : m \in Range(Masters) \ Gone}
<1>13. Known \subseteq Playing \cup Defaults
  BY <1>9, <1>10, <1>11
<1>14. Playing \subseteq Known
  <2> SUFFICES ASSUME NEW i \in streams \ Hidden
               PROVE  <<i, i>> \in Known
    OBVIOUS
  <2>1. PICK s \in held : s.id = i
    BY <1>7
  <2> QED
    BY <1>9, <1>12, <2>1
<1>15. Defaults \subseteq Known
  <2> SUFFICES ASSUME NEW m \in Range(Masters) \ Gone
               PROVE  <<m, default[m]>> \in Known
    OBVIOUS
  <2>1. PICK s \in held : s.id = m /\ s.device = default[m]
    BY <1>8
  <2> QED
    BY <1>9, <2>1
<1> QED
  BY <1>4, <1>9, <1>13, <1>14, <1>15

\* Once every event is handled, the handler knows exactly what plays and the
\* default devices that there are, over the present connection (onUp,
\* handleSubscribeEvent, eventWorker and the handlers of its jobs).  Excepted
\* are dropped events (missed), connections lost while a job was under way
\* (overtaken), and the session of a default device that is gone, which stays
\* until there is another.
THEOREM HandlerFollowsServer == Spec => []FollowsServer
BY Invariance, FollowsWhenQuiet, PTL

\* When Release has returned there is no session that was not released, and
\* no worker that could make one.
THEOREM ReleaseIsFinal == Spec => []ReleaseLeavesNothing
<1>1. PulseIInv => ReleaseLeavesNothing
  <2> SUFFICES ASSUME PulseIInv, finder = "released"
               PROVE  Owned = {} /\ pc = "exited"
    BY DEF ReleaseLeavesNothing
  <2>1. pc = "exited" /\ held = {} /\ manager = "stopped"
    BY DEF PulseIInv, ReleaseInv, ManagerInv
  <2>2. clearing = {} /\ removing = None
    BY <2>1 DEF PulseIInv, ReleaseInv, WorkerInv
  <2> QED
    BY <2>1, <2>2 DEF Owned
<1> QED
  BY Invariance, <1>1, PTL
=============================================================================
