--------------------------- MODULE DiscordVoiceProofs ---------------------------
(***************************************************************************)
(* Theorems about DiscordVoice, for every set of people, channels and      *)
(* positions, every capacity of the events channel, and every value of the *)
(* bounds.                                                                 *)
(***************************************************************************)
EXTENDS DiscordVoice, SequenceTheorems, TLAPS

-----------------------------------------------------------------------------
(* The inductive invariant.  That the record of a level is true takes four  *)
(* facts: a record that was invalidated is empty, what a flush may still    *)
(* record was sent on the current connection, a roster that is about to be  *)
(* stored is covered like the one that is, and someone who left is told by  *)
(* the roster or by an event in the queue.                                  *)

\* What the loops hold is fixed by where they are.
PlacesInv ==
  /\ loopPc \in {"answered", "leave", "enter", "compare", "store"} => read # None
  /\ loopPc = "enter" => read.id \in Rooms
  /\ flushPc = "wait" => sending \in Targets /\ todo[sending] # Nothing
  /\ flushPc \in {"idle", "take"} => sent = Empty
  /\ asked => moves # <<>>

\* The reconnector has its last connection or none.
ConnInv ==
  /\ current \in {0, opened}
  /\ phase \in {"onUp", "renew"} => current # 0
  /\ phase = "close" => current = 0

\* A loss that was dealt with left no roster, and the loop holds none.
LossInv ==
  current = 0 /\ phase = "none" /\ ~reconcile =>
    roster = None /\ subscribedConn = 0 /\ loopPc = "idle"

\* The record is empty until the next flush begins.
StaleInv == ~upToDate => lastSent = Empty

\* What a flush may still record was sent on the current connection.
RecordInv == Announced => \A t \in Targets : MayRecord(t) => flushConn = current

\* Those of the roster the loop is about to store.
Entering ==
  {u \in Users : /\ loopPc = "store" /\ u \in read.users
                 /\ Event("VOICE_STATE_DELETE", u) \notin Elements(queue)}

Known == Followed \cup Entering

SentInv ==
  Announced /\ loopPc # "joined" => \A t \in Known \ doubt : RecordIsTrue(t)

ControlInv == PlacesInv /\ ConnInv /\ LossInv /\ StaleInv /\ RecordInv

VoiceIInv == VoiceTypeOK /\ ControlInv /\ SentInv

-----------------------------------------------------------------------------
(* The events channel.                                                      *)

AllEvents == [name : Kinds, user : Users] \cup {Select}

\* The first event taken, the others remain.
LEMMA TakingAnEvent ==
  ASSUME VoiceTypeOK, queue # <<>>
  PROVE  /\ Tail(queue) \in Seq(AllEvents) /\ Len(Tail(queue)) <= MaxEvents
         /\ Head(queue) \in AllEvents
         /\ Elements(queue) = {Head(queue)} \cup Elements(Tail(queue))
<1>1. /\ queue \in Seq(AllEvents) /\ Len(queue) <= MaxEvents /\ MaxEvents \in Nat
  BY VoiceAssumption DEF VoiceTypeOK, AllEvents
<1>2. /\ Head(queue) \in AllEvents /\ Tail(queue) \in Seq(AllEvents)
      /\ Len(Tail(queue)) = Len(queue) - 1
      /\ \A i \in 1..Len(Tail(queue)) : Tail(queue)[i] = queue[i + 1]
      /\ Len(queue) \in Nat /\ Head(queue) = queue[1]
  BY <1>1, VoiceAssumption, HeadTailProperties DEF VoiceTypeOK
<1>3. DOMAIN queue = 1..Len(queue) /\ DOMAIN Tail(queue) = 1..(Len(queue) - 1) /\ Len(queue) # 0
  BY <1>1, <1>2, VoiceAssumption DEF VoiceTypeOK
<1>4. Elements(queue) \subseteq {Head(queue)} \cup Elements(Tail(queue))
  <2> SUFFICES ASSUME NEW i \in 1..Len(queue)
               PROVE  queue[i] \in {Head(queue)} \cup Elements(Tail(queue))
    BY <1>3 DEF Elements
  <2>1. CASE i = 1
    BY <1>2, <2>1
  <2>2. CASE i # 1
    <3>1. i - 1 \in 1..(Len(queue) - 1) /\ (i - 1) + 1 = i
      BY <1>2, <2>2
    <3>2. Tail(queue)[i - 1] = queue[i]
      BY <1>2, <3>1
    <3> QED
      BY <1>3, <3>1, <3>2 DEF Elements
  <2> QED
    BY <2>1, <2>2
<1>5. {Head(queue)} \cup Elements(Tail(queue)) \subseteq Elements(queue)
  <2>1. Head(queue) \in Elements(queue)
    BY <1>2, <1>3 DEF Elements
  <2>2. ASSUME NEW i \in 1..(Len(queue) - 1)
        PROVE  Tail(queue)[i] \in Elements(queue)
    <3>1. i + 1 \in 1..Len(queue) /\ Tail(queue)[i] = queue[i + 1]
      BY <1>2
    <3> QED
      BY <1>3, <3>1 DEF Elements
  <2> QED
    BY <1>3, <2>1, <2>2 DEF Elements
<1> QED
  BY <1>1, <1>2, <1>4, <1>5

\* An event received is put behind the others or lost.
LEMMA QueuingAnEvent ==
  ASSUME VoiceTypeOK, NEW subscribed, NEW event \in AllEvents, Emit(subscribed, event)
  PROVE  /\ queue' \in Seq(AllEvents) /\ Len(queue') <= MaxEvents
         /\ Elements(queue) \subseteq Elements(queue')
<1>1. queue \in Seq(AllEvents) /\ Len(queue) <= MaxEvents /\ MaxEvents \in Nat
  BY VoiceAssumption DEF VoiceTypeOK, AllEvents
<1>2. CASE queue' = queue
  BY <1>1, <1>2 DEF Elements
<1>3. CASE queue' = Append(queue, event) /\ Len(queue) < MaxEvents
  <2>1. /\ queue' \in Seq(AllEvents) /\ Len(queue') = Len(queue) + 1
        /\ \A i \in 1..Len(queue) : queue'[i] = queue[i]
        /\ Len(queue) \in Nat
    BY <1>1, <1>3, AppendProperties
  <2>2. DOMAIN queue = 1..Len(queue) /\ DOMAIN queue' = 1..(Len(queue) + 1)
    BY <1>1, <2>1
  <2>3. Elements(queue) \subseteq Elements(queue')
    BY <2>1, <2>2 DEF Elements
  <2> QED
    BY <1>1, <1>3, <2>1, <2>3
<1> QED
  BY <1>2, <1>3 DEF Emit, QueueEvent

-----------------------------------------------------------------------------
(* Type correctness, one group of variables at a time.                      *)

WorldTypes ==
  /\ room \in Rooms \cup {NoRoom} /\ members \in [Rooms -> SUBSET Users]
  /\ volume \in [Targets -> Values \cup {Default}]
  /\ events \subseteq {ForSelect} \cup (Rooms \X Kinds)
  /\ late \subseteq [target : Targets, value : Values]
  /\ doubt \subseteq Targets

ConnTypes ==
  /\ changes \in 0..MaxChanges /\ opened \in 0..MaxConns
  /\ current \in 0..opened /\ flushConn \in 0..opened
  /\ loopConn \in 0..opened /\ subscribedConn \in 0..opened
  /\ phase \in {"none", "onUp", "renew", "close"} /\ alive \in BOOLEAN

SliderTypes ==
  /\ slider \in [Targets -> Values]
  /\ moves \in Seq([target : Targets, value : Values]) /\ asked \in BOOLEAN

FlushTypes ==
  /\ pending \in Queued /\ lastSent \in Queued /\ todo \in Queued
  /\ sent \in Queued /\ values \in Queued
  /\ sending \in Targets \cup {Nothing}
  /\ flushPc \in {"idle", "take", "send", "wait"} /\ upToDate \in BOOLEAN

LoopTypes ==
  /\ reconcile \in BOOLEAN
  /\ queue \in Seq(AllEvents) /\ Len(queue) <= MaxEvents
  /\ loopPc \in {"idle", "select", "read", "answered", "leave", "enter", "compare", "store",
                 "joined", "replay"}
  /\ subscribedChannel \in Rooms \cup {NoRoom}
  /\ roster \in Rosters \cup {None} /\ read \in Rosters \cup {None}

\* The groups make up the type invariant.
LEMMA TypesInGroups ==
  VoiceTypeOK <=> WorldTypes /\ ConnTypes /\ SliderTypes /\ FlushTypes /\ LoopTypes
<1>1. VoiceTypeOK => WorldTypes /\ ConnTypes /\ SliderTypes /\ FlushTypes /\ LoopTypes
  BY DEF VoiceTypeOK, WorldTypes, ConnTypes, SliderTypes, FlushTypes, LoopTypes, AllEvents
<1>2. WorldTypes /\ ConnTypes /\ SliderTypes /\ FlushTypes /\ LoopTypes => VoiceTypeOK
  BY DEF VoiceTypeOK, WorldTypes, ConnTypes, SliderTypes, FlushTypes, LoopTypes, AllEvents
<1> QED
  BY <1>1, <1>2

\* The same of the next state.
LEMMA TypesInGroupsNext ==
  VoiceTypeOK' <=> WorldTypes' /\ ConnTypes' /\ SliderTypes' /\ FlushTypes' /\ LoopTypes'
BY TypesInGroups, PTL

\* Every operation leaves each variable in its type.
LEMMA VoiceTypeKept ==
  ASSUME VoiceTypeOK, PlacesInv, ConnInv, [Next]_vars
  PROVE  VoiceTypeOK'
<1> SUFFICES WorldTypes' /\ ConnTypes' /\ SliderTypes' /\ FlushTypes' /\ LoopTypes'
  BY TypesInGroupsNext
<1>0. WorldTypes /\ ConnTypes /\ SliderTypes /\ FlushTypes /\ LoopTypes
  BY TypesInGroups
<1> USE <1>0, VoiceAssumption
    DEF vars, discordVars, connVars, sliderVars, flushVars, volumeVars, loopVars, inputVars, Change
<1>1. ASSUME NEW r \in Rooms \cup {NoRoom}, SelectChannel(r)
      PROVE  WorldTypes' /\ ConnTypes' /\ SliderTypes' /\ FlushTypes' /\ LoopTypes'
  <2>1. volume' \in [Targets -> Values \cup {Default}] /\ doubt' \subseteq Targets
    BY <1>1 DEF SelectChannel, MayForget, WorldTypes, Believed, Targets
  <2>2. WorldTypes'
    BY <1>1, <2>1 DEF SelectChannel, WorldFrame, WorldTypes
  <2>3. LoopTypes'
    <3>1. Emit(ForSelect, Select) /\ Select \in AllEvents
      BY <1>1 DEF SelectChannel, AllEvents
    <3>2. queue' \in Seq(AllEvents) /\ Len(queue') <= MaxEvents
      BY <3>1, QueuingAnEvent
    <3> QED
      BY <1>1, <3>2 DEF SelectChannel, WorldFrame, LoopTypes
  <2>4. ConnTypes' /\ SliderTypes' /\ FlushTypes'
    BY <1>1 DEF ConnTypes, SliderTypes, FlushTypes, SelectChannel, MayForget, Emit, QueueEvent,
        WorldFrame
  <2> QED
    BY <2>2, <2>3, <2>4
<1>2. ASSUME NEW u \in Users, NEW r \in Rooms, Join(u, r)
      PROVE  WorldTypes' /\ ConnTypes' /\ SliderTypes' /\ FlushTypes' /\ LoopTypes'
  <2>1. volume' \in [Targets -> Values \cup {Default}] /\ doubt' \subseteq Targets
    BY <1>2 DEF Join, MayForget, WorldTypes, Believed, Targets
  <2>2. WorldTypes'
    BY <1>2, <2>1 DEF Join, WorldFrame, WorldTypes
  <2>3. LoopTypes'
    <3>1. /\ Emit(<<r, "VOICE_STATE_CREATE">>, Event("VOICE_STATE_CREATE", u))
          /\ Event("VOICE_STATE_CREATE", u) \in AllEvents
      BY <1>2 DEF Join, AllEvents, Event, Kinds
    <3>2. queue' \in Seq(AllEvents) /\ Len(queue') <= MaxEvents
      BY <3>1, QueuingAnEvent
    <3> QED
      BY <1>2, <3>2 DEF Join, WorldFrame, LoopTypes
  <2>4. ConnTypes' /\ SliderTypes' /\ FlushTypes'
    BY <1>2 DEF ConnTypes, SliderTypes, FlushTypes, Join, MayForget, Emit, QueueEvent,
        WorldFrame
  <2> QED
    BY <2>2, <2>3, <2>4
<1>3. ASSUME NEW u \in Users, NEW r \in Rooms, Leave(u, r)
      PROVE  WorldTypes' /\ ConnTypes' /\ SliderTypes' /\ FlushTypes' /\ LoopTypes'
  <2>1. WorldTypes'
    BY <1>3 DEF Leave, WorldFrame, WorldTypes
  <2>2. LoopTypes'
    <3>1. /\ Emit(<<r, "VOICE_STATE_DELETE">>, Event("VOICE_STATE_DELETE", u))
          /\ Event("VOICE_STATE_DELETE", u) \in AllEvents
      BY <1>3 DEF Leave, AllEvents, Event, Kinds
    <3>2. queue' \in Seq(AllEvents) /\ Len(queue') <= MaxEvents
      BY <3>1, QueuingAnEvent
    <3> QED
      BY <1>3, <3>2 DEF Leave, WorldFrame, LoopTypes
  <2>3. ConnTypes' /\ SliderTypes' /\ FlushTypes'
    BY <1>3 DEF ConnTypes, SliderTypes, FlushTypes, Leave, Emit, QueueEvent, WorldFrame
  <2> QED
    BY <2>1, <2>2, <2>3
<1>4. ASSUME NEW t \in Targets, NEW v \in Values, MoveSlider(t, v)
      PROVE  WorldTypes' /\ ConnTypes' /\ SliderTypes' /\ FlushTypes' /\ LoopTypes'
  <2>1. SliderTypes'
    <3>1. moves' \in Seq([target : Targets, value : Values])
      BY <1>4, AppendProperties DEF MoveSlider, SliderTypes
    <3> QED
      BY <1>4, <3>1 DEF MoveSlider, MixerFrame, SliderTypes
  <2>2. WorldTypes' /\ ConnTypes' /\ FlushTypes' /\ LoopTypes'
    BY <1>4 DEF WorldTypes, ConnTypes, FlushTypes, LoopTypes, MoveSlider, MixerFrame
  <2> QED
    BY <2>1, <2>2
<1>5. CASE OnUpRenews
  BY <1>5 DEF OnUpRenews, Stays, ConnFrame, WorldTypes, ConnTypes, SliderTypes, FlushTypes,
      LoopTypes
<1>6. CASE TransportFails
  <2>1. changes' \in 0..MaxChanges
    BY <1>6 DEF TransportFails, ConnTypes
  <2>2. ConnTypes'
    BY <1>6, <2>1 DEF TransportFails, ConnFrame, ConnTypes
  <2>3. WorldTypes' /\ SliderTypes' /\ FlushTypes' /\ LoopTypes'
    BY <1>6 DEF WorldTypes, SliderTypes, FlushTypes, LoopTypes, TransportFails, Stays,
        ConnFrame
  <2> QED
    BY <2>2, <2>3
<1>7. ASSUME NEW command \in late, LateCommand(command)
      PROVE  WorldTypes' /\ ConnTypes' /\ SliderTypes' /\ FlushTypes' /\ LoopTypes'
  BY <1>7 DEF LateCommand, Set, FlushFrame, WorldTypes, ConnTypes, SliderTypes, FlushTypes,
      LoopTypes
<1>8. CASE Connect
  BY <1>8 DEF Connect, ConnFrame, WorldTypes, ConnTypes, SliderTypes, FlushTypes, LoopTypes
<1>9. CASE OnUp
  <2>1. FlushTypes'
    BY <1>9 DEF FlushTypes, Queued, Empty, OnUp, InvalidateVolumes, ConnFrame
  <2>2. WorldTypes' /\ ConnTypes' /\ SliderTypes' /\ LoopTypes'
    BY <1>9 DEF WorldTypes, ConnTypes, SliderTypes, LoopTypes, OnUp, InvalidateVolumes,
        ConnFrame
  <2> QED
    BY <2>1, <2>2
<1>10. CASE Drop
  BY <1>10 DEF Drop, Stays, ConnFrame, WorldTypes, ConnTypes, SliderTypes, FlushTypes,
      LoopTypes
<1>11. CASE Close
  <2>1. ConnTypes'
    BY <1>11 DEF ConnTypes, Close, Stays, ConnFrame
  <2>2. LoopTypes'
    BY <1>11 DEF LoopTypes, Close, Stays, ConnFrame
  <2>3. WorldTypes' /\ SliderTypes' /\ FlushTypes'
    BY <1>11 DEF WorldTypes, SliderTypes, FlushTypes, Close, Stays, ConnFrame
  <2> QED
    BY <2>1, <2>2, <2>3
<1>12. CASE SetVolume
  <2>1. moves' \in Seq([target : Targets, value : Values])
    <3>1. moves # <<>> /\ (moves' = moves \/ moves' = Tail(moves))
      BY <1>12 DEF SetVolume
    <3>2. moves # <<>> => Tail(moves) \in Seq([target : Targets, value : Values])
      BY HeadTailProperties DEF SliderTypes
    <3> QED
      BY <3>1, <3>2 DEF SliderTypes
  <2>2. SliderTypes'
    BY <1>12, <2>1 DEF SetVolume, SliderTypes
  <2>3. WorldTypes' /\ ConnTypes' /\ FlushTypes' /\ LoopTypes'
    BY <1>12 DEF WorldTypes, ConnTypes, FlushTypes, LoopTypes, SetVolume, MixerFrame
  <2> QED
    BY <2>2, <2>3
<1>13. CASE SetVolumeQueues
  <2>1. moves # <<>>
    BY <1>13 DEF SetVolumeQueues, PlacesInv
  <2>2. /\ Head(moves) \in [target : Targets, value : Values]
        /\ Tail(moves) \in Seq([target : Targets, value : Values])
    BY <2>1, HeadTailProperties DEF SliderTypes
  <2>3. SliderTypes'
    BY <1>13, <2>2 DEF SetVolumeQueues, SliderTypes
  <2>4. Head(moves).target \in Targets /\ Head(moves).value \in Values
    BY <2>2
  <2>5. FlushTypes'
    BY <1>13, <2>4 DEF SetVolumeQueues, MixerFrame, FlushTypes, Queued
  <2>6. WorldTypes' /\ ConnTypes' /\ LoopTypes'
    BY <1>13 DEF WorldTypes, ConnTypes, LoopTypes, SetVolumeQueues, MixerFrame
  <2> QED
    BY <2>3, <2>5, <2>6
<1>14. CASE Flush
  BY <1>14 DEF Flush, DiscordStays, FlushFrame, WorldTypes, ConnTypes, SliderTypes, FlushTypes,
      LoopTypes
<1>15. CASE TakePending
  <2>1. FlushTypes'
    BY <1>15 DEF FlushTypes, Queued, Empty, TakePending, DiscordStays, FlushFrame
  <2>2. WorldTypes' /\ ConnTypes' /\ SliderTypes' /\ LoopTypes'
    BY <1>15 DEF WorldTypes, ConnTypes, SliderTypes, LoopTypes, TakePending, DiscordStays,
        FlushFrame
  <2> QED
    BY <2>1, <2>2
<1>16. ASSUME NEW t \in Targets, Send(t)
      PROVE  WorldTypes' /\ ConnTypes' /\ SliderTypes' /\ FlushTypes' /\ LoopTypes'
  <2>1. FlushTypes'
    BY <1>16 DEF FlushTypes, Queued, Send, DiscordStays, FlushFrame
  <2>2. WorldTypes' /\ ConnTypes' /\ SliderTypes' /\ LoopTypes'
    BY <1>16 DEF WorldTypes, ConnTypes, SliderTypes, LoopTypes, Send, DiscordStays, FlushFrame
  <2> QED
    BY <2>1, <2>2
<1>17. CASE SendReturns
  <2>1. sending \in Targets /\ todo[sending] \in Values
    BY <1>17 DEF SendReturns, PlacesInv, FlushTypes, Queued
  <2>2. /\ volume' \in [Targets -> Values \cup {Default}]
        /\ late' \subseteq [target : Targets, value : Values]
    <3>1. [target |-> sending, value |-> todo[sending]] \in [target : Targets, value : Values]
      BY <2>1
    <3> QED
      BY <1>17, <2>1, <3>1 DEF SendReturns, Set, WorldTypes
  <2>3. WorldTypes'
    BY <1>17, <2>2 DEF SendReturns, FlushFrame, WorldTypes
  <2>4. FlushTypes'
    BY <1>17, <2>1 DEF SendReturns, FlushFrame, FlushTypes, Queued
  <2>5. ConnTypes'
    BY <1>17 DEF ConnTypes, SendReturns, Answered, Failed, Set, FlushFrame
  <2>6. SliderTypes' /\ LoopTypes'
    BY <1>17 DEF SliderTypes, LoopTypes, SendReturns, Answered, Failed, Set, FlushFrame
  <2> QED
    BY <2>3, <2>4, <2>5, <2>6
<1>18. CASE MarkSent
  <2>1. FlushTypes'
    BY <1>18 DEF FlushTypes, Queued, Empty, MarkSent, FlushIsCurrent, DiscordStays, FlushFrame
  <2>2. WorldTypes' /\ ConnTypes' /\ SliderTypes' /\ LoopTypes'
    BY <1>18 DEF WorldTypes, ConnTypes, SliderTypes, LoopTypes, MarkSent, FlushIsCurrent,
        DiscordStays, FlushFrame
  <2> QED
    BY <2>1, <2>2
<1>19. CASE Requested
  <2>1. ConnTypes'
    BY <1>19 DEF ConnTypes, Requested, ReconcileRoster, LoopFrame, VolumesStay, NoRequest
  <2>2. LoopTypes'
    BY <1>19 DEF LoopTypes, Requested, ReconcileRoster, LoopFrame, VolumesStay, NoRequest
  <2>3. WorldTypes' /\ SliderTypes' /\ FlushTypes'
    BY <1>19 DEF WorldTypes, SliderTypes, FlushTypes, Requested, ReconcileRoster, LoopFrame,
        VolumesStay, NoRequest
  <2> QED
    BY <2>1, <2>2, <2>3
<1>20. CASE ChannelSelected
  <2>1. Tail(queue) \in Seq(AllEvents) /\ Len(Tail(queue)) <= MaxEvents
    BY <1>20, TakingAnEvent DEF ChannelSelected
  <2>2. LoopTypes'
    BY <1>20, <2>1 DEF ChannelSelected, ReconcileRoster, LoopTypes
  <2>3. WorldTypes' /\ ConnTypes' /\ SliderTypes' /\ FlushTypes'
    BY <1>20 DEF WorldTypes, ConnTypes, SliderTypes, FlushTypes, ChannelSelected,
        ReconcileRoster, LoopFrame, VolumesStay, NoRequest
  <2> QED
    BY <2>2, <2>3
<1>21. CASE ApplyVoiceStateEvent
  <2>1. /\ Tail(queue) \in Seq(AllEvents) /\ Len(Tail(queue)) <= MaxEvents
        /\ Head(queue) \in AllEvents \ {Select}
    BY <1>21, TakingAnEvent DEF ApplyVoiceStateEvent
  <2>2. Head(queue).user \in Users
    BY <2>1 DEF AllEvents
  <2>3. roster' \in Rosters \cup {None}
    BY <1>21, <2>2 DEF ApplyVoiceStateEvent, LoopTypes, Rosters
  <2>4. LoopTypes'
    BY <1>21, <2>1, <2>3 DEF ApplyVoiceStateEvent, LoopTypes
  <2>5. WorldTypes' /\ ConnTypes' /\ SliderTypes' /\ FlushTypes'
    BY <1>21 DEF WorldTypes, ConnTypes, SliderTypes, FlushTypes, ApplyVoiceStateEvent,
        LoopFrame, VolumesStay, NoRequest
  <2> QED
    BY <2>4, <2>5
<1>22. CASE Tick
  BY <1>22 DEF Tick, ReconcileRoster, LoopFrame, VolumesStay, NoRequest, WorldTypes, ConnTypes,
      SliderTypes, FlushTypes, LoopTypes
<1>23. CASE SelectReturns
  BY <1>23 DEF SelectReturns, Subscribes, Answered, Failed, LoopFrame, VolumesStay, NoRequest,
      WorldTypes, ConnTypes, SliderTypes, FlushTypes, LoopTypes
<1>24. CASE ReadAnswered
  <2>1. VoiceChannel \in Rosters
    BY DEF VoiceChannel, Rosters, WorldTypes
  <2>2. LoopTypes'
    BY <1>24, <2>1 DEF ReadAnswered, LoopTypes
  <2>3. ConnTypes'
    BY <1>24 DEF ConnTypes, ReadAnswered, Answered, Failed, VoiceChannel, LoopFrame,
        VolumesStay, NoRequest
  <2>4. WorldTypes' /\ SliderTypes' /\ FlushTypes'
    BY <1>24 DEF WorldTypes, SliderTypes, FlushTypes, ReadAnswered, Answered, Failed,
        VoiceChannel, LoopFrame, VolumesStay, NoRequest
  <2> QED
    BY <2>2, <2>3, <2>4
<1>25. CASE ReadReturns
  BY <1>25 DEF ReadReturns, StillCurrent, LoopFrame, VolumesStay, NoRequest, WorldTypes,
      ConnTypes, SliderTypes, FlushTypes, LoopTypes
<1>26. CASE LeaveReturns
  BY <1>26 DEF LeaveReturns, Unsubscribes, Answered, Failed, LoopFrame, VolumesStay, NoRequest,
      WorldTypes, ConnTypes, SliderTypes, FlushTypes, LoopTypes
<1>27. CASE EnterReturns
  <2>1. read \in Rosters /\ read.id \in Rooms
    BY <1>27 DEF EnterReturns, PlacesInv, LoopTypes
  <2>2. WorldTypes'
    BY <1>27, <2>1 DEF EnterReturns, Subscribes, WorldTypes, LoopFrame, VolumesStay
  <2>3. LoopTypes'
    BY <1>27, <2>1 DEF EnterReturns, LoopTypes
  <2>4. ConnTypes'
    BY <1>27 DEF ConnTypes, EnterReturns, Subscribes, Answered, Failed, LoopFrame, VolumesStay,
        NoRequest
  <2>5. SliderTypes' /\ FlushTypes'
    BY <1>27 DEF SliderTypes, FlushTypes, EnterReturns, Subscribes, Answered, Failed, LoopFrame,
        VolumesStay, NoRequest
  <2> QED
    BY <2>2, <2>3, <2>4, <2>5
<1>28. CASE Compare
  <2>1. FlushTypes'
    BY <1>28 DEF FlushTypes, Queued, Empty, Compare, InvalidateVolumes, LoopFrame, VolumesStay, NoRequest
  <2>2. WorldTypes' /\ ConnTypes' /\ SliderTypes' /\ LoopTypes'
    BY <1>28 DEF WorldTypes, ConnTypes, SliderTypes, LoopTypes, Compare, InvalidateVolumes,
        LoopFrame, VolumesStay, NoRequest
  <2> QED
    BY <2>1, <2>2
<1>29. CASE Store
  <2>1. FlushTypes'
    BY <1>29 DEF FlushTypes, SliderTypes, Queued, Store, LoopFrame, VolumesStay, NoRequest
  <2>2. LoopTypes'
    BY <1>29 DEF LoopTypes, Store, LoopFrame, VolumesStay, NoRequest
  <2>3. WorldTypes' /\ ConnTypes' /\ SliderTypes'
    BY <1>29 DEF WorldTypes, ConnTypes, SliderTypes, Store, LoopFrame, VolumesStay, NoRequest
  <2> QED
    BY <2>1, <2>2, <2>3
<1>30. CASE Joined
  <2>1. FlushTypes'
    BY <1>30 DEF FlushTypes, Queued, Empty, SliderTypes, WorldTypes, Joined, InvalidateVolumes, LoopFrame, VolumesStay, NoRequest
  <2>2. WorldTypes' /\ ConnTypes' /\ SliderTypes' /\ LoopTypes'
    BY <1>30 DEF WorldTypes, ConnTypes, SliderTypes, LoopTypes, Joined, InvalidateVolumes,
        LoopFrame, VolumesStay, NoRequest
  <2> QED
    BY <2>1, <2>2
<1>31. CASE ReplayMappedSliderValues
  <2>1. FlushTypes'
    BY <1>31 DEF FlushTypes, Queued, Empty, ReplayMappedSliderValues, LoopFrame, VolumesStay, NoRequest
  <2>2. WorldTypes' /\ ConnTypes' /\ SliderTypes' /\ LoopTypes'
    BY <1>31 DEF WorldTypes, ConnTypes, SliderTypes, LoopTypes, ReplayMappedSliderValues,
        LoopFrame, VolumesStay, NoRequest
  <2> QED
    BY <2>1, <2>2
<1>32. CASE UNCHANGED vars
  BY <1>32 DEF WorldTypes, ConnTypes, SliderTypes, FlushTypes, LoopTypes
<1> QED
  BY <1>1, <1>2, <1>3, <1>4, <1>5, <1>6, <1>7, <1>8, <1>9, <1>10, <1>11, <1>12, <1>13, <1>14,
      <1>15, <1>16, <1>17, <1>18, <1>19, <1>20, <1>21, <1>22, <1>23, <1>24, <1>25, <1>26,
      <1>27, <1>28, <1>29, <1>30, <1>31, <1>32
  DEF Next, World, Reconnecting, Mixing, Flushing, Taking, Handling

-----------------------------------------------------------------------------
(* Where the loops and the connection are.                                  *)

\* Every operation leaves the loops and the connection in step.
LEMMA ControlKept ==
  ASSUME VoiceTypeOK, ControlInv, VoiceTypeOK', [Next]_vars
  PROVE  ControlInv'
<1> USE VoiceAssumption
    DEF VoiceTypeOK, ControlInv, PlacesInv, ConnInv, LossInv, StaleInv, RecordInv, MayRecord,
        Announced, vars, discordVars, connVars, sliderVars, flushVars, volumeVars, loopVars, inputVars, Change
<1>1. ASSUME NEW r \in Rooms \cup {NoRoom}, SelectChannel(r)
      PROVE  ControlInv'
  BY <1>1 DEF SelectChannel, MayForget, Emit, QueueEvent, WorldFrame
<1>2. ASSUME NEW u \in Users, NEW r \in Rooms, Join(u, r)
      PROVE  ControlInv'
  BY <1>2 DEF Join, MayForget, Emit, QueueEvent, WorldFrame
<1>3. ASSUME NEW u \in Users, NEW r \in Rooms, Leave(u, r)
      PROVE  ControlInv'
  BY <1>3 DEF Leave, Emit, QueueEvent, WorldFrame
<1>4. ASSUME NEW t \in Targets, NEW v \in Values, MoveSlider(t, v)
      PROVE  ControlInv'
  BY <1>4 DEF MoveSlider, MixerFrame
<1>5. CASE OnUpRenews
  BY <1>5 DEF OnUpRenews, Stays, ConnFrame
<1>6. CASE TransportFails
  BY <1>6 DEF TransportFails, Stays, ConnFrame
<1>7. ASSUME NEW command \in late, LateCommand(command)
      PROVE  ControlInv'
  BY <1>7 DEF LateCommand, Set, FlushFrame
<1>8. CASE Connect
  BY <1>8 DEF Connect, ConnFrame
<1>9. CASE OnUp
  BY <1>9 DEF OnUp, InvalidateVolumes, ConnFrame
<1>10. CASE Drop
  BY <1>10 DEF Drop, Stays, ConnFrame
<1>11. CASE Close
  BY <1>11 DEF Close, Stays, ConnFrame
<1>12. CASE SetVolume
  BY <1>12 DEF SetVolume, MixerFrame
<1>13. CASE SetVolumeQueues
  BY <1>13 DEF SetVolumeQueues, MixerFrame
<1>14. CASE Flush
  BY <1>14 DEF Flush, DiscordStays, FlushFrame
<1>15. CASE TakePending
  <2>1. PlacesInv'
    BY <1>15 DEF TakePending, DiscordStays, FlushFrame
  <2>2. ConnInv'
    BY <1>15 DEF TakePending, DiscordStays, FlushFrame
  <2>3. LossInv'
    BY <1>15 DEF TakePending, DiscordStays, FlushFrame
  <2>4. StaleInv'
    BY <1>15 DEF TakePending, DiscordStays, FlushFrame
  <2>5. RecordInv'
    <3>1. sent' = Empty
      BY <1>15 DEF TakePending
    <3>2. \A t \in Targets : ~(sent[t] # Nothing)'
      BY <3>1 DEF Empty
    <3> QED
      BY <3>2
  <2> QED
    BY <2>1, <2>2, <2>3, <2>4, <2>5
<1>16. ASSUME NEW t \in Targets, Send(t)
      PROVE  ControlInv'
  BY <1>16 DEF Send, DiscordStays, FlushFrame
<1>17. CASE SendReturns
  BY <1>17 DEF SendReturns, Answered, Failed, Set, FlushFrame
<1>18. CASE MarkSent
  <2>1. PlacesInv'
    BY <1>18 DEF MarkSent, FlushFrame
  <2>2. ConnInv'
    BY <1>18 DEF MarkSent, FlushIsCurrent, DiscordStays, FlushFrame
  <2>3. LossInv'
    BY <1>18 DEF MarkSent, FlushIsCurrent, DiscordStays, FlushFrame
  <2>4. StaleInv'
    BY <1>18 DEF MarkSent, FlushIsCurrent, DiscordStays, FlushFrame
  <2>5. RecordInv'
    <3>1. sent' = Empty
      BY <1>18 DEF MarkSent
    <3>2. \A t \in Targets : ~(sent[t] # Nothing)'
      BY <3>1 DEF Empty
    <3> QED
      BY <3>2
  <2> QED
    BY <2>1, <2>2, <2>3, <2>4, <2>5
<1>19. CASE Requested
  BY <1>19 DEF Requested, ReconcileRoster, LoopFrame, VolumesStay, NoRequest
<1>20. CASE ChannelSelected
  BY <1>20 DEF ChannelSelected, ReconcileRoster, LoopFrame, VolumesStay, NoRequest
<1>21. CASE ApplyVoiceStateEvent
  BY <1>21 DEF ApplyVoiceStateEvent, LoopFrame, VolumesStay, NoRequest
<1>22. CASE Tick
  BY <1>22 DEF Tick, ReconcileRoster, LoopFrame, VolumesStay, NoRequest
<1>23. CASE SelectReturns
  BY <1>23 DEF SelectReturns, Subscribes, Answered, Failed, LoopFrame, VolumesStay, NoRequest
<1>24. CASE ReadAnswered
  <2>1. PlacesInv'
    <3>1. VoiceChannel # None
      BY SMTT(30) DEF VoiceChannel, Rosters
    <3> QED
      BY <1>24, <3>1 DEF ReadAnswered, LoopFrame
  <2>2. ConnInv'
    BY <1>24 DEF ReadAnswered, Answered, Failed, VoiceChannel, LoopFrame, VolumesStay, NoRequest
  <2>3. LossInv'
    BY <1>24 DEF ReadAnswered, Answered, Failed, VoiceChannel, LoopFrame, VolumesStay, NoRequest
  <2>4. StaleInv'
    BY <1>24 DEF ReadAnswered, Answered, Failed, VoiceChannel, LoopFrame, VolumesStay, NoRequest
  <2>5. RecordInv'
    BY <1>24 DEF ReadAnswered, Answered, Failed, VoiceChannel, LoopFrame, VolumesStay, NoRequest
  <2> QED
    BY <2>1, <2>2, <2>3, <2>4, <2>5
<1>25. CASE ReadReturns
  <2>1. PlacesInv'
    <3>1. read \in Rosters
      BY <1>25 DEF ReadReturns
    <3>2. loopPc' = "enter" => read' \in Rosters /\ read'.id \in Rooms
      BY <1>25, <3>1 DEF ReadReturns, StillCurrent, Rosters
    <3>3. loopPc' \in {"idle", "compare", "enter", "leave"} /\ (loopPc' # "idle" => read' = read)
      BY <1>25 DEF ReadReturns, StillCurrent
    <3> QED
      BY <1>25, <3>1, <3>2, <3>3 DEF ReadReturns, LoopFrame
  <2>2. ConnInv'
    BY <1>25 DEF ReadReturns, StillCurrent, LoopFrame, VolumesStay, NoRequest
  <2>3. LossInv'
    BY <1>25 DEF ReadReturns, StillCurrent, LoopFrame, VolumesStay, NoRequest
  <2>4. StaleInv'
    BY <1>25 DEF ReadReturns, StillCurrent, LoopFrame, VolumesStay, NoRequest
  <2>5. RecordInv'
    BY <1>25 DEF ReadReturns, StillCurrent, LoopFrame, VolumesStay, NoRequest
  <2> QED
    BY <2>1, <2>2, <2>3, <2>4, <2>5
<1>26. CASE LeaveReturns
  <2>1. PlacesInv'
    <3>1. read \in Rosters /\ read' = read
      BY <1>26 DEF LeaveReturns
    <3> QED
      BY <1>26, <3>1 DEF LeaveReturns, Unsubscribes, LoopFrame, Rosters
  <2>2. ConnInv'
    BY <1>26 DEF LeaveReturns, Unsubscribes, Answered, Failed, LoopFrame, VolumesStay, NoRequest
  <2>3. LossInv'
    BY <1>26 DEF LeaveReturns, Unsubscribes, Answered, Failed, LoopFrame, VolumesStay, NoRequest
  <2>4. StaleInv'
    BY <1>26 DEF LeaveReturns, Unsubscribes, Answered, Failed, LoopFrame, VolumesStay, NoRequest
  <2>5. RecordInv'
    BY <1>26 DEF LeaveReturns, Unsubscribes, Answered, Failed, LoopFrame, VolumesStay, NoRequest
  <2> QED
    BY <2>1, <2>2, <2>3, <2>4, <2>5
<1>27. CASE EnterReturns
  BY <1>27 DEF EnterReturns, Subscribes, Answered, Failed, LoopFrame, VolumesStay, NoRequest
<1>28. CASE Compare
  BY <1>28 DEF Compare, InvalidateVolumes, LoopFrame, VolumesStay, NoRequest
<1>29. CASE Store
  BY <1>29 DEF Store, LoopFrame, VolumesStay, NoRequest
<1>30. CASE Joined
  BY <1>30 DEF Joined, InvalidateVolumes, LoopFrame, VolumesStay, NoRequest
<1>31. CASE ReplayMappedSliderValues
  BY <1>31 DEF ReplayMappedSliderValues, LoopFrame, VolumesStay, NoRequest
<1>32. CASE UNCHANGED vars
  BY <1>32
<1> QED
  BY <1>1, <1>2, <1>3, <1>4, <1>5, <1>6, <1>7, <1>8, <1>9, <1>10, <1>11, <1>12, <1>13, <1>14,
      <1>15, <1>16, <1>17, <1>18, <1>19, <1>20, <1>21, <1>22, <1>23, <1>24, <1>25, <1>26,
      <1>27, <1>28, <1>29, <1>30, <1>31, <1>32
  DEF Next, World, Reconnecting, Mixing, Flushing, Taking, Handling

-----------------------------------------------------------------------------
(* The record of what reached Discord.                                      *)

\* A roster is of users, and every one of them is a target.
LEMMA KnownAreTargets ==
  ASSUME VoiceTypeOK, PlacesInv
  PROVE  /\ Known \subseteq Targets
         /\ \A t \in Known : t \in Own \/ t \in Believed
<1>1. Followed \subseteq Targets /\ \A t \in Followed : t \in Own \/ t \in Believed
  BY DEF Followed, Targets, Believed
<1>2. Entering \subseteq Users /\ \A t \in Entering : t \in Believed
  <2>1. loopPc = "store" => read # None
    BY DEF PlacesInv
  <2> QED
    BY <2>1 DEF Entering, Believed
<1> QED
  BY <1>1, <1>2 DEF Known, Targets

\* Nobody becomes known while the rosters stay and no event is taken.
LEMMA KnownKept ==
  ASSUME roster' = roster, loopPc' = "store" => loopPc = "store" /\ read' = read,
         Elements(queue) \subseteq Elements(queue')
  PROVE  Known' \subseteq Known
BY DEF Known, Followed, Entering

\* A step that records nothing keeps the record true, for those whose level it
\* leaves alone or lets be unknown.
LEMMA SentKept ==
  ASSUME SentInv, UNCHANGED <<sent, lastSent, upToDate>>,
         Announced' /\ loopPc' # "joined" => Announced /\ loopPc # "joined",
         Known' \subseteq Known, doubt \subseteq doubt',
         \A t \in Known \ doubt' : volume'[t] = volume[t]
  PROVE  SentInv'
BY DEF SentInv, RecordIsTrue, MayRecord

\* A step that changes neither levels nor rosters.
LEMMA QuietKeepsSent ==
  ASSUME SentInv, UNCHANGED <<sent, lastSent, upToDate, doubt, volume, roster, queue>>,
         Announced' => Announced, loopPc = "joined" => loopPc' = "joined",
         loopPc' = "store" => loopPc = "store" /\ read' = read
  PROVE  SentInv'
<1>1. Known' \subseteq Known
  BY KnownKept
<1> QED
  BY <1>1, SentKept

\* An empty record is true.
LEMMA InvalidatedIsTrue ==
  ASSUME VoiceTypeOK', PlacesInv', InvalidateVolumes
  PROVE  SentInv'
<1>1. Known' \subseteq Targets'
  BY DEF Known, Followed, Entering, Targets
<1>2. \A t \in Targets : lastSent'[t] = Nothing
  BY DEF InvalidateVolumes, Empty
<1>3. \A t \in Targets' : RecordIsTrue(t)'
  BY <1>2 DEF RecordIsTrue, MayRecord, InvalidateVolumes, Targets
<1> QED
  BY <1>1, <1>3 DEF SentInv

\* Every operation keeps the record true.
LEMMA SentInvKept ==
  ASSUME VoiceIInv, VoiceTypeOK', ControlInv', [Next]_vars
  PROVE  SentInv'
<1> USE VoiceAssumption DEF VoiceIInv, vars, discordVars, connVars, sliderVars, flushVars, volumeVars, loopVars, inputVars, Change
<1>1. ASSUME NEW r \in Rooms \cup {NoRoom}, SelectChannel(r)
      PROVE  SentInv'
  <2>1. /\ UNCHANGED <<sent, lastSent, upToDate, roster, read, loopPc, current, phase>>
        /\ Elements(queue) \subseteq Elements(queue')
    <3>1. Emit(ForSelect, Select) /\ Select \in AllEvents
      BY <1>1 DEF SelectChannel, AllEvents
    <3>2. Elements(queue) \subseteq Elements(queue')
      BY <3>1, QueuingAnEvent
    <3> QED
      BY <1>1, <3>2 DEF SelectChannel, WorldFrame
  <2>2. Known' \subseteq Known
    BY <2>1, KnownKept
  <2>3. doubt \subseteq doubt' /\ \A t \in Known \ doubt' : volume'[t] = volume[t]
    <3>1. CASE r = NoRoom
      BY <1>1, <3>1 DEF SelectChannel
    <3>2. CASE r # NoRoom
      <4>1. MayForget(members[r])
        BY <1>1, <3>2 DEF SelectChannel
      <4>2. members[r] \subseteq Users
        BY <3>2 DEF VoiceTypeOK
      <4>3. \A t \in Known : t \in Targets /\ (t \in Own \/ t \in Believed)
        BY KnownAreTargets DEF ControlInv
      <4> QED
        BY <4>1, <4>2, <4>3 DEF MayForget
    <3> QED
      BY <3>1, <3>2
  <2> QED
    BY <2>1, <2>2, <2>3, SentKept DEF Announced
<1>2. ASSUME NEW u \in Users, NEW r \in Rooms, Join(u, r)
      PROVE  SentInv'
  <2>1. /\ UNCHANGED <<sent, lastSent, upToDate, roster, read, loopPc, current, phase>>
        /\ Elements(queue) \subseteq Elements(queue')
    <3>1. /\ Emit(<<r, "VOICE_STATE_CREATE">>, Event("VOICE_STATE_CREATE", u))
          /\ Event("VOICE_STATE_CREATE", u) \in AllEvents
      BY <1>2 DEF Join, AllEvents, Event, Kinds
    <3>2. Elements(queue) \subseteq Elements(queue')
      BY <3>1, QueuingAnEvent
    <3> QED
      BY <1>2, <3>2 DEF Join, WorldFrame
  <2>2. Known' \subseteq Known
    BY <2>1, KnownKept
  <2>3. doubt \subseteq doubt' /\ \A t \in Known \ doubt' : volume'[t] = volume[t]
    <3>1. UNCHANGED <<volume, doubt>> \/ MayForget({u})
      BY <1>2 DEF Join
    <3>2. {u} \subseteq Users
      BY DEF VoiceTypeOK
    <3>3. \A t \in Known : t \in Targets /\ (t \in Own \/ t \in Believed)
      BY KnownAreTargets DEF ControlInv
    <3> QED
      BY <3>1, <3>2, <3>3 DEF MayForget
  <2> QED
    BY <2>1, <2>2, <2>3, SentKept DEF Announced
<1>3. ASSUME NEW u \in Users, NEW r \in Rooms, Leave(u, r)
      PROVE  SentInv'
  <2>1. /\ UNCHANGED <<sent, lastSent, upToDate, roster, read, loopPc, current, phase>>
        /\ Elements(queue) \subseteq Elements(queue')
    <3>1. /\ Emit(<<r, "VOICE_STATE_DELETE">>, Event("VOICE_STATE_DELETE", u))
          /\ Event("VOICE_STATE_DELETE", u) \in AllEvents
      BY <1>3 DEF Leave, AllEvents, Event, Kinds
    <3>2. Elements(queue) \subseteq Elements(queue')
      BY <3>1, QueuingAnEvent
    <3> QED
      BY <1>3, <3>2 DEF Leave, WorldFrame
  <2>2. Known' \subseteq Known
    BY <2>1, KnownKept
  <2>3. doubt \subseteq doubt' /\ \A t \in Known \ doubt' : volume'[t] = volume[t]
    BY <1>3 DEF Leave
  <2> QED
    BY <2>1, <2>2, <2>3, SentKept DEF Announced
<1>4. ASSUME NEW t \in Targets, NEW v \in Values, MoveSlider(t, v)
      PROVE  SentInv'
  BY <1>4, QuietKeepsSent DEF MoveSlider, MixerFrame, Announced
<1>5. CASE OnUpRenews
  BY <1>5, QuietKeepsSent DEF OnUpRenews, Stays, ConnFrame, Announced
<1>6. CASE TransportFails
  BY <1>6, QuietKeepsSent DEF TransportFails, Stays, ConnFrame, Announced
<1>7. ASSUME NEW command \in late, LateCommand(command)
      PROVE  SentInv'
  <2>1. /\ UNCHANGED <<sent, lastSent, upToDate, roster, read, loopPc, queue, current, phase>>
        /\ doubt' = doubt \cup {command.target}
        /\ volume' = [volume EXCEPT ![command.target] = command.value]
    BY <1>7 DEF LateCommand, Set, FlushFrame
  <2>2. Known' \subseteq Known
    BY <2>1, KnownKept
  <2>3. \A t \in Known \ doubt' : volume'[t] = volume[t]
    BY <2>1 DEF VoiceTypeOK
  <2> QED
    BY <2>1, <2>2, <2>3, SentKept DEF Announced
<1>8. CASE Connect
  <2>1. phase' = "onUp"
    BY <1>8 DEF Connect, ConnFrame, ControlInv, ConnInv
  <2> QED
    BY <2>1 DEF SentInv, Announced
<1>9. CASE OnUp
  BY <1>9, InvalidatedIsTrue DEF OnUp, ControlInv
<1>10. CASE Drop
  BY <1>10, QuietKeepsSent DEF Drop, Stays, ConnFrame, Announced
<1>11. CASE Close
  <2>1. current' = 0
    BY <1>11 DEF Close, ConnFrame, ControlInv, ConnInv
  <2> QED
    BY <2>1 DEF SentInv, Announced
<1>12. CASE SetVolume
  BY <1>12, QuietKeepsSent DEF SetVolume, MixerFrame, Announced
<1>13. CASE SetVolumeQueues
  BY <1>13, QuietKeepsSent DEF SetVolumeQueues, MixerFrame, Announced
<1>14. CASE Flush
  BY <1>14, QuietKeepsSent DEF Flush, DiscordStays, FlushFrame, Announced
<1>15. CASE TakePending
  <2>1. /\ UNCHANGED <<roster, read, loopPc, queue, current, phase, doubt, volume, sent, lastSent>>
    BY <1>15 DEF TakePending, DiscordStays, FlushFrame
  <2>2. Known' \subseteq Known /\ Known \subseteq Targets
    BY <2>1, KnownKept, KnownAreTargets DEF ControlInv
  <2>3. \A t \in Targets : sent[t] = Nothing
    BY <1>15 DEF TakePending, ControlInv, PlacesInv, Empty
  <2>4. \A t \in Targets : RecordIsTrue(t) => RecordIsTrue(t)'
    BY <2>1, <2>3 DEF RecordIsTrue, MayRecord
  <2> QED
    BY <2>1, <2>2, <2>4 DEF SentInv, Announced
<1>16. ASSUME NEW t \in Targets, Send(t)
      PROVE  SentInv'
  BY <1>16, QuietKeepsSent DEF Send, DiscordStays, FlushFrame, Announced
<1>17. CASE SendReturns
  <2>1. /\ UNCHANGED <<roster, read, loopPc, queue, current, phase, doubt, lastSent, upToDate>>
    BY <1>17 DEF SendReturns, FlushFrame
  <2>2. Known' \subseteq Known /\ Known \subseteq Targets
    BY <2>1, KnownKept, KnownAreTargets DEF ControlInv
  <2>3. CASE volume' = volume /\ sent' = sent
    BY <2>1, <2>2, <2>3, SentKept DEF Announced
  <2>4. CASE /\ volume' = [volume EXCEPT ![sending] = todo[sending]]
             /\ sent' = [sent EXCEPT ![sending] = todo[sending]]
    <3>1. sending \in Targets /\ todo[sending] # Nothing
      BY <1>17 DEF SendReturns, ControlInv, PlacesInv
    <3>2. ~upToDate => \A t \in Targets : lastSent[t] = Nothing
      BY DEF ControlInv, StaleInv, Empty
    <3>3. \A t \in Targets : RecordIsTrue(t) => RecordIsTrue(t)'
      BY <2>1, <2>4, <3>1, <3>2 DEF RecordIsTrue, MayRecord, VoiceTypeOK, Queued
    <3> QED
      BY <2>1, <2>2, <3>3 DEF SentInv, Announced
  <2> QED
    BY <1>17, <2>3, <2>4 DEF SendReturns, Set
<1>18. CASE MarkSent
  <2>1. /\ UNCHANGED <<roster, read, loopPc, queue, current, phase, doubt, volume, upToDate>>
    BY <1>18 DEF MarkSent, DiscordStays, FlushFrame
  <2>2. Known' \subseteq Known /\ Known \subseteq Targets
    BY <2>1, KnownKept, KnownAreTargets DEF ControlInv
  <2>3. \A t \in Targets : ~MayRecord(t)'
    BY <1>18 DEF MarkSent, MayRecord, Empty
  <2>4. CASE FlushIsCurrent
    <3>1. \A t \in Targets : lastSent'[t] = IF sent[t] # Nothing THEN sent[t] ELSE lastSent[t]
      BY <1>18, <2>4 DEF MarkSent
    <3>2. \A t \in Targets : RecordIsTrue(t) => RecordIsTrue(t)'
      BY <2>1, <2>3, <2>4, <3>1 DEF RecordIsTrue, MayRecord, FlushIsCurrent
    <3> QED
      BY <2>1, <2>2, <3>2 DEF SentInv, Announced
  <2>5. CASE ~FlushIsCurrent
    <3>1. lastSent' = lastSent
      BY <1>18, <2>5 DEF MarkSent
    <3>2. CASE Announced
      <4>1. \A t \in Targets : ~MayRecord(t)
        BY <2>5, <3>2 DEF ControlInv, RecordInv, FlushIsCurrent, MayRecord
      <4>2. \A t \in Targets : RecordIsTrue(t) => RecordIsTrue(t)'
        BY <2>1, <2>3, <3>1, <4>1 DEF RecordIsTrue
      <4> QED
        BY <2>1, <2>2, <4>2 DEF SentInv, Announced
    <3>3. CASE ~Announced
      BY <2>1, <3>3 DEF SentInv, Announced
    <3> QED
      BY <3>2, <3>3
  <2> QED
    BY <2>4, <2>5
<1>19. CASE Requested
  <2>1. CASE current = 0
    BY <1>19, <2>1 DEF Requested, LoopFrame, SentInv, Announced
  <2>2. CASE current # 0
    <3>1. roster' = roster /\ loopPc' \in {"read", "select"} /\ loopPc = "idle"
      BY <1>19, <2>2 DEF Requested, ReconcileRoster
    <3> QED
      BY <1>19, <3>1, QuietKeepsSent DEF Requested, LoopFrame, VolumesStay, Announced
  <2> QED
    BY <2>1, <2>2
<1>20. CASE ChannelSelected
  <2>1. CASE current = 0
    BY <1>20, <2>1 DEF ChannelSelected, LoopFrame, SentInv, Announced
  <2>2. CASE current # 0
    <3>1. roster' = roster /\ loopPc' \in {"read", "select"} /\ loopPc = "idle"
      BY <1>20, <2>2 DEF ChannelSelected, ReconcileRoster
    <3>2. Elements(queue) = {Select} \cup Elements(queue')
      BY <1>20, TakingAnEvent DEF ChannelSelected
    <3>3. \A u : Event("VOICE_STATE_DELETE", u) # Select
      BY DEF Event, Select
    <3>4. Known' \subseteq Known
      BY <3>1, <3>2, <3>3 DEF Known, Followed, Entering
    <3> QED
      BY <1>20, <3>1, <3>4, SentKept DEF ChannelSelected, LoopFrame, VolumesStay, Announced
  <2> QED
    BY <2>1, <2>2
<1>21. CASE ApplyVoiceStateEvent
  <2>1. /\ loopPc = "idle" /\ UNCHANGED <<sent, lastSent, upToDate, doubt, volume, current, phase>>
    BY <1>21 DEF ApplyVoiceStateEvent, LoopFrame, VolumesStay
  <2>2. CASE loopPc' = "joined"
    BY <2>2 DEF SentInv
  <2>3. CASE loopPc' # "joined"
    <3>1. /\ Elements(queue) = {Head(queue)} \cup Elements(queue')
          /\ Head(queue) \in AllEvents \ {Select}
      BY <1>21, TakingAnEvent DEF ApplyVoiceStateEvent
    <3>2. /\ loopPc' = "idle"
          /\ \/ roster' = roster /\ (Head(queue).name # "VOICE_STATE_DELETE" \/ roster = None)
             \/ /\ roster # None /\ roster' = [roster EXCEPT !.users = @ \ {Head(queue).user}]
                /\ Head(queue).name = "VOICE_STATE_DELETE"
      BY <1>21, <2>3, <3>1 DEF ApplyVoiceStateEvent, AllEvents, Kinds
    <3>3. ASSUME NEW t \in Known', t \notin Known PROVE FALSE
      <4>1. /\ t \in Users /\ roster' # None /\ t \in roster'.users
            /\ Event("VOICE_STATE_DELETE", t) \notin Elements(queue')
        BY <3>2, <3>3 DEF Known, Followed, Entering
      <4>2. roster \in Rosters
        BY <3>2, <4>1 DEF VoiceTypeOK
      <4>3. t \in roster.users /\ roster # None
        BY <3>2, <4>1, <4>2 DEF Rosters
      <4>4. Event("VOICE_STATE_DELETE", t) = Head(queue)
        BY <3>1, <3>3, <4>1, <4>3 DEF Known, Followed
      <4>5. Head(queue).name = "VOICE_STATE_DELETE" /\ Head(queue).user = t
        BY <4>4 DEF Event
      <4>6. roster' = [roster EXCEPT !.users = @ \ {t}]
        BY <3>2, <4>3, <4>5
      <4> QED
        BY <4>1, <4>2, <4>6 DEF Rosters
    <3> QED
      BY <2>1, <2>3, <3>3, SentKept DEF Announced
  <2> QED
    BY <2>2, <2>3
<1>22. CASE Tick
  <2>1. CASE current = 0
    BY <1>22, <2>1 DEF Tick, LoopFrame, SentInv, Announced
  <2>2. CASE current # 0
    <3>1. roster' = roster /\ loopPc' \in {"read", "select"} /\ loopPc = "idle"
      BY <1>22, <2>2 DEF Tick, ReconcileRoster
    <3> QED
      BY <1>22, <3>1, QuietKeepsSent DEF Tick, LoopFrame, VolumesStay, Announced
  <2> QED
    BY <2>1, <2>2
<1>23. CASE SelectReturns
  BY <1>23, QuietKeepsSent DEF SelectReturns, Subscribes, Answered, Failed, LoopFrame,
      VolumesStay, NoRequest, Announced
<1>24. CASE ReadAnswered
  BY <1>24, QuietKeepsSent DEF ReadAnswered, Answered, Failed, VoiceChannel, LoopFrame,
      VolumesStay, NoRequest, Announced
<1>25. CASE ReadReturns
  BY <1>25, QuietKeepsSent DEF ReadReturns, StillCurrent, LoopFrame, VolumesStay, NoRequest,
      Announced
<1>26. CASE LeaveReturns
  BY <1>26, QuietKeepsSent DEF LeaveReturns, Unsubscribes, Answered, Failed, LoopFrame,
      VolumesStay, NoRequest, Announced
<1>27. CASE EnterReturns
  BY <1>27, QuietKeepsSent DEF EnterReturns, Subscribes, Answered, Failed, LoopFrame,
      VolumesStay, NoRequest, Announced
<1>28. CASE Compare
  <2>1. CASE RosterNeedsReplay
    BY <1>28, <2>1, InvalidatedIsTrue DEF Compare, ControlInv
  <2>2. CASE ~RosterNeedsReplay
    <3>1. /\ loopPc' = "store" /\ loopPc = "compare"
          /\ UNCHANGED <<sent, lastSent, upToDate, doubt, volume, roster, read, queue, current, phase>>
      BY <1>28, <2>2 DEF Compare, LoopFrame
    <3>2. Known' \subseteq Known
      BY <2>2, <3>1 DEF Known, Followed, Entering, RosterNeedsReplay
    <3> QED
      BY <3>1, <3>2, SentKept DEF Announced
  <2> QED
    BY <2>1, <2>2
<1>29. CASE Store
  <2>1. /\ loopPc = "store" /\ loopPc' = "replay" /\ roster' = read
        /\ UNCHANGED <<sent, lastSent, upToDate, doubt, volume, queue, current, phase>>
    BY <1>29 DEF Store, LoopFrame, VolumesStay
  <2>2. Known' \subseteq Known
    BY <2>1 DEF Known, Followed, Entering
  <2> QED
    BY <2>1, <2>2, SentKept DEF Announced
<1>30. CASE Joined
  BY <1>30, InvalidatedIsTrue DEF Joined, ControlInv
<1>31. CASE ReplayMappedSliderValues
  BY <1>31, QuietKeepsSent DEF ReplayMappedSliderValues, LoopFrame, VolumesStay, NoRequest,
      Announced
<1>32. CASE UNCHANGED vars
  BY <1>32, QuietKeepsSent DEF Announced
<1> QED
  BY <1>1, <1>2, <1>3, <1>4, <1>5, <1>6, <1>7, <1>8, <1>9, <1>10, <1>11, <1>12, <1>13, <1>14,
      <1>15, <1>16, <1>17, <1>18, <1>19, <1>20, <1>21, <1>22, <1>23, <1>24, <1>25, <1>26,
      <1>27, <1>28, <1>29, <1>30, <1>31, <1>32
  DEF Next, World, Reconnecting, Mixing, Flushing, Taking, Handling

-----------------------------------------------------------------------------
(* The invariant, and what follows from it.                                 *)

\* Nothing is connected, sent or recorded at first.
LEMMA VoiceInitEstablishes == Init => VoiceIInv
<1> SUFFICES ASSUME Init PROVE VoiceIInv
  OBVIOUS
<1> USE VoiceAssumption DEF Init
<1>1. VoiceTypeOK
  <2>1. WorldTypes
    BY DEF WorldTypes
  <2>2. ConnTypes
    <3>1. MaxConns \in Nat /\ MaxChanges \in Nat
      OBVIOUS
    <3>2. 0 \in 0..MaxConns /\ 0 \in 0..MaxChanges /\ 0 \in 0..0
      BY <3>1
    <3> QED
      BY <3>2 DEF ConnTypes
  <2>3. SliderTypes
    <3>1. moves = <<>> /\ <<>> \in Seq([target : Targets, value : Values])
      OBVIOUS
    <3> QED
      BY <3>1 DEF SliderTypes
  <2>4. FlushTypes
    BY DEF FlushTypes, Empty, Queued
  <2>5. LoopTypes
    <3>1. queue = <<>> /\ <<>> \in Seq(AllEvents) /\ Len(<<>>) = 0 /\ MaxEvents \in Nat
      OBVIOUS
    <3>2. Len(queue) <= MaxEvents
      BY <3>1
    <3>3. queue \in Seq(AllEvents)
      BY <3>1
    <3>4. roster \in Rosters \cup {None} /\ read \in Rosters \cup {None}
      OBVIOUS
    <3> QED
      BY <3>2, <3>3, <3>4 DEF LoopTypes
  <2> QED
    BY <2>1, <2>2, <2>3, <2>4, <2>5, TypesInGroups
<1>2. ControlInv
  BY DEF ControlInv, PlacesInv, ConnInv, LossInv, StaleInv, RecordInv, MayRecord, Announced, Empty
<1>3. SentInv
  BY DEF SentInv, Announced
<1> QED
  BY <1>1, <1>2, <1>3 DEF VoiceIInv

\* The inductive invariant holds in every reachable state: of the volumes, the
\* roster, and the connection that both belong to.
THEOREM VoiceInvariance == Spec => []VoiceIInv
<1>1. VoiceIInv /\ [Next]_vars => VoiceIInv'
  BY VoiceTypeKept, ControlKept, SentInvKept DEF VoiceIInv, ControlInv
<1> QED
  BY <1>1, VoiceInitEstablishes, PTL DEF Spec

\* markSent and invalidateVolumes: what a flush leaves out because it was sent
\* is what Discord has, whatever was dropped, late or lost on the way; and no
\* roster outlives its connection.
THEOREM RecordIsWhatReachedDiscord == Spec => []VoiceInv
<1>1. VoiceIInv => VoiceInv
  <2> SUFFICES ASSUME VoiceIInv PROVE VoiceInv
    OBVIOUS
  <2>1. RosterIsCleared
    BY DEF VoiceIInv, ControlInv, LossInv, RosterIsCleared
  <2>2. SentIsSet
    BY DEF VoiceIInv, SentInv, SentIsSet, Known
  <2> QED
    BY <2>1, <2>2 DEF VoiceIInv, VoiceInv
<1> QED
  BY <1>1, VoiceInvariance, PTL

\* What a flush leaves out: only what Discord has.
LeftOutIsSet ==
  TakePending /\ Announced /\ loopPc # "joined" =>
    \A t \in Followed \ doubt : pending[t] # Nothing /\ todo'[t] = Nothing => volume[t] = pending[t]

\* takePendingLocked: the value of a slider that a flush leaves out is the
\* level Discord has, so nothing the user did is lost by leaving it out.
THEOREM NothingIsLostByLeavingOut == Spec => [][LeftOutIsSet]_vars
<1>1. ASSUME VoiceIInv PROVE LeftOutIsSet
  <2> SUFFICES ASSUME TakePending, Announced, loopPc # "joined", NEW t \in Followed \ doubt,
                      pending[t] # Nothing, todo'[t] = Nothing
               PROVE  volume[t] = pending[t]
    BY DEF LeftOutIsSet
  <2>1. t \in Targets
    BY DEF Followed, Targets
  <2>2. pending[t] = lastSent[t]
    BY <2>1 DEF TakePending
  <2>3. ~MayRecord(t)
    BY <1>1, <2>1 DEF VoiceIInv, ControlInv, PlacesInv, TakePending, MayRecord, Empty
  <2>4. RecordIsTrue(t)
    BY <1>1 DEF VoiceIInv, SentInv, Known
  <2> QED
    BY <2>2, <2>3, <2>4 DEF RecordIsTrue
<1> QED
  BY <1>1, VoiceInvariance, PTL

=============================================================================
