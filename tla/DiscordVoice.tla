------------------------------ MODULE DiscordVoice ------------------------------
(***************************************************************************)
(* Volumes and roster of the Discord client.  Three goroutines share a     *)
(* connection that comes and goes: the mixer's, which queues the value of  *)
(* a moved slider; the flush loop, which sends what was queued; and the    *)
(* event loop, which keeps the roster of the voice channel, subscribes to  *)
(* its changes, and queues the sliders' values again when Discord may have *)
(* forgotten them.  Loops wait for answers of Discord, which are late,     *)
(* refused, or missing.                                                    *)
(***************************************************************************)
EXTENDS Naturals, Sequences, FiniteSets

CONSTANTS
  None,         \* no roster
  Rooms, NoRoom,\* voice channels; none
  Users,        \* other people, all of them targets of a slider,
  Own,          \* and the user's own levels
  Values, Start,\* positions of a slider; bound: the one it starts from
  Default,      \* what Discord starts from
  Nothing,      \* no value
  MaxEvents,    \* discordEventBufferSize
  MaxConns,     \* bound: connections, the last of which is not lost
  MaxChanges    \* bound: what happens to the loops from outside

Targets == Users \cup Own
Rosters == [id : Rooms \cup {NoRoom}, users : SUBSET Users]

ASSUME VoiceAssumption ==
  /\ None \notin Rosters /\ NoRoom \notin Rooms /\ Start \in Values /\ Users \cap Own = {}
  /\ Default \notin Values /\ Nothing \notin Values
  /\ {MaxEvents, MaxConns} \subseteq Nat \ {0} /\ MaxChanges \in Nat

VARIABLES
  changes,      \* bound: how many so far
  room, members,\* Discord: where the user is, who is where,
  volume,       \* what is set,
  events,       \* what is subscribed on the connection
  late,         \* requests given up that Discord has yet to carry out
  opened,       \* how many connections there were, numbered from 1
  alive,        \* the transport of the last one works
  current,      \* the reconnector's connection, or 0
  phase,        \* what the reconnector has to do
  slider,       \* the sliders' positions
  moves,        \* moves on their way through the mixer
  asked,        \* its call of SetVolume has found a connection
  pending, lastSent,
  flushPc, flushConn, todo, sending, sent,
  upToDate,     \* volumeGeneration is what flush took
  queue,        \* the events channel
  reconcile,    \* the one-place channel of requests to reconcile
  loopPc, loopConn, read, values,
  subscribedConn, subscribedChannel,
  roster,
  doubt         \* history: targets whose level changed unknown to the client

discordVars == <<room, members, volume, events, late>>
connVars == <<opened, alive, current, phase>>
sliderVars == <<slider, moves, asked>>
flushVars == <<flushPc, flushConn, todo, sending, sent>>
volumeVars == <<pending, lastSent, upToDate, doubt>>
loopVars == <<loopPc, loopConn, read, values, subscribedConn, subscribedChannel>>
inputVars == <<queue, reconcile>>
vars == <<changes, discordVars, connVars, sliderVars, flushVars, volumeVars, loopVars, roster,
          inputVars>>

Queued == [Targets -> Values \cup {Nothing}]
Kinds == {"VOICE_STATE_CREATE", "VOICE_STATE_DELETE"}
Event(name, user) == [name |-> name, user |-> user]
Select == Event("VOICE_CHANNEL_SELECT", Nothing)
ForSelect == <<NoRoom, "VOICE_CHANNEL_SELECT">>

VoiceTypeOK ==
  /\ changes \in 0..MaxChanges
  /\ room \in Rooms \cup {NoRoom} /\ members \in [Rooms -> SUBSET Users]
  /\ volume \in [Targets -> Values \cup {Default}]
  /\ events \subseteq {ForSelect} \cup (Rooms \X Kinds)
  /\ late \subseteq [target : Targets, value : Values]
  /\ opened \in 0..MaxConns
  /\ {current, flushConn, loopConn, subscribedConn} \subseteq 0..opened
  /\ phase \in {"none", "onUp", "renew", "close"}
  /\ slider \in [Targets -> Values]
  /\ moves \in Seq([target : Targets, value : Values]) /\ asked \in BOOLEAN
  /\ {pending, lastSent, todo, sent, values} \subseteq Queued
  /\ sending \in Targets \cup {Nothing}
  /\ flushPc \in {"idle", "take", "send", "wait"}
  /\ {alive, upToDate, reconcile} \subseteq BOOLEAN
  /\ queue \in Seq([name : Kinds, user : Users] \cup {Select}) /\ Len(queue) <= MaxEvents
  /\ loopPc \in {"idle", "select", "read", "answered", "leave", "enter", "compare", "store", "joined", "replay"}
  /\ subscribedChannel \in Rooms \cup {NoRoom}
  /\ {roster, read} \subseteq Rosters \cup {None}
  /\ doubt \subseteq Targets

Empty == [t \in Targets |-> Nothing]

Init ==
  /\ changes = 0
  /\ room \in Rooms /\ members = [r \in Rooms |-> IF r = room THEN Users ELSE {}]
  /\ volume = [t \in Targets |-> Default]
  /\ events = {} /\ late = {}
  /\ opened = 0 /\ alive = FALSE /\ current = 0 /\ phase = "none"
  /\ slider = [t \in Targets |-> Start] /\ moves = <<>> /\ asked = FALSE
  /\ pending = Empty /\ lastSent = Empty /\ upToDate = TRUE
  /\ flushPc = "idle" /\ flushConn = 0 /\ todo = Empty
  /\ sending = Nothing /\ sent = Empty
  /\ queue = <<>> /\ reconcile = FALSE
  /\ loopPc = "idle" /\ loopConn = 0 /\ read = None /\ values = Empty
  /\ subscribedConn = 0 /\ subscribedChannel = NoRoom
  /\ roster = None
  /\ doubt = {}

\* Bound: changes from outside are counted.
Change == changes < MaxChanges /\ changes' = changes + 1

-----------------------------------------------------------------------------
(* Voice channels.  Events travel in order with the answers; the read loop  *)
(* drops what does not fit.                                                 *)

QueueEvent(event) ==
  queue' = IF Len(queue) < MaxEvents THEN Append(queue, event) ELSE queue

Elements(q) == {q[i] : i \in DOMAIN q}

Emit(subscribed, event) ==
  IF alive /\ subscribed \in events THEN QueueEvent(event) ELSE UNCHANGED queue

WorldFrame == UNCHANGED <<late, events, connVars, sliderVars, flushVars, pending, lastSent, upToDate,
                          loopVars, roster, reconcile>>

\* Those of the rosters the client has, or is about to store, who did not
\* leave as far as it will ever hear.
Believed ==
  {u \in Users : /\ \E b \in {roster, read} \ {None} : u \in b.users
                 /\ Event("VOICE_STATE_DELETE", u) \notin Elements(queue)}

\* People's levels may be forgotten while they are away.  The client cannot
\* tell if it never saw them away.
MayForget(people) ==
  \/ /\ volume' = [t \in Targets |-> IF t \in people THEN Default ELSE volume[t]]
     /\ doubt' = doubt \cup (people \cap Believed)
  \/ UNCHANGED <<volume, doubt>>

SelectChannel(r) ==
  /\ Change /\ r # room
  /\ room' = r
  /\ IF r = NoRoom THEN UNCHANGED <<volume, doubt>> ELSE MayForget(members[r])
  /\ Emit(ForSelect, Select)
  /\ UNCHANGED members
  /\ WorldFrame

Join(u, r) ==
  /\ Change /\ \A q \in Rooms : u \notin members[q]
  /\ members' = [members EXCEPT ![r] = @ \cup {u}]
  /\ IF r = room THEN MayForget({u}) ELSE UNCHANGED <<volume, doubt>>
  /\ Emit(<<r, "VOICE_STATE_CREATE">>, Event("VOICE_STATE_CREATE", u))
  /\ UNCHANGED room
  /\ WorldFrame

Leave(u, r) ==
  /\ Change /\ u \in members[r]
  /\ members' = [members EXCEPT ![r] = @ \ {u}]
  /\ Emit(<<r, "VOICE_STATE_DELETE">>, Event("VOICE_STATE_DELETE", u))
  /\ UNCHANGED <<room, volume, doubt>>
  /\ WorldFrame

-----------------------------------------------------------------------------
(* The connection, as its reconnector sees it.                              *)

ConnFrame == UNCHANGED <<room, members, late, sliderVars, flushVars, pending, loopVars, roster, queue>>

Stays == UNCHANGED <<volume, events, lastSent, upToDate, doubt>>

\* A connection is published.  Discord may have started anew, and nothing
\* is subscribed.
Connect ==
  /\ current = 0 /\ phase = "none" /\ opened < MaxConns
  /\ opened' = opened + 1 /\ current' = opened' /\ alive' = TRUE
  /\ phase' = "onUp"
  /\ events' = {}
  /\ volume' \in {volume, [t \in Targets |-> Default]}
  /\ UNCHANGED <<changes, lastSent, upToDate, doubt, reconcile>>
  /\ ConnFrame

\* Slip: a flush that began before is not told.
InvalidateVolumesSlip ==
  /\ lastSent' = Empty
  /\ doubt' = {}
  /\ UNCHANGED upToDate

InvalidateVolumes ==
  /\ lastSent' = Empty
  /\ upToDate' = FALSE
  /\ doubt' = {}

OnUp ==
  /\ phase = "onUp"
  /\ phase' = "none"
  /\ InvalidateVolumes
  /\ reconcile' = TRUE
  /\ UNCHANGED <<changes, opened, alive, current, volume, events>>
  /\ ConnFrame

\* The settings have changed during the dial.
OnUpRenews ==
  /\ phase = "onUp" /\ Change /\ opened < MaxConns
  /\ phase' = "renew"
  /\ Stays
  /\ UNCHANGED <<opened, alive, current, reconcile>>
  /\ ConnFrame

TransportFails ==
  /\ alive /\ Change /\ opened < MaxConns
  /\ alive' = FALSE
  /\ Stays
  /\ UNCHANGED <<opened, current, phase, reconcile>>
  /\ ConnFrame

\* The reconnector was told to renew the connection, or its transport failed.
Drop ==
  /\ phase = "renew" \/ (phase = "none" /\ current # 0 /\ ~alive)
  /\ current' = 0 /\ phase' = "close"
  /\ Stays
  /\ UNCHANGED <<changes, opened, alive, reconcile>>
  /\ ConnFrame

Close ==
  /\ phase = "close"
  /\ phase' = "none" /\ alive' = FALSE
  /\ reconcile' = TRUE
  /\ Stays
  /\ UNCHANGED <<changes, opened, current>>
  /\ ConnFrame

-----------------------------------------------------------------------------
(* Requests.  A loop waits for the answer to its own nonce, for the end of  *)
(* the connection, or for a timeout; Discord may carry out what timed out.  *)

Answered(conn) == alive /\ conn = opened /\ UNCHANGED changes

\* An ERROR frame or a timeout, or the connection is lost or was closed.
Failed(conn) == IF alive /\ conn = opened THEN Change ELSE UNCHANGED changes

\* A request for events: what failed may have been heard all the same.
Subscribes(add) ==
  \/ Answered(loopConn) /\ events' = events \cup add
  \/ Failed(loopConn)
     /\ \E heard \in IF alive /\ loopConn = opened THEN SUBSET add ELSE {{}} :
          events' = events \cup heard

Unsubscribes(drop) ==
  \/ Answered(loopConn) /\ events' = events \ drop
  \/ Failed(loopConn) /\ UNCHANGED events

\* GET_SELECTED_VOICE_CHANNEL.
VoiceChannel == [id |-> room, users |-> IF room = NoRoom THEN {} ELSE members[room]]

Set(t, v) == volume' = [volume EXCEPT ![t] = v]

-----------------------------------------------------------------------------
(* The mixer.                                                               *)

MixerFrame == UNCHANGED <<discordVars, connVars, flushVars, lastSent, upToDate, doubt, loopVars,
                          roster, inputVars>>

\* The serial client stores the position, then delivers the move.
MoveSlider(t, v) ==
  /\ Change /\ v # slider[t]
  /\ slider' = [slider EXCEPT ![t] = v]
  /\ moves' = Append(moves, [target |-> t, value |-> v])
  /\ UNCHANGED <<asked, pending>>
  /\ MixerFrame

SetVolume ==
  /\ moves # <<>> /\ ~asked
  /\ IF current # 0
     THEN asked' = TRUE /\ UNCHANGED moves
     ELSE moves' = Tail(moves) /\ UNCHANGED asked
  /\ UNCHANGED <<changes, slider, pending>>
  /\ MixerFrame

SetVolumeQueues ==
  /\ asked
  /\ pending' = [pending EXCEPT ![Head(moves).target] = Head(moves).value]
  /\ moves' = Tail(moves) /\ asked' = FALSE
  /\ UNCHANGED <<changes, slider>>
  /\ MixerFrame

-----------------------------------------------------------------------------
(* The flush loop.                                                          *)

FlushFrame == UNCHANGED <<room, members, events, connVars, sliderVars, loopVars, roster, inputVars>>
DiscordStays == UNCHANGED <<changes, volume, late, doubt>>

Flush ==
  /\ flushPc = "idle" /\ current # 0
  /\ flushConn' = current /\ flushPc' = "take"
  /\ UNCHANGED <<todo, sending, sent, pending, lastSent, upToDate>>
  /\ DiscordStays /\ FlushFrame

\* What Discord has already is left out.
TakePending ==
  /\ flushPc = "take"
  /\ todo' = [t \in Targets |-> IF pending[t] = lastSent[t] THEN Nothing ELSE pending[t]]
  /\ pending' = Empty
  /\ upToDate' = TRUE
  /\ flushPc' = IF todo' = Empty THEN "idle" ELSE "send"
  /\ flushConn' = IF todo' = Empty THEN 0 ELSE flushConn
  /\ UNCHANGED <<sending, sent, lastSent>>
  /\ DiscordStays /\ FlushFrame

Resolves(t) == t \in Own \/ (roster # None /\ t \in roster.users)

\* A name the roster does not know is skipped.
Send(t) ==
  /\ flushPc = "send" /\ todo[t] # Nothing
  /\ IF Resolves(t)
     THEN sending' = t /\ flushPc' = "wait" /\ UNCHANGED todo
     ELSE todo' = [todo EXCEPT ![t] = Nothing] /\ UNCHANGED <<sending, flushPc>>
  /\ UNCHANGED <<flushConn, sent, pending, lastSent, upToDate>>
  /\ DiscordStays /\ FlushFrame

\* After a timeout Discord has carried out the command, will, or never will.
SendReturns ==
  /\ flushPc = "wait"
  /\ \/ /\ Answered(flushConn)
        /\ Set(sending, todo[sending])
        /\ sent' = [sent EXCEPT ![sending] = todo[sending]]
        /\ UNCHANGED <<late, doubt>>
     \/ Failed(flushConn) /\ UNCHANGED <<volume, late, sent, doubt>>
     \/ /\ alive /\ flushConn = opened /\ Change
        /\ late' = late \cup {[target |-> sending, value |-> todo[sending]]}
        /\ UNCHANGED <<volume, sent, doubt>>
  /\ todo' = [todo EXCEPT ![sending] = Nothing]
  /\ sending' = Nothing /\ flushPc' = "send"
  /\ UNCHANGED <<flushConn, pending, lastSent, upToDate>>
  /\ FlushFrame

LateCommand(command) ==
  /\ command \in late
  /\ late' = late \ {command}
  /\ Set(command.target, command.value)
  /\ doubt' = doubt \cup {command.target}
  /\ UNCHANGED <<changes, flushVars, pending, lastSent, upToDate>>
  /\ FlushFrame

FlushIsCurrent == current = flushConn /\ upToDate

MarkSent ==
  /\ flushPc = "send" /\ todo = Empty
  /\ lastSent' = IF FlushIsCurrent
                 THEN [t \in Targets |-> IF sent[t] # Nothing THEN sent[t] ELSE lastSent[t]]
                 ELSE lastSent
  /\ sent' = Empty /\ flushConn' = 0 /\ flushPc' = "idle"
  /\ UNCHANGED <<todo, sending, pending, upToDate>>
  /\ DiscordStays /\ FlushFrame

-----------------------------------------------------------------------------
(* The event loop.                                                          *)

LoopFrame == UNCHANGED <<room, members, volume, late, connVars, sliderVars, flushVars>>
VolumesStay == UNCHANGED volumeVars
NoRequest == UNCHANGED <<changes, events>>

\* Slip: the roster is left to the events once they are subscribed.
ReconcileRosterSlip ==
  IF current = 0
  THEN /\ subscribedConn' = 0 /\ subscribedChannel' = NoRoom
       /\ roster' = None
       /\ UNCHANGED <<loopPc, loopConn>>
  ELSE IF current = subscribedConn /\ subscribedChannel # NoRoom
  THEN UNCHANGED <<subscribedConn, subscribedChannel, roster, loopPc, loopConn>>
  ELSE /\ loopConn' = current /\ subscribedConn' = current
       /\ loopPc' = IF current = subscribedConn THEN "read" ELSE "select"
       /\ UNCHANGED <<roster, subscribedChannel>>

\* Without a connection nothing is known; a new one carries no subscription.
ReconcileRoster ==
  IF current = 0
  THEN /\ subscribedConn' = 0 /\ subscribedChannel' = NoRoom
       /\ roster' = None
       /\ UNCHANGED <<loopPc, loopConn>>
  ELSE /\ loopConn' = current /\ subscribedConn' = current
       /\ UNCHANGED roster
       /\ IF current = subscribedConn
          THEN loopPc' = "read" /\ UNCHANGED subscribedChannel
          ELSE loopPc' = "select" /\ subscribedChannel' = NoRoom

Requested ==
  /\ loopPc = "idle" /\ reconcile
  /\ reconcile' = FALSE
  /\ ReconcileRoster
  /\ UNCHANGED <<read, values, queue>>
  /\ NoRequest /\ VolumesStay /\ LoopFrame

Tick ==
  /\ loopPc = "idle"
  /\ ReconcileRoster
  /\ UNCHANGED <<read, values, inputVars>>
  /\ NoRequest /\ VolumesStay /\ LoopFrame

ChannelSelected ==
  /\ loopPc = "idle" /\ queue # <<>> /\ Head(queue) = Select
  /\ queue' = Tail(queue)
  /\ ReconcileRoster
  /\ UNCHANGED <<read, values, reconcile>>
  /\ NoRequest /\ VolumesStay /\ LoopFrame

\* Of whichever channel and connection the event is.
ApplyVoiceStateEvent ==
  /\ loopPc = "idle" /\ queue # <<>> /\ Head(queue) # Select
  /\ queue' = Tail(queue)
  /\ LET u == Head(queue).user
         joined == roster # None /\ Head(queue).name = "VOICE_STATE_CREATE" /\ u \notin roster.users
         left == roster # None /\ Head(queue).name = "VOICE_STATE_DELETE"
     IN  /\ roster' = CASE joined -> [roster EXCEPT !.users = @ \cup {u}]
                        [] left -> [roster EXCEPT !.users = @ \ {u}]
                        [] OTHER -> roster
         /\ loopPc' = IF joined THEN "joined" ELSE "idle"
  /\ UNCHANGED <<loopConn, read, values, subscribedConn, subscribedChannel, reconcile>>
  /\ NoRequest /\ VolumesStay /\ LoopFrame

\* Whether the subscription succeeds or not.
SelectReturns ==
  /\ loopPc = "select"
  /\ Subscribes({ForSelect})
  /\ loopPc' = "read"
  /\ UNCHANGED <<loopConn, read, values, subscribedConn, subscribedChannel, roster, inputVars>>
  /\ VolumesStay /\ LoopFrame

ReadAnswered ==
  /\ loopPc = "read"
  /\ \/ Answered(loopConn) /\ read' = VoiceChannel /\ loopPc' = "answered"
     \/ Failed(loopConn) /\ loopPc' = "idle" /\ UNCHANGED read
  /\ UNCHANGED <<events, loopConn, values, subscribedConn, subscribedChannel, roster, inputVars>>
  /\ VolumesStay /\ LoopFrame

\* The answer counts if its connection is still the current one.
StillCurrent == current = loopConn

ReadReturns ==
  /\ loopPc = "answered"
  /\ loopPc' = CASE ~StillCurrent -> "idle"
                 [] StillCurrent /\ read.id = subscribedChannel -> "compare"
                 [] StillCurrent /\ read.id # subscribedChannel ->
                      IF subscribedChannel = NoRoom THEN "enter" ELSE "leave"
  /\ read' = IF StillCurrent THEN read ELSE None
  /\ UNCHANGED <<loopConn, values, subscribedConn, subscribedChannel, roster, inputVars>>
  /\ NoRequest /\ VolumesStay /\ LoopFrame

\* resubscribeVoiceStates: a failure to unsubscribe is passed over.
LeaveReturns ==
  /\ loopPc = "leave"
  /\ Unsubscribes({subscribedChannel} \X Kinds)
  /\ IF read.id = NoRoom
     THEN loopPc' = "compare" /\ subscribedChannel' = NoRoom
     ELSE loopPc' = "enter" /\ UNCHANGED subscribedChannel
  /\ UNCHANGED <<loopConn, read, values, subscribedConn, roster, inputVars>>
  /\ VolumesStay /\ LoopFrame

EnterReturns ==
  /\ loopPc = "enter"
  /\ Subscribes({read.id} \X Kinds)
  /\ loopPc' = "compare"
  /\ \/ Answered(loopConn) /\ subscribedChannel' = read.id
     \/ Failed(loopConn) /\ UNCHANGED subscribedChannel
  /\ UNCHANGED <<loopConn, read, values, subscribedConn, roster, inputVars>>
  /\ VolumesStay /\ LoopFrame

RosterNeedsReplay == roster = None \/ roster.id # read.id \/ ~(read.users \subseteq roster.users)

Compare ==
  /\ loopPc = "compare"
  /\ IF RosterNeedsReplay THEN InvalidateVolumes ELSE UNCHANGED <<lastSent, upToDate, doubt>>
  /\ loopPc' = "store"
  /\ UNCHANGED <<pending, loopConn, read, values, subscribedConn, subscribedChannel, roster, inputVars>>
  /\ NoRequest /\ LoopFrame

\* Slip: an unchanged roster is not replayed.
StoreSlip ==
  /\ loopPc = "store"
  /\ roster' = read
  /\ IF roster = read THEN values' = values /\ loopPc' = "idle"
     ELSE values' = slider /\ loopPc' = "replay"
  /\ read' = None /\ loopConn' = 0
  /\ UNCHANGED <<subscribedConn, subscribedChannel, inputVars>>
  /\ NoRequest /\ VolumesStay /\ LoopFrame

\* The sliders are read before volumeLock is taken.
Store ==
  /\ loopPc = "store"
  /\ roster' = read
  /\ values' = slider
  /\ loopPc' = "replay" /\ read' = None /\ loopConn' = 0
  /\ UNCHANGED <<subscribedConn, subscribedChannel, inputVars>>
  /\ NoRequest /\ VolumesStay /\ LoopFrame

Joined ==
  /\ loopPc = "joined"
  /\ InvalidateVolumes
  /\ values' = slider
  /\ loopPc' = "replay"
  /\ UNCHANGED <<pending, loopConn, read, subscribedConn, subscribedChannel, roster, inputVars>>
  /\ NoRequest /\ LoopFrame

ReplayMappedSliderValues ==
  /\ loopPc = "replay"
  /\ pending' = values
  /\ values' = Empty /\ loopPc' = "idle"
  /\ UNCHANGED <<lastSent, upToDate, doubt, loopConn, read, subscribedConn, subscribedChannel,
                 roster, inputVars>>
  /\ NoRequest /\ LoopFrame

-----------------------------------------------------------------------------
World ==
  \/ \E r \in Rooms \cup {NoRoom} : SelectChannel(r)
  \/ \E u \in Users, r \in Rooms : Join(u, r) \/ Leave(u, r)
  \/ \E t \in Targets, v \in Values : MoveSlider(t, v)
  \/ OnUpRenews \/ TransportFails
  \/ \E command \in late : LateCommand(command)

Reconnecting == Connect \/ OnUp \/ Drop \/ Close
Mixing == SetVolume \/ SetVolumeQueues
Flushing == Flush \/ TakePending \/ (\E t \in Targets : Send(t)) \/ SendReturns \/ MarkSent
Taking == Requested \/ ChannelSelected \/ ApplyVoiceStateEvent
Handling ==
  \/ SelectReturns \/ ReadAnswered \/ ReadReturns \/ LeaveReturns \/ EnterReturns
  \/ Compare \/ Store \/ Joined \/ ReplayMappedSliderValues

Next == World \/ Reconnecting \/ Mixing \/ Flushing \/ Taking \/ Tick \/ Handling

Spec == Init /\ [][Next]_vars

\* Every loop runs on, and its select takes each ready case in its turn; the
\* answer to a request, or its timeout, comes in the end.
FairSpec ==
  /\ Spec
  /\ WF_vars(Reconnecting) /\ WF_vars(Mixing) /\ WF_vars(Flushing) /\ WF_vars(Handling)
  /\ SF_vars(Taking) /\ SF_vars(Tick)

-----------------------------------------------------------------------------
(* What the client owes the user.                                           *)

Announced == current # 0 /\ phase = "none"

\* Once the client has dealt with the loss of a connection, no roster is
\* left, not even one it had begun to read before.
RosterIsCleared ==
  loopPc = "idle" /\ ~reconcile /\ current = 0 /\ phase = "none" =>
    roster = None /\ subscribedConn = 0

\* Those whose level the client can know of: the user's own, and people of the
\* roster, if nothing queued says that they left.
Followed ==
  Own \cup
  {u \in Users : /\ roster # None /\ u \in roster.users
                 /\ Event("VOICE_STATE_DELETE", u) \notin Elements(queue)}

\* What a flush has sent and may still record.
MayRecord(t) == sent[t] # Nothing /\ upToDate

\* What is recorded of a target, or about to be, is Discord's level.
RecordIsTrue(t) ==
  IF MayRecord(t) THEN volume[t] = sent[t]
  ELSE lastSent[t] # Nothing => volume[t] = lastSent[t]

\* "lastSent is what actually reached Discord": TakePending drops a value that
\* equals it, so the level of a person would stay wrong without it.  While the
\* loop has yet to invalidate the volumes for someone who joined, it may not hold.
SentIsSet ==
  Announced /\ loopPc # "joined" => \A t \in Followed \ doubt : RecordIsTrue(t)

VoiceInv == VoiceTypeOK /\ RosterIsCleared /\ SentIsSet

\* On a connection that stays the roster comes to be the channel's, although
\* events are dropped, belong to other channels, or their subscription failed.
RosterSettles == <>[]Announced => <>[](roster = VoiceChannel)

\* And every slider's position comes to be Discord's level for those who are
\* there, whatever was lost on the way.
Reachable == Own \cup VoiceChannel.users

SlidersReach ==
  <>[]Announced => <>[](\A t \in Reachable \ doubt : volume[t] = slider[t])
=============================================================================
