--------------------------------- MODULE Mixer ---------------------------------
(***************************************************************************)
(* The mixer of internal/mixer: the map of audio sessions and the list of  *)
(* the unmapped ones, the worker that applies slider moves, the worker     *)
(* that rebuilds the unmapped list after a settings reload, and the        *)
(* session events that the finder delivers from goroutines of its own.     *)
(* The serial client's worker receives the same reload signal on a channel *)
(* of its own and has every slider sent again.                             *)
(*                                                                         *)
(* A mapping gives each slider its targets: names of sessions, or Unmapped *)
(* (deej.unmapped).  Targets are taken in any order.                       *)
(***************************************************************************)
EXTENDS Naturals, Sequences, FiniteSets, SequencesExt

CONSTANTS
  Sessions,   \* audio sessions
  Names,      \* session keys
  NameOf,     \* the key of each session
  Special,    \* keys of devices, master, system and microphone
  Sliders,
  Unmapped,   \* the target deej.unmapped
  Mappings,   \* the mappings settings may have
  Nobody      \* no slider

ASSUME MixerAssumption ==
  /\ NameOf \in [Sessions -> Names]
  /\ Special \subseteq Names
  /\ Unmapped \notin Names
  /\ Mappings \subseteq [Sliders -> SUBSET (Names \cup {Unmapped})]
  /\ Nobody \notin Sliders

VARIABLES
  mapping,    \* the active mapping of the store's snapshot
  notifying,  \* the store has yet to send the reload signals
  mixerSignal, serialSignal,
  owed,       \* sliders the serial client has yet to send again
  lock,       \* "free", or the worker that holds Mixer.lock over several steps
  m,          \* sessions by key, in the order they were added
  unmapped,   \* unmappedSessions
  life,       \* each session, as its finder knows it
  refresher,  \* the reload worker
  unseen,     \* sessions it has yet to look at
  slider,     \* the move the slider worker handles, Nobody when it waits
  targets,    \* targets of that move still to be resolved
  keys,       \* resolved keys still to be looked up
  volumes,    \* sessions found whose volume is still to be set
  setBy,      \* history: the slider whose move last set each session
  due         \* history: sessions the move in hand has yet to reach

storeVars == <<mapping, notifying, mixerSignal, serialSignal, owed>>
sessionVars == <<m, unmapped, life>>
refreshVars == <<refresher, unseen>>
moveVars == <<slider, targets, keys, volumes>>
historyVars == <<setBy, due>>
vars == <<storeVars, lock, sessionVars, refreshVars, moveVars, historyVars>>

MixerTypeOK ==
  /\ mapping \in Mappings
  /\ {notifying, mixerSignal, serialSignal} \subseteq BOOLEAN
  /\ owed \in SUBSET Sliders
  /\ lock \in {"free", "slider", "refresher"}
  /\ m \in [Names -> Seq(Sessions)]
  /\ unmapped \in Seq(Sessions)
  /\ life \in [Sessions -> {"absent", "added", "removing"}]
  /\ refresher \in {"idle", "woken", "scanning"}
  /\ unseen \in SUBSET Sessions
  /\ slider \in Sliders \cup {Nobody}
  /\ targets \in SUBSET (Names \cup {Unmapped})
  /\ keys \in SUBSET Names
  /\ volumes \in SUBSET Sessions
  /\ setBy \in [Sessions -> Sliders \cup {Nobody}]
  /\ due \in SUBSET Sessions

Init ==
  /\ mapping \in Mappings
  /\ notifying = FALSE /\ mixerSignal = FALSE /\ serialSignal = FALSE
  /\ owed = Sliders
  /\ lock = "free"
  /\ m = [n \in Names |-> <<>>] /\ unmapped = <<>>
  /\ life = [s \in Sessions |-> "absent"]
  /\ refresher = "idle" /\ unseen = {}
  /\ slider = Nobody /\ targets = {} /\ keys = {} /\ volumes = {}
  /\ setBy = [s \in Sessions |-> Nobody] /\ due = {}

-----------------------------------------------------------------------------
\* The sessions the map reaches.
Known == {s \in Sessions : Contains(m[NameOf[s]], s)}

\* sessionMapped: special and device sessions always count as mapped, the
\* transform targets never match.
Mapped(s, map) ==
  NameOf[s] \in Special \/ \E i \in Sliders : NameOf[s] \in map[i]

-----------------------------------------------------------------------------
(* The store, and the serial client as far as it sends sliders again.       *)

ChangeMapping(map) ==
  /\ ~notifying
  /\ map # mapping
  /\ mapping' = map
  /\ notifying' = TRUE
  /\ UNCHANGED <<mixerSignal, serialSignal, owed, lock, sessionVars, refreshVars,
                 moveVars, historyVars>>

Notify ==
  /\ notifying
  /\ notifying' = FALSE
  /\ mixerSignal' = TRUE
  /\ serialSignal' = TRUE
  /\ UNCHANGED <<mapping, owed, lock, sessionVars, refreshVars, moveVars, historyVars>>

SerialResets ==
  /\ serialSignal
  /\ serialSignal' = FALSE
  /\ owed' = Sliders
  /\ UNCHANGED <<mapping, notifying, mixerSignal, lock, sessionVars, refreshVars,
                 moveVars, historyVars>>

-----------------------------------------------------------------------------
(* Session events.  The handlers run under the lock from beginning to end.  *)

HandleSessionAdded(s) ==
  /\ life[s] = "absent"
  /\ lock = "free"
  /\ m' = [m EXCEPT ![NameOf[s]] = Append(@, s)]
  /\ unmapped' = IF Mapped(s, mapping) THEN unmapped ELSE Append(unmapped, s)
  /\ life' = [life EXCEPT ![s] = "added"]
  /\ setBy' = [setBy EXCEPT ![s] = Nobody]
  /\ UNCHANGED <<storeVars, lock, refreshVars, moveVars, due>>

\* Slip: the handler does not wait for the lock.
HandleSessionRemovedSlip(s) ==
  /\ life[s] = "added"
  /\ m' = [m EXCEPT ![NameOf[s]] = RemoveFirst(@, s)]
  /\ unmapped' = RemoveFirst(unmapped, s)
  /\ life' = [life EXCEPT ![s] = "removing"]
  /\ due' = due \ {s}
  /\ UNCHANGED <<storeVars, lock, refreshVars, moveVars, setBy>>

\* Slip: all the sessions of the key leave the map.
HandleSessionRemovedAllSlip(s) ==
  /\ life[s] = "added" /\ lock = "free"
  /\ m' = [m EXCEPT ![NameOf[s]] = <<>>]
  /\ unmapped' = RemoveFirst(unmapped, s)
  /\ life' = [life EXCEPT ![s] = "removing"]
  /\ due' = due \ {s}
  /\ UNCHANGED <<storeVars, lock, refreshVars, moveVars, setBy>>

HandleSessionRemoved(s) ==
  /\ life[s] = "added"
  /\ lock = "free"
  /\ m' = [m EXCEPT ![NameOf[s]] = RemoveFirst(@, s)]
  /\ unmapped' = RemoveFirst(unmapped, s)
  /\ life' = [life EXCEPT ![s] = "removing"]
  /\ due' = due \ {s}
  /\ UNCHANGED <<storeVars, lock, refreshVars, moveVars, setBy>>

\* The finder releases the session when the handler has returned.
FinderReleases(s) ==
  /\ life[s] = "removing"
  /\ life' = [life EXCEPT ![s] = "absent"]
  /\ UNCHANGED <<storeVars, lock, m, unmapped, refreshVars, moveVars, historyVars>>

-----------------------------------------------------------------------------
(* The reload worker: refreshUnmappedSessions, under the lock.  Each session *)
(* is looked up in the settings of the moment.                              *)

RefresherWakes ==
  /\ refresher = "idle"
  /\ mixerSignal
  /\ mixerSignal' = FALSE
  /\ refresher' = "woken"
  /\ UNCHANGED <<mapping, notifying, serialSignal, owed, lock, sessionVars, unseen,
                 moveVars, historyVars>>

\* Slip: the list is not emptied first.
RefreshBeginsSlip ==
  /\ refresher = "woken" /\ lock = "free"
  /\ lock' = "refresher" /\ refresher' = "scanning"
  /\ unseen' = Known
  /\ UNCHANGED <<storeVars, m, unmapped, life, moveVars, historyVars>>

RefreshBegins ==
  /\ refresher = "woken"
  /\ lock = "free"
  /\ lock' = "refresher"
  /\ refresher' = "scanning"
  /\ unmapped' = <<>>
  /\ unseen' = Known
  /\ UNCHANGED <<storeVars, m, life, moveVars, historyVars>>

RefreshLooksAt(s) ==
  /\ refresher = "scanning"
  /\ s \in unseen
  /\ unseen' = unseen \ {s}
  /\ unmapped' = IF Mapped(s, mapping) THEN unmapped ELSE Append(unmapped, s)
  /\ UNCHANGED <<storeVars, lock, m, life, refresher, moveVars, historyVars>>

RefreshEnds ==
  /\ refresher = "scanning"
  /\ unseen = {}
  /\ refresher' = "idle"
  /\ lock' = "free"
  /\ UNCHANGED <<storeVars, sessionVars, unseen, moveVars, historyVars>>

-----------------------------------------------------------------------------
(* The slider worker: handleSliderMoveEvent.                                *)

\* The targets of the move come from the settings of the moment.
SliderMoves(i) ==
  /\ slider = Nobody
  /\ slider' = i
  /\ targets' = mapping[i]
  /\ owed' = owed \ {i}
  /\ due' = {s \in Known : NameOf[s] \in mapping[i]}
  /\ UNCHANGED <<mapping, notifying, mixerSignal, serialSignal, lock, sessionVars,
                 refreshVars, keys, volumes, setBy>>

\* resolveTarget: Unmapped stands for the keys on the list, read under the
\* lock; any other target for itself.
ResolveTarget(t) ==
  /\ slider # Nobody /\ keys = {} /\ lock # "slider"
  /\ t \in targets
  /\ t = Unmapped => lock = "free"
  /\ targets' = targets \ {t}
  /\ keys' = IF t = Unmapped THEN {NameOf[s] : s \in ToSet(unmapped)} ELSE {t}
  /\ UNCHANGED <<storeVars, lock, sessionVars, refreshVars, slider, volumes, historyVars>>

\* setSessionVolumes takes the lock and looks the sessions of a key up ...
LookUp(k) ==
  /\ k \in keys
  /\ lock = "free"
  /\ lock' = "slider"
  /\ keys' = keys \ {k}
  /\ volumes' = ToSet(m[k])
  /\ UNCHANGED <<storeVars, sessionVars, refreshVars, slider, targets, historyVars>>

\* ... sets them one by one ...
SetVolume(s) ==
  /\ lock = "slider"
  /\ s \in volumes
  /\ volumes' = volumes \ {s}
  /\ setBy' = [setBy EXCEPT ![s] = slider]
  /\ due' = due \ {s}
  /\ UNCHANGED <<storeVars, lock, sessionVars, refreshVars, slider, targets, keys>>

\* ... and gives the lock back.
VolumesSet ==
  /\ lock = "slider"
  /\ volumes = {}
  /\ lock' = "free"
  /\ UNCHANGED <<storeVars, sessionVars, refreshVars, moveVars, historyVars>>

MoveHandled ==
  /\ slider # Nobody
  /\ targets = {} /\ keys = {} /\ lock # "slider"
  /\ slider' = Nobody
  /\ UNCHANGED <<storeVars, lock, sessionVars, refreshVars, targets, keys, volumes,
                 historyVars>>

Next ==
  \/ \E map \in Mappings : ChangeMapping(map)
  \/ Notify \/ SerialResets
  \/ \E s \in Sessions :
       HandleSessionAdded(s) \/ HandleSessionRemoved(s) \/ FinderReleases(s)
  \/ RefresherWakes \/ RefreshBegins \/ RefreshEnds
  \/ \E s \in Sessions : RefreshLooksAt(s)
  \/ \E i \in Sliders : SliderMoves(i)
  \/ \E t \in Names \cup {Unmapped} : ResolveTarget(t)
  \/ \E k \in Names : LookUp(k)
  \/ \E s \in Sessions : SetVolume(s)
  \/ VolumesSet \/ MoveHandled

Spec == Init /\ [][Next]_vars

-----------------------------------------------------------------------------
\* A change of the settings that the reload worker has yet to take in.
ReloadPending == notifying \/ mixerSignal \/ refresher # "idle"

\* The unmapped list is exact whenever no reload is pending, whatever sessions
\* came and went before, after and between the steps of a reload, and no
\* session is ever on it twice.
UnmappedIsRight ==
  /\ ~ReloadPending => ToSet(unmapped) = {s \in Known : ~Mapped(s, mapping)}
  /\ \A i, j \in DOMAIN unmapped : unmapped[i] = unmapped[j] => i = j

MixerInv == MixerTypeOK /\ UnmappedIsRight

\* "the finder releases the session as soon as this handler returns. taking
\* the lock here guarantees the session is unreachable by then": a session
\* whose removal was handled is in no list, and no volume of it is being set.
RemovedIsUnreachable ==
  \A s \in Sessions : life[s] # "added" =>
    s \notin Known \cup ToSet(unmapped) \cup volumes

\* A move reaches every session of its targets that was there when the move
\* began and was not removed meanwhile, other sessions of the same key going
\* away or not.
MoveReachesAll == slider = Nobody => due = {}

\* Everything a settings reload sets off has happened, the sliders sent again
\* included.
Settled == ~ReloadPending /\ ~serialSignal /\ slider = Nobody /\ owed = {}

\* "deej.unmapped will group together all apps that aren't bound to a slider":
\* once a reload has settled, the volume of a session that is bound comes from
\* a slider it is bound to.
BoundFollowsItsSlider ==
  Settled => \A s \in Known :
    setBy[s] # Nobody /\ Mapped(s, mapping) => NameOf[s] \in mapping[setBy[s]]

=============================================================================
