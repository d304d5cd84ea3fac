------------------------------ MODULE SliderEvents ------------------------------
(***************************************************************************)
(* The path of a reading through internal/serial: a line is read by the    *)
(* Watch goroutine of its connection, passes the noise filter under the    *)
(* state lock, and goes as move events to the mixer over an unbuffered     *)
(* channel; a settings reload makes the next line emit every slider again. *)
(*                                                                         *)
(* One reader at a time: connections are redialed after seconds, and the   *)
(* mixer is assumed to have taken the events of the old one by then.  The  *)
(* code does not enforce it.                                               *)
(***************************************************************************)
EXTENDS Integers, Sequences

CONSTANTS
  MaxSliders,    \* bound: sliders in a line
  Raws,          \* the readings a line may contain, out of 0..1023
  Levels,        \* settings values of the noise reduction
  Inverts,       \* settings values of the inversion
  Nothing        \* nothing read, nothing heard yet

Settings == [invert : Inverts, level : Levels]
Sliders == 1..MaxSliders
Lines == UNION {[1..n -> Raws] : n \in Sliders}
Unset == -1023

\* A move event, before its reading is turned into a percentage.
Events == [slider : Sliders, raw : Raws, invert : Inverts]

ASSUME SliderAssumption ==
  /\ MaxSliders \in Nat \ {0}
  /\ Raws \subseteq 0..1023
  /\ Levels \subseteq {"high", "default", "low", "none"}
  /\ Inverts \subseteq BOOLEAN
  /\ Nothing \notin Events

VARIABLES
  settings,       \* the store's current snapshot
  notifying,      \* the store has yet to send the reload signal
  reloadSignal,   \* the one-place channel of reload signals holds one
  settingsWorker, \* "idle", or "reset": a signal was taken
  count,          \* lastKnownNumSliders
  values,         \* currentSliderValues
  reader,         \* where the Watch goroutine is, "off" when there is none
  taken,          \* the line it has read, with the snapshot it took for it
  queue,          \* the move events it has yet to deliver, one of a slider
  heard,          \* the last event the mixer received of each slider
  handled,        \* history: the last line that passed the filter
  owed            \* history: sliders to be heard again since the last reload

storeVars == <<settings, notifying, reloadSignal>>
stateVars == <<count, values>>
readerVars == <<reader, taken, queue>>
historyVars == <<handled, owed>>
sliderVars == <<storeVars, settingsWorker, stateVars, readerVars, heard, historyVars>>

SliderTypeOK ==
  /\ settings \in Settings
  /\ notifying \in BOOLEAN /\ reloadSignal \in BOOLEAN
  /\ settingsWorker \in {"idle", "reset"}
  /\ count \in 0..MaxSliders
  /\ values \in UNION {[1..n -> Raws \cup {Unset}] : n \in 0..MaxSliders}
  /\ reader \in {"off", "read", "lock", "send"}
  /\ taken \in [line : Lines, config : Settings] \cup {Nothing}
  /\ queue \in SUBSET Events
  /\ heard \in [Sliders -> Events \cup {Nothing}]
  /\ handled \in Lines \cup {<<>>}
  /\ owed \in SUBSET Sliders

SliderInit ==
  /\ settings \in Settings
  /\ notifying = FALSE /\ reloadSignal = FALSE /\ settingsWorker = "idle"
  /\ count = 0 /\ values = <<>>
  /\ reader = "off"
  /\ taken = Nothing
  /\ queue = {}
  /\ heard = [i \in Sliders |-> Nothing]
  /\ handled = <<>> /\ owed = {}

-----------------------------------------------------------------------------
(* The noise filter.                                                        *)

Distance(a, b) == IF a < b THEN b - a ELSE a - b

BaseThreshold(level) ==
  CASE level = "high" -> 20 [] level = "low" -> 5 [] level = "none" -> 1 [] OTHER -> 10

\* Near either end of the travel a small move counts already.
Threshold(new, level) ==
  IF (new < 10 \/ new > 1013) /\ BaseThreshold(level) > 5 THEN 5 ELSE BaseThreshold(level)

\* Slip: the ends of the travel are filtered like the rest.
SignificantlyDifferentSlip(old, new, level) == Distance(old, new) >= BaseThreshold(level)

SignificantlyDifferent(old, new, level) == Distance(old, new) >= Threshold(new, level)

\* normalizeScalar, as a number of hundredths: raw / 1023 rounded half up.
Normalize(raw) == (200 * raw + 1023) \div 2046

\* The scalar an event carries, in hundredths.
PercentValue(event) ==
  IF event.invert THEN 100 - Normalize(event.raw) ELSE Normalize(event.raw)

-----------------------------------------------------------------------------
(* The store and the settings worker.                                       *)

ChangeSettings(s) ==
  /\ ~notifying
  /\ s # settings
  /\ settings' = s
  /\ notifying' = TRUE
  /\ UNCHANGED <<reloadSignal, settingsWorker, stateVars, readerVars, heard, historyVars>>

NotifyReload ==
  /\ notifying
  /\ notifying' = FALSE
  /\ reloadSignal' = TRUE
  /\ UNCHANGED <<settings, settingsWorker, stateVars, readerVars, heard, historyVars>>

SettingsWorkerWakes ==
  /\ settingsWorker = "idle"
  /\ reloadSignal
  /\ reloadSignal' = FALSE
  /\ settingsWorker' = "reset"
  /\ UNCHANGED <<settings, notifying, stateVars, readerVars, heard, historyVars>>

\* Slip: the saved values are reset and the slider count is kept.
SettingsWorkerResetsSlip ==
  /\ settingsWorker = "reset" /\ settingsWorker' = "idle"
  /\ owed' = DOMAIN values
  /\ values' = [i \in DOMAIN values |-> 0]
  /\ UNCHANGED <<storeVars, count, readerVars, heard, handled>>

\* The slider count is forgotten, so that the next line emits every slider.
SettingsWorkerResets ==
  /\ settingsWorker = "reset"
  /\ settingsWorker' = "idle"
  /\ count' = 0
  /\ owed' = DOMAIN values
  /\ UNCHANGED <<storeVars, values, readerVars, heard, handled>>

-----------------------------------------------------------------------------
(* The reader.                                                              *)

\* The connection is published and its Watch started.  What is known of the
\* sliders is kept from one connection to the next.
Open ==
  /\ reader = "off"
  /\ reader' = "read"
  /\ UNCHANGED <<storeVars, settingsWorker, stateVars, taken, queue, heard, historyVars>>

\* The connection fails or is closed, and Watch returns from its read.
Close ==
  /\ reader = "read"
  /\ reader' = "off"
  /\ UNCHANGED <<storeVars, settingsWorker, stateVars, taken, queue, heard, historyVars>>

\* A line is read and is well formed; others are ignored.  The settings are
\* read before the state lock is taken.
ReadLine(l) ==
  /\ reader = "read"
  /\ reader' = "lock"
  /\ taken' = [line |-> l, config |-> settings]
  /\ UNCHANGED <<storeVars, settingsWorker, stateVars, queue, heard, historyVars>>

\* The saved values the line is compared with: a line with another number of
\* sliders, or the first one after a reset, starts from impossible values.
Saved(l) == IF Len(l) # count THEN [i \in DOMAIN l |-> Unset] ELSE values

Moved(l, c) == {i \in DOMAIN l : SignificantlyDifferent(Saved(l)[i], l[i], c.level)}

\* Slip: the saved value follows every reading, moved or not.
NewValuesSlip(l, c) == l

NewValues(l, c) == [i \in DOMAIN l |-> IF i \in Moved(l, c) THEN l[i] ELSE Saved(l)[i]]

MoveEvent(i, l, c) == [slider |-> i, raw |-> l[i], invert |-> c.invert]

\* Slip: no event for a slider that reads zero.
MoveEventsSlip(l, c) == {MoveEvent(i, l, c) : i \in {j \in Moved(l, c) : l[j] > 0}}

\* One event per moved slider.
MoveEvents(l, c) == {MoveEvent(i, l, c) : i \in Moved(l, c)}

HandleLine ==
  LET l == taken.line
      c == taken.config
  IN  /\ reader = "lock"
      /\ count' = Len(l)
      /\ values' = NewValues(l, c)
      /\ queue' = MoveEvents(l, c)
      /\ reader' = IF queue' = {} THEN "read" ELSE "send"
      /\ taken' = Nothing
      /\ handled' = l
      /\ UNCHANGED <<storeVars, settingsWorker, heard, owed>>

\* The mixer receives the event of the first slider that has one; the state
\* lock is not held.
DeliverMove ==
  /\ reader = "send"
  /\ \E e \in queue :
       /\ \A f \in queue : e.slider <= f.slider
       /\ heard' = [heard EXCEPT ![e.slider] = e]
       /\ owed' = owed \ {e.slider}
       /\ queue' = queue \ {e}
  /\ reader' = IF queue' = {} THEN "read" ELSE "send"
  /\ UNCHANGED <<storeVars, settingsWorker, stateVars, taken, handled>>

SliderNext ==
  \/ \E s \in Settings : ChangeSettings(s)
  \/ NotifyReload \/ SettingsWorkerWakes \/ SettingsWorkerResets
  \/ Open \/ Close
  \/ \E l \in Lines : ReadLine(l)
  \/ HandleLine \/ DeliverMove

SliderSpec == SliderInit /\ [][SliderNext]_sliderVars

-----------------------------------------------------------------------------
\* Every event of the lines handled so far has been delivered.
Delivered == reader # "send"

\* The saved values are what the mixer last received: the filter compares a
\* reading with the volume in force.  The lock does not cover the delivery.
StoredIsHeard ==
  Delivered => \A i \in DOMAIN values : heard[i] # Nothing /\ heard[i].raw = values[i]

SliderInv == SliderTypeOK /\ StoredIsHeard

\* A slider at the end of its travel sets exactly 0% or 100%, at every noise
\* reduction level and however slowly it got there.
EndsAreReached ==
  Delivered => \A i \in DOMAIN handled :
    handled[i] \in {0, 1023} =>
      PercentValue(heard[i]) = PercentValue([heard[i] EXCEPT !.raw = handled[i]])

\* The volume in force never lags behind a slider by as much as the largest
\* noise threshold, across reloads, reconnects and changes of the noise level.
HeardIsClose ==
  Delivered => \A i \in DOMAIN handled : Distance(heard[i].raw, handled[i]) < 20

\* "reset the slider count so the next line re-emits all values": once a line
\* has been handled after the reset, no slider is left that was not heard
\* again, as far as the line still has it.
ReloadReemits == Delivered /\ count # 0 => owed \cap (1..count) = {}

=============================================================================
