---------------------------- MODULE ConfigStoreProofs ----------------------------
(***************************************************************************)
(* Theorems about ConfigStore, for every set of profiles, of settings and  *)
(* of consumers.                                                           *)
(***************************************************************************)
EXTENDS ConfigStore, TLAPS

-----------------------------------------------------------------------------
(* The inductive invariant.                                                 *)

Saving == op \in {"save", "switch"}

\* What the operation that holds the lock may be about to do, and what it
\* writes.  The first load runs alone; a reload is run by the watcher and
\* creates no file.
LockInv ==
  /\ op = "none" <=> step = "idle"
  /\ step \in {"temp", "rename"} => want # None
  /\ step = "notify" => Saving
  /\ op = "load" => current = None
  /\ Saving => current # None
  /\ op = "reload" <=> watcher = "reloading"
  /\ op = "reload" => step \in {"stat", "read"}
  /\ current = None => watcher = "off"

\* FileIsLoaded, before the watcher was started and after it was stopped too:
\* then a change of the file counts as missed.
NoChangeLost ==
  current # None /\ disk \in File /\ Normal(disk) # current /\ ~missed =>
    \/ event \/ armed \/ watcher = "locking"
    \/ op = "reload" /\ step \in {"stat", "read"}

\* SavedSurvives, between the steps of a save too: what was promised is in
\* force until the rename, and from the moment the file was read again.
PromiseKept ==
  promise # None =>
    /\ disk = promise
    /\ current # None /\ ~(Saving /\ step \in {"stat", "read"}) => current = promise

IInv == ConfigTypeOK /\ LockInv /\ ConsumersCatchUp /\ NoChangeLost /\ PromiseKept

-----------------------------------------------------------------------------
(* Each part of the invariant is kept by every action.                      *)

\* Normalised settings are settings, and those are normal already.
LEMMA NormalSettings ==
  /\ DefaultSettings \in Settings
  /\ \A f \in File : Normal(f) \in Settings
  /\ \A s \in Settings : s \in File /\ Normal(s) = s
BY ConfigAssumption DEF DefaultSettings, Normal, Settings, File

\* A profile switch writes settings.
LEMMA SwitchWritesSettings ==
  ASSUME ConfigTypeOK, NEW name \in Profiles, SetActiveProfile(name)
  PROVE  want' \in Settings
<1>1. \A s \in Settings : [s EXCEPT !.profile = name] \in Settings
  BY DEF Settings
<1>2. current \in Settings /\ want' = [current EXCEPT !.profile = name]
  BY Zenon DEF ConfigTypeOK, SetActiveProfile, Acquire
<1> QED
  BY <1>1, <1>2, Zenon

\* Every step keeps the types.
LEMMA TypeKept ==
  ASSUME ConfigTypeOK, LockInv, [Next]_vars
  PROVE  ConfigTypeOK'
<1> USE ConfigAssumption, NormalSettings
    DEF ConfigTypeOK, LockInv, Saving, lockVars, watchVars, consumerVars, historyVars, Acquire,
        Release, GiveUp, Watching
<1>1. CASE Load
  BY <1>1 DEF Load
<1>2. CASE \E settings \in Settings : SaveUserSettings(settings)
  BY <1>2 DEF SaveUserSettings
<1>3. CASE \E name \in Profiles : SetActiveProfile(name)
  <2>1. want' \in Settings
    BY <1>3, SwitchWritesSettings
  <2> QED
    BY <1>3, <2>1 DEF SetActiveProfile
<1>4. CASE WriteTemp \/ WriteFails
  BY <1>4 DEF WriteTemp, WriteFails
<1>5. CASE Rename
  BY <1>5 DEF Rename
<1>6. CASE StatFinds \/ StatMisses
  BY <1>6 DEF StatFinds, StatMisses
<1>7. CASE ReadFails
  BY <1>7 DEF ReadFails
<1>8. CASE ReadSucceeds
  BY <1>8 DEF ReadSucceeds
<1>9. CASE SaveNotifies
  BY <1>9 DEF SaveNotifies, SignalAll
<1>10. CASE WatchConfigFileChanges \/ StopWatchingConfigFile
  BY <1>10 DEF WatchConfigFileChanges, StopWatchingConfigFile
<1>11. CASE ReceiveEvent \/ DebounceElapses
  BY <1>11 DEF ReceiveEvent, DebounceElapses
<1>12. CASE BeginReload
  BY <1>12 DEF BeginReload
<1>13. CASE ReloadNotifies
  BY <1>13 DEF ReloadNotifies, SignalAll
<1>14. CASE \E c \in Consumers : ConsumerWakes(c) \/ ConsumerReads(c)
  <2>1. CASE \E c \in Consumers : ConsumerWakes(c)
    BY <2>1 DEF ConsumerWakes
  <2>2. CASE \E c \in Consumers : ConsumerReads(c)
    BY <2>2 DEF ConsumerReads
  <2> QED
    BY <1>14, <2>1, <2>2
<1>15. CASE \E f \in File \cup {Broken} : EditorWrites(f)
  BY <1>15 DEF EditorWrites
<1>16. CASE \E renames \in BOOLEAN : EditorRemoves(renames)
  BY <1>16 DEF EditorRemoves
<1>17. CASE Exit
  BY <1>17 DEF Exit
<1>18. CASE UNCHANGED vars
  BY <1>18 DEF vars
<1> QED
  BY <1>1, <1>2, <1>3, <1>4, <1>5, <1>6, <1>7, <1>8, <1>9, <1>10, <1>11, <1>12, <1>13, <1>14,
     <1>15, <1>16, <1>17, <1>18
  DEF Next, LockHolder, Watcher

\* The place of the operation that has the lock, what it has read and what it
\* is about to write belong together in every step.
LEMMA LockKept ==
  ASSUME ConfigTypeOK, LockInv, [Next]_vars
  PROVE  LockInv'
<1> USE ConfigAssumption, NormalSettings
    DEF ConfigTypeOK, LockInv, Saving, lockVars, watchVars, consumerVars, historyVars, Acquire,
        Release, GiveUp, Watching
<1>1. CASE Load
  BY <1>1 DEF Load
<1>2. CASE \E settings \in Settings : SaveUserSettings(settings)
  BY <1>2 DEF SaveUserSettings
<1>3. CASE \E name \in Profiles : SetActiveProfile(name)
  <2>1. want' \in Settings
    BY <1>3, SwitchWritesSettings
  <2> QED
    BY <1>3, <2>1 DEF SetActiveProfile
<1>4. CASE WriteTemp \/ WriteFails
  BY <1>4 DEF WriteTemp, WriteFails
<1>5. CASE Rename
  BY <1>5 DEF Rename
<1>6. CASE StatFinds \/ StatMisses
  BY <1>6 DEF StatFinds, StatMisses
<1>7. CASE ReadFails
  BY <1>7 DEF ReadFails
<1>8. CASE ReadSucceeds
  BY <1>8 DEF ReadSucceeds
<1>9. CASE SaveNotifies
  BY <1>9 DEF SaveNotifies, SignalAll
<1>10. CASE WatchConfigFileChanges \/ StopWatchingConfigFile
  BY <1>10 DEF WatchConfigFileChanges, StopWatchingConfigFile
<1>11. CASE ReceiveEvent \/ DebounceElapses
  BY <1>11 DEF ReceiveEvent, DebounceElapses
<1>12. CASE BeginReload
  BY <1>12 DEF BeginReload
<1>13. CASE ReloadNotifies
  BY <1>13 DEF ReloadNotifies, SignalAll
<1>14. CASE \E c \in Consumers : ConsumerWakes(c) \/ ConsumerReads(c)
  BY <1>14 DEF ConsumerWakes, ConsumerReads
<1>15. CASE \E f \in File \cup {Broken} : EditorWrites(f)
  BY <1>15 DEF EditorWrites
<1>16. CASE \E renames \in BOOLEAN : EditorRemoves(renames)
  BY <1>16 DEF EditorRemoves
<1>17. CASE Exit
  BY <1>17 DEF Exit
<1>18. CASE UNCHANGED vars
  BY <1>18 DEF vars
<1> QED
  BY <1>1, <1>2, <1>3, <1>4, <1>5, <1>6, <1>7, <1>8, <1>9, <1>10, <1>11, <1>12, <1>13, <1>14,
     <1>15, <1>16, <1>17, <1>18
  DEF Next, LockHolder, Watcher

\* A consumer that has not read the last settings keeps a signal in its
\* channel, whose one place merges signals and loses none.
LEMMA SignalsKept ==
  ASSUME ConfigTypeOK, LockInv, ConsumersCatchUp, [Next]_vars
  PROVE  ConsumersCatchUp'
<1> USE ConfigAssumption, NormalSettings
    DEF ConfigTypeOK, LockInv, Saving, ConsumersCatchUp, lockVars, watchVars, consumerVars,
        historyVars, Acquire, Release, GiveUp, Watching
<1>1. CASE Load
  BY <1>1 DEF Load
<1>2. CASE \E settings \in Settings : SaveUserSettings(settings)
  BY <1>2 DEF SaveUserSettings
<1>3. CASE \E name \in Profiles : SetActiveProfile(name)
  <2>1. want' \in Settings
    BY <1>3, SwitchWritesSettings
  <2> QED
    BY <1>3, <2>1 DEF SetActiveProfile
<1>4. CASE WriteTemp \/ WriteFails
  BY <1>4 DEF WriteTemp, WriteFails
<1>5. CASE Rename
  BY <1>5 DEF Rename
<1>6. CASE StatFinds \/ StatMisses
  BY <1>6 DEF StatFinds, StatMisses
<1>7. CASE ReadFails
  BY <1>7 DEF ReadFails
<1>8. CASE ReadSucceeds
  BY <1>8 DEF ReadSucceeds
<1>9. CASE SaveNotifies
  BY <1>9 DEF SaveNotifies, SignalAll
<1>10. CASE WatchConfigFileChanges \/ StopWatchingConfigFile
  BY <1>10 DEF WatchConfigFileChanges, StopWatchingConfigFile
<1>11. CASE ReceiveEvent \/ DebounceElapses
  BY <1>11 DEF ReceiveEvent, DebounceElapses
<1>12. CASE BeginReload
  BY <1>12 DEF BeginReload
<1>13. CASE ReloadNotifies
  BY <1>13 DEF ReloadNotifies, SignalAll
<1>14. CASE \E c \in Consumers : ConsumerWakes(c) \/ ConsumerReads(c)
  BY <1>14 DEF ConsumerWakes, ConsumerReads
<1>15. CASE \E f \in File \cup {Broken} : EditorWrites(f)
  BY <1>15 DEF EditorWrites
<1>16. CASE \E renames \in BOOLEAN : EditorRemoves(renames)
  BY <1>16 DEF EditorRemoves
<1>17. CASE Exit
  BY <1>17 DEF Exit
<1>18. CASE UNCHANGED vars
  BY <1>18 DEF vars
<1> QED
  BY <1>1, <1>2, <1>3, <1>4, <1>5, <1>6, <1>7, <1>8, <1>9, <1>10, <1>11, <1>12, <1>13, <1>14,
     <1>15, <1>16, <1>17, <1>18
  DEF Next, LockHolder, Watcher

\* A change of the file that is not loaded yet keeps the watcher awake: an
\* event, the time of the debounce or the reload that is under way.
LEMMA ChangesKept ==
  ASSUME ConfigTypeOK, LockInv, NoChangeLost, [Next]_vars
  PROVE  NoChangeLost'
<1> USE ConfigAssumption, NormalSettings
    DEF ConfigTypeOK, LockInv, Saving, NoChangeLost, lockVars, watchVars, consumerVars,
        historyVars, Acquire, Release, GiveUp, Watching
<1>1. CASE Load
  BY <1>1 DEF Load
<1>2. CASE \E settings \in Settings : SaveUserSettings(settings)
  BY <1>2 DEF SaveUserSettings
<1>3. CASE \E name \in Profiles : SetActiveProfile(name)
  <2>1. want' \in Settings
    BY <1>3, SwitchWritesSettings
  <2> QED
    BY <1>3, <2>1 DEF SetActiveProfile
<1>4. CASE WriteTemp \/ WriteFails
  BY <1>4 DEF WriteTemp, WriteFails
<1>5. CASE Rename
  BY <1>5 DEF Rename
<1>6. CASE StatFinds \/ StatMisses
  BY <1>6 DEF StatFinds, StatMisses
<1>7. CASE ReadFails
  BY <1>7 DEF ReadFails
<1>8. CASE ReadSucceeds
  BY <1>8 DEF ReadSucceeds
<1>9. CASE SaveNotifies
  BY <1>9 DEF SaveNotifies, SignalAll
<1>10. CASE WatchConfigFileChanges \/ StopWatchingConfigFile
  BY <1>10 DEF WatchConfigFileChanges, StopWatchingConfigFile
<1>11. CASE ReceiveEvent \/ DebounceElapses
  BY <1>11 DEF ReceiveEvent, DebounceElapses
<1>12. CASE BeginReload
  BY <1>12 DEF BeginReload
<1>13. CASE ReloadNotifies
  BY <1>13 DEF ReloadNotifies, SignalAll
<1>14. CASE \E c \in Consumers : ConsumerWakes(c) \/ ConsumerReads(c)
  BY <1>14 DEF ConsumerWakes, ConsumerReads
<1>15. CASE \E f \in File \cup {Broken} : EditorWrites(f)
  BY <1>15 DEF EditorWrites
<1>16. CASE \E renames \in BOOLEAN : EditorRemoves(renames)
  BY <1>16 DEF EditorRemoves
<1>17. CASE Exit
  BY <1>17 DEF Exit
<1>18. CASE UNCHANGED vars
  BY <1>18 DEF vars
<1> QED
  BY <1>1, <1>2, <1>3, <1>4, <1>5, <1>6, <1>7, <1>8, <1>9, <1>10, <1>11, <1>12, <1>13, <1>14,
     <1>15, <1>16, <1>17, <1>18
  DEF Next, LockHolder, Watcher

\* What a save or a switch of the profile wrote is still in the file unless
\* an editor or a later operation wrote over it.
LEMMA PromiseIsKept ==
  ASSUME ConfigTypeOK, LockInv, PromiseKept, [Next]_vars
  PROVE  PromiseKept'
<1> USE ConfigAssumption, NormalSettings
    DEF ConfigTypeOK, LockInv, Saving, PromiseKept, lockVars, watchVars, consumerVars,
        historyVars, Acquire, Release, GiveUp, Watching
<1>1. CASE Load
  BY <1>1 DEF Load
<1>2. CASE \E settings \in Settings : SaveUserSettings(settings)
  BY <1>2 DEF SaveUserSettings
<1>3. CASE \E name \in Profiles : SetActiveProfile(name)
  <2>1. want' \in Settings
    BY <1>3, SwitchWritesSettings
  <2> QED
    BY <1>3, <2>1 DEF SetActiveProfile
<1>4. CASE WriteTemp \/ WriteFails
  BY <1>4 DEF WriteTemp, WriteFails
<1>5. CASE Rename
  BY <1>5 DEF Rename
<1>6. CASE StatFinds \/ StatMisses
  BY <1>6 DEF StatFinds, StatMisses
<1>7. CASE ReadFails
  BY <1>7 DEF ReadFails
<1>8. CASE ReadSucceeds
  BY <1>8 DEF ReadSucceeds
<1>9. CASE SaveNotifies
  BY <1>9 DEF SaveNotifies, SignalAll
<1>10. CASE WatchConfigFileChanges \/ StopWatchingConfigFile
  BY <1>10 DEF WatchConfigFileChanges, StopWatchingConfigFile
<1>11. CASE ReceiveEvent \/ DebounceElapses
  BY <1>11 DEF ReceiveEvent, DebounceElapses
<1>12. CASE BeginReload
  BY <1>12 DEF BeginReload
<1>13. CASE ReloadNotifies
  BY <1>13 DEF ReloadNotifies, SignalAll
<1>14. CASE \E c \in Consumers : ConsumerWakes(c) \/ ConsumerReads(c)
  BY <1>14 DEF ConsumerWakes, ConsumerReads
<1>15. CASE \E f \in File \cup {Broken} : EditorWrites(f)
  BY <1>15 DEF EditorWrites
<1>16. CASE \E renames \in BOOLEAN : EditorRemoves(renames)
  BY <1>16 DEF EditorRemoves
<1>17. CASE Exit
  BY <1>17 DEF Exit
<1>18. CASE UNCHANGED vars
  BY <1>18 DEF vars
<1> QED
  BY <1>1, <1>2, <1>3, <1>4, <1>5, <1>6, <1>7, <1>8, <1>9, <1>10, <1>11, <1>12, <1>13, <1>14,
     <1>15, <1>16, <1>17, <1>18
  DEF Next, LockHolder, Watcher

-----------------------------------------------------------------------------
(* The invariant, and what follows from it.                                 *)

\* The program starts with the default settings and nothing saved.
LEMMA InitEstablishes == Init => IInv
BY ConfigAssumption
DEF Init, IInv, ConfigTypeOK, LockInv, Saving, ConsumersCatchUp, NoChangeLost, PromiseKept

\* The parts together are inductive.
LEMMA NextKeeps == IInv /\ [Next]_vars => IInv'
BY TypeKept, LockKept, SignalsKept, ChangesKept, PromiseIsKept DEF IInv

\* The inductive invariant holds in every reachable state.
THEOREM Invariance == Spec => []IInv
BY InitEstablishes, NextKeeps, PTL DEF Spec

\* Every variable keeps its type, and what a save or a profile switch wrote
\* stays whole in the file and in force, through any crash and restart.
THEOREM SavedSettingsSurvive == Spec => []ConfigInv
<1>1. IInv => ConfigInv
  BY DEF IInv, PromiseKept, Saving, ConfigInv, SavedSurvives
<1> QED
  BY <1>1, Invariance, PTL

\* A consumer that acts on a replaced snapshot has been, or is about to be,
\* signalled: coalesced signals lose no change.
THEOREM SignalsLoseNothing == Spec => []ConsumersCatchUp
<1>1. IInv => ConsumersCatchUp
  BY DEF IInv
<1> QED
  BY <1>1, Invariance, PTL

\* A change of the file that the watcher could know of is in force, or is on
\* its way through the event, the timer, the wait for the lock or the reload.
THEOREM ChangesAreLoaded == Spec => []FileIsLoaded
<1>1. IInv => FileIsLoaded
  BY DEF IInv, LockInv, NoChangeLost, FileIsLoaded, Watching
<1> QED
  BY <1>1, Invariance, PTL

\* No reload puts a default file in the place of one an editor moved away.
THEOREM MissingFileIsNotReplaced == Spec => RunningConfigIsKept
<1>1. IInv /\ [Next]_vars =>
        [LockHolder /\ disk = Missing /\ current # None /\ disk' # Missing =>
           op \in {"save", "switch"}]_vars
  <2> SUFFICES ASSUME IInv, LockHolder, disk = Missing, current # None, disk' # Missing
               PROVE  op \in {"save", "switch"}
    OBVIOUS
  <2>1. Rename
    BY DEF LockHolder, WriteTemp, WriteFails, StatFinds, StatMisses, ReadFails, ReadSucceeds,
           SaveNotifies
  <2>2. op # "none" /\ op # "load" /\ op # "reload"
    BY <2>1 DEF IInv, LockInv, Rename
  <2> QED
    BY <2>2 DEF IInv, ConfigTypeOK
<1> QED
  BY <1>1, Invariance, PTL DEF Spec, RunningConfigIsKept

=============================================================================
