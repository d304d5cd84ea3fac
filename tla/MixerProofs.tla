------------------------------- MODULE MixerProofs -------------------------------
(***************************************************************************)
(* Theorems about Mixer, for every set of sessions, keys, sliders and      *)
(* mappings.                                                               *)
(***************************************************************************)
EXTENDS Mixer, SequenceTheorems, NaturalsInduction, WellFoundedInduction, TLAPS

-----------------------------------------------------------------------------
(* Lists of sessions.                                                       *)

Distinct(list) == \A i, j \in DOMAIN list : list[i] = list[j] => i = j

\* A set of places has a first.
LEMMA HasLeast ==
  ASSUME NEW T, T \subseteq Nat, T # {}
  PROVE  \E x \in T : \A y \in T : x <= y
<1> DEFINE R == {ss \in Nat \X Nat : ss[1] < ss[2]}
<1>1. IsWellFoundedOn(R, Nat)
  BY NatLessThanWellFounded DEF OpToRel
<1>2. \A x, y \in Nat : y < x => <<y, x>> \in R
  OBVIOUS
<1> HIDE DEF R
<1>3. \E x \in T : \A y \in T : <<y, x>> \notin R
  BY <1>1, WFMin
<1>4. \A x, y \in T : <<y, x>> \notin R => x <= y
  BY <1>2
<1> QED
  BY <1>3, <1>4

\* The search for a session in a list ends at the first place that has it.
LEMMA RemoveFirstFinds ==
  ASSUME NEW list \in Seq(Sessions), NEW s \in ToSet(list)
  PROVE  \E i \in 1..Len(list) : list[i] = s /\ RemoveFirst(list, s) = RemoveAt(list, i)
<1> DEFINE I == {i \in 1..Len(list) : list[i] = s}
<1>1. I \subseteq Nat /\ I # {}
  BY LenProperties DEF ToSet
<1>2. Min(I) \in I
  <2>1. \E i \in I : \A j \in I : i <= j
    <3> HIDE DEF I
    <3> QED
      BY <1>1, HasLeast
  <2> HIDE DEF I
  <2> QED
    BY <2>1 DEF Min
<1>3. RemoveFirst(list, s) = RemoveAt(list, Min(I))
  BY <1>1 DEF RemoveFirst, SelectInSeq
<1> QED
  BY <1>2, <1>3

\* Taking a session out of a list leaves the others, each once.
LEMMA RemoveFirstProperties ==
  ASSUME NEW list \in Seq(Sessions), NEW s \in Sessions, Distinct(list)
  PROVE  /\ RemoveFirst(list, s) \in Seq(Sessions)
         /\ ToSet(RemoveFirst(list, s)) = ToSet(list) \ {s}
         /\ Distinct(RemoveFirst(list, s))
<1>1. CASE s \notin ToSet(list)
  <2>1. RemoveFirst(list, s) = list
    BY <1>1, LenProperties DEF RemoveFirst, ToSet
  <2> QED
    BY <1>1, <2>1
<1>2. CASE s \in ToSet(list)
  <2>1. PICK i \in 1..Len(list) : list[i] = s /\ RemoveFirst(list, s) = RemoveAt(list, i)
    BY <1>2, RemoveFirstFinds
  <2>2. Len(list) \in Nat /\ DOMAIN list = 1..Len(list) /\ list \in [1..Len(list) -> Sessions]
    BY LenProperties
  <2> DEFINE n == Len(list)
             rest == [j \in 1..(n - 1) |-> IF j < i THEN list[j] ELSE list[j + 1]]
  <2>3. rest \in Seq(Sessions) /\ Len(rest) = n - 1
    <3>1. n - 1 \in Nat /\ rest \in [1..(n - 1) -> Sessions]
      BY <2>1, <2>2
    <3>2. rest \in Seq(Sessions)
      BY <3>1, SeqDef
    <3> QED
      BY <3>1, <3>2, LenProperties
  <2>4. RemoveFirst(list, s) = rest
    <3> DEFINE front == SubSeq(list, 1, i - 1)
               back == SubSeq(list, i + 1, n)
    <3>1. \A j \in 1..n : list[j] \in Sessions
      BY <2>2
    <3>2. front \in Seq(Sessions) /\ Len(front) = i - 1 /\ \A j \in 1..(i - 1) : front[j] = list[j]
      <4>1. i - 1 \in Int /\ 1 \in Int /\ \A j \in 1..(i - 1) : list[j] \in Sessions
        BY <2>1, <2>2, <3>1
      <4> QED
        BY <2>1, <2>2, <4>1, SubSeqProperties
    <3>3. back \in Seq(Sessions) /\ Len(back) = n - i /\ \A j \in 1..(n - i) : back[j] = list[i + j]
      <4>1. i + 1 \in Int /\ n \in Int /\ \A j \in (i + 1)..n : list[j] \in Sessions
        BY <2>1, <2>2, <3>1
      <4> QED
        BY SMTT(30), <2>1, <2>2, <4>1, SubSeqProperties
    <3>4. RemoveFirst(list, s) = front \o back
      BY <2>1 DEF RemoveAt
    <3> HIDE DEF front, back
    <3>5. /\ front \o back \in Seq(Sessions)
          /\ Len(front \o back) = n - 1
          /\ \A j \in 1..(n - 1) :
               (front \o back)[j] = IF j <= i - 1 THEN front[j] ELSE back[j - (i - 1)]
      <4>1. /\ front \o back \in Seq(Sessions)
            /\ Len(front \o back) = Len(front) + Len(back)
            /\ \A j \in 1..(Len(front) + Len(back)) :
                 (front \o back)[j] = IF j <= Len(front) THEN front[j] ELSE back[j - Len(front)]
        BY <3>2, <3>3, ConcatProperties
      <4>2. Len(front) = i - 1 /\ Len(front) + Len(back) = n - 1
        BY <2>1, <2>2, <3>2, <3>3
      <4> QED
        BY <4>1, <4>2
    <3>6. \A j \in 1..(n - 1) : (front \o back)[j] = rest[j]
      <4> SUFFICES ASSUME NEW j \in 1..(n - 1) PROVE (front \o back)[j] = rest[j]
        OBVIOUS
      <4>1. CASE j < i
        <5>1. j \in 1..(i - 1)
          BY <2>1, <2>2, <4>1
        <5> QED
          BY <2>1, <2>2, <3>2, <3>5, <4>1, <5>1
      <4>2. CASE ~(j < i)
        <5>1. j - (i - 1) \in 1..(n - i) /\ i + (j - (i - 1)) = j + 1
          BY <2>1, <2>2, <4>2
        <5>2. back[j - (i - 1)] = list[j + 1]
          BY <3>3, <5>1
        <5>3. (front \o back)[j] = back[j - (i - 1)]
          BY <2>1, <2>2, <3>5, <4>2
        <5> QED
          BY <4>2, <5>2, <5>3
      <4> QED
        BY <4>1, <4>2
    <3> HIDE DEF rest
    <3> QED
      BY <2>3, <3>4, <3>5, <3>6, SeqEqual
  <2>5. ToSet(rest) = ToSet(list) \ {s}
    <3>1. \A j \in 1..(n - 1) : rest[j] \in ToSet(list) \ {s}
      BY <2>1, <2>2 DEF Distinct, ToSet
    <3>2. \A j \in 1..n : list[j] # s => \E k \in 1..(n - 1) : rest[k] = list[j]
      <4> SUFFICES ASSUME NEW j \in 1..n, list[j] # s
                   PROVE  \E k \in 1..(n - 1) : rest[k] = list[j]
        OBVIOUS
      <4>1. CASE j < i
        <5>1. j \in 1..(n - 1) /\ rest[j] = list[j]
          BY <2>1, <2>2, <4>1
        <5> QED
          BY <5>1
      <4>2. CASE j > i
        <5>1. j - 1 \in 1..(n - 1) /\ rest[j - 1] = list[j]
          BY <2>1, <2>2, <4>2
        <5> QED
          BY <5>1
      <4> QED
        BY <2>1, <2>2, <4>1, <4>2
    <3> QED
      BY SMTT(30), <2>2, <3>1, <3>2 DEF ToSet
  <2>6. Distinct(rest)
    BY <2>1, <2>2 DEF Distinct
  <2> QED
    BY <2>3, <2>4, <2>5, <2>6
<1> QED
  BY <1>1, <1>2

\* A session that is not in a list may be added to its end.
LEMMA AppendKeepsDistinct ==
  ASSUME NEW list \in Seq(Sessions), NEW s \in Sessions
  PROVE  /\ Append(list, s) \in Seq(Sessions)
         /\ ToSet(Append(list, s)) = ToSet(list) \cup {s}
         /\ Distinct(list) /\ s \notin ToSet(list) => Distinct(Append(list, s))
<1>1. /\ Append(list, s) \in Seq(Sessions)
      /\ Len(list) \in Nat
      /\ DOMAIN list = 1..Len(list)
      /\ DOMAIN Append(list, s) = 1..(Len(list) + 1)
      /\ \A i \in 1..Len(list) : Append(list, s)[i] = list[i]
      /\ Append(list, s)[Len(list) + 1] = s
  BY AppendProperties, LenProperties
<1>2. ToSet(Append(list, s)) = ToSet(list) \cup {s}
  BY <1>1 DEF ToSet
<1>3. Distinct(list) /\ s \notin ToSet(list) => Distinct(Append(list, s))
  BY <1>1 DEF ToSet, Distinct
<1> QED
  BY <1>1, <1>2, <1>3

\* The list of a name that has no session.
LEMMA EmptyList == <<>> \in Seq(Sessions) /\ ToSet(<<>>) = {} /\ Distinct(<<>>)
BY DEF ToSet, Distinct

-----------------------------------------------------------------------------
(* The inductive invariant.  The volumes of a move are those of sessions    *)
(* in the map because the lock keeps every removal away until they are set. *)

\* What the map reaches, once a session's handlers have run.
Present == {s \in Sessions : life[s] = "added"}

LockInv ==
  /\ lock = "refresher" <=> refresher = "scanning"
  /\ volumes # {} => lock = "slider"
  /\ slider = Nobody => lock # "slider" /\ targets = {} /\ keys = {}

\* A session is in the list of its key, once, while it is present.
MapInv ==
  \A n \in Names :
    /\ Distinct(m[n])
    /\ ToSet(m[n]) = {s \in Present : NameOf[s] = n}

\* During a reload the list is right about the sessions looked at, unless the
\* settings have changed again.
UnmappedInv ==
  /\ Distinct(unmapped)
  /\ ToSet(unmapped) \subseteq Present
  /\ ~ReloadPending => ToSet(unmapped) = {s \in Present : ~Mapped(s, mapping)}
  /\ refresher = "scanning" =>
       /\ unseen \subseteq Present
       /\ ToSet(unmapped) \cap unseen = {}
       /\ ~notifying /\ ~mixerSignal =>
            ToSet(unmapped) = {s \in Present \ unseen : ~Mapped(s, mapping)}

\* What a move has yet to reach is among its targets, its keys or the volumes
\* still to be set.
MoveInv ==
  /\ volumes \subseteq Present
  /\ due \subseteq Present
  /\ \A s \in due : NameOf[s] \in targets \/ NameOf[s] \in keys \/ s \in volumes

MixerIInv ==
  /\ MixerTypeOK
  /\ LockInv
  /\ MapInv
  /\ UnmappedInv
  /\ MoveInv

\* The map holds the sessions that are present, and no others.
LEMMA KnownIsPresent ==
  ASSUME MixerTypeOK, MapInv
  PROVE  Known = Present
<1>1. \A s \in Sessions : m[NameOf[s]] \in Seq(Sessions) /\ NameOf[s] \in Names
  BY MixerAssumption DEF MixerTypeOK
<1>2. \A s \in Sessions : Contains(m[NameOf[s]], s) <=> s \in ToSet(m[NameOf[s]])
  BY <1>1, LenProperties DEF Contains, ToSet
<1> QED
  BY <1>1, <1>2 DEF MapInv, Known, Present

\* Every operation leaves each variable in its type.
LEMMA TypeKept ==
  ASSUME MixerIInv, [Next]_vars
  PROVE  MixerTypeOK'
<1> USE MixerAssumption
    DEF MixerIInv, MixerTypeOK, vars, storeVars, sessionVars, refreshVars, moveVars,
        historyVars
<1>1. ASSUME NEW map \in Mappings, ChangeMapping(map)
      PROVE  MixerTypeOK'
  BY <1>1 DEF ChangeMapping
<1>2. CASE Notify
  BY <1>2 DEF Notify
<1>3. CASE SerialResets
  BY <1>3 DEF SerialResets
<1>4. ASSUME NEW s \in Sessions, HandleSessionAdded(s)
      PROVE  MixerTypeOK'
  BY <1>4, AppendKeepsDistinct DEF HandleSessionAdded
<1>5. ASSUME NEW s \in Sessions, HandleSessionRemoved(s)
      PROVE  MixerTypeOK'
  BY <1>5, RemoveFirstProperties DEF HandleSessionRemoved, MapInv, UnmappedInv
<1>6. ASSUME NEW s \in Sessions, FinderReleases(s)
      PROVE  MixerTypeOK'
  BY <1>6 DEF FinderReleases
<1>7. CASE RefresherWakes
  BY <1>7 DEF RefresherWakes
<1>8. CASE RefreshBegins
  BY <1>8, EmptyList DEF RefreshBegins, Known
<1>9. ASSUME NEW s \in Sessions, RefreshLooksAt(s)
      PROVE  MixerTypeOK'
  BY <1>9, AppendKeepsDistinct DEF RefreshLooksAt
<1>10. CASE RefreshEnds
  BY <1>10 DEF RefreshEnds
<1>11. ASSUME NEW i \in Sliders, SliderMoves(i)
      PROVE  MixerTypeOK'
  BY <1>11 DEF SliderMoves, Known
<1>12. ASSUME NEW t \in Names \cup {Unmapped}, ResolveTarget(t)
      PROVE  MixerTypeOK'
  BY <1>12 DEF ResolveTarget, ToSet
<1>13. ASSUME NEW k \in Names, LookUp(k)
      PROVE  MixerTypeOK'
  BY <1>13 DEF LookUp, ToSet
<1>14. ASSUME NEW s \in Sessions, SetVolume(s)
      PROVE  MixerTypeOK'
  BY <1>14 DEF SetVolume
<1>15. CASE VolumesSet
  BY <1>15 DEF VolumesSet
<1>16. CASE MoveHandled
  BY <1>16 DEF MoveHandled
<1>17. CASE UNCHANGED vars
  BY <1>17
<1> QED
  BY <1>1, <1>2, <1>3, <1>4, <1>5, <1>6, <1>7, <1>8, <1>9, <1>10, <1>11, <1>12, <1>13,
     <1>14, <1>15, <1>16, <1>17
  DEF Next

\* The two workers hold the lock in turn.
LEMMA LockKept ==
  ASSUME MixerIInv, [Next]_vars
  PROVE  LockInv'
<1> USE MixerAssumption
    DEF MixerIInv, MixerTypeOK, LockInv, vars, storeVars, sessionVars, refreshVars,
        moveVars, historyVars
<1>1. ASSUME NEW map \in Mappings, ChangeMapping(map)
      PROVE  LockInv'
  BY <1>1 DEF ChangeMapping
<1>2. CASE Notify
  BY <1>2 DEF Notify
<1>3. CASE SerialResets
  BY <1>3 DEF SerialResets
<1>4. ASSUME NEW s \in Sessions, HandleSessionAdded(s)
      PROVE  LockInv'
  BY <1>4 DEF HandleSessionAdded
<1>5. ASSUME NEW s \in Sessions, HandleSessionRemoved(s)
      PROVE  LockInv'
  BY <1>5 DEF HandleSessionRemoved
<1>6. ASSUME NEW s \in Sessions, FinderReleases(s)
      PROVE  LockInv'
  BY <1>6 DEF FinderReleases
<1>7. CASE RefresherWakes
  BY <1>7 DEF RefresherWakes
<1>8. CASE RefreshBegins
  BY <1>8 DEF RefreshBegins
<1>9. ASSUME NEW s \in Sessions, RefreshLooksAt(s)
      PROVE  LockInv'
  BY <1>9 DEF RefreshLooksAt
<1>10. CASE RefreshEnds
  BY <1>10 DEF RefreshEnds
<1>11. ASSUME NEW i \in Sliders, SliderMoves(i)
      PROVE  LockInv'
  BY <1>11 DEF SliderMoves
<1>12. ASSUME NEW t \in Names \cup {Unmapped}, ResolveTarget(t)
      PROVE  LockInv'
  BY <1>12 DEF ResolveTarget
<1>13. ASSUME NEW k \in Names, LookUp(k)
      PROVE  LockInv'
  BY <1>13 DEF LookUp
<1>14. ASSUME NEW s \in Sessions, SetVolume(s)
      PROVE  LockInv'
  BY <1>14 DEF SetVolume
<1>15. CASE VolumesSet
  BY <1>15 DEF VolumesSet
<1>16. CASE MoveHandled
  BY <1>16 DEF MoveHandled
<1>17. CASE UNCHANGED vars
  BY <1>17
<1> QED
  BY <1>1, <1>2, <1>3, <1>4, <1>5, <1>6, <1>7, <1>8, <1>9, <1>10, <1>11, <1>12, <1>13,
     <1>14, <1>15, <1>16, <1>17
  DEF Next

\* The handlers keep the map exact.
LEMMA MapKept ==
  ASSUME MixerIInv, [Next]_vars
  PROVE  MapInv'
<1> USE MixerAssumption
    DEF MixerIInv, MixerTypeOK, MapInv, Present, vars, storeVars, sessionVars, refreshVars,
        moveVars, historyVars
<1>1. ASSUME NEW map \in Mappings, ChangeMapping(map)
      PROVE  MapInv'
  BY <1>1 DEF ChangeMapping
<1>2. CASE Notify
  BY <1>2 DEF Notify
<1>3. CASE SerialResets
  BY <1>3 DEF SerialResets
<1>4. ASSUME NEW s \in Sessions, HandleSessionAdded(s)
      PROVE  MapInv'
  BY <1>4, AppendKeepsDistinct DEF HandleSessionAdded
<1>5. ASSUME NEW s \in Sessions, HandleSessionRemoved(s)
      PROVE  MapInv'
  <2> DEFINE n == NameOf[s]
  <2>1. n \in Names /\ m[n] \in Seq(Sessions) /\ Distinct(m[n])
    BY DEF MapInv
  <2>2. /\ m' = [m EXCEPT ![n] = RemoveFirst(m[n], s)]
        /\ life' = [life EXCEPT ![s] = "removing"]
    BY <1>5 DEF HandleSessionRemoved
  <2>3. Distinct(m'[n]) /\ ToSet(m'[n]) = ToSet(m[n]) \ {s}
    BY <2>1, <2>2, RemoveFirstProperties
  <2>4. \A k \in Names \ {n} : m'[k] = m[k]
    BY <2>1, <2>2
  <2>5. Present' = Present \ {s}
    BY <2>2
  <2> QED
    BY <2>1, <2>3, <2>4, <2>5
<1>6. ASSUME NEW s \in Sessions, FinderReleases(s)
      PROVE  MapInv'
  BY <1>6 DEF FinderReleases
<1>7. CASE RefresherWakes
  BY <1>7 DEF RefresherWakes
<1>8. CASE RefreshBegins
  BY <1>8 DEF RefreshBegins
<1>9. ASSUME NEW s \in Sessions, RefreshLooksAt(s)
      PROVE  MapInv'
  BY <1>9 DEF RefreshLooksAt
<1>10. CASE RefreshEnds
  BY <1>10 DEF RefreshEnds
<1>11. ASSUME NEW i \in Sliders, SliderMoves(i)
      PROVE  MapInv'
  BY <1>11 DEF SliderMoves
<1>12. ASSUME NEW t \in Names \cup {Unmapped}, ResolveTarget(t)
      PROVE  MapInv'
  BY <1>12 DEF ResolveTarget
<1>13. ASSUME NEW k \in Names, LookUp(k)
      PROVE  MapInv'
  BY <1>13 DEF LookUp
<1>14. ASSUME NEW s \in Sessions, SetVolume(s)
      PROVE  MapInv'
  BY <1>14 DEF SetVolume
<1>15. CASE VolumesSet
  BY <1>15 DEF VolumesSet
<1>16. CASE MoveHandled
  BY <1>16 DEF MoveHandled
<1>17. CASE UNCHANGED vars
  BY <1>17
<1> QED
  BY <1>1, <1>2, <1>3, <1>4, <1>5, <1>6, <1>7, <1>8, <1>9, <1>10, <1>11, <1>12, <1>13,
     <1>14, <1>15, <1>16, <1>17
  DEF Next

\* The handlers and the reload keep the unmapped list.
LEMMA UnmappedKept ==
  ASSUME MixerIInv, [Next]_vars
  PROVE  UnmappedInv'
<1> USE MixerAssumption
    DEF MixerIInv, MixerTypeOK, LockInv, MapInv, UnmappedInv, Present, ReloadPending, vars,
        storeVars, sessionVars, refreshVars, moveVars, historyVars
<1>1. ASSUME NEW map \in Mappings, ChangeMapping(map)
      PROVE  UnmappedInv'
  BY <1>1 DEF ChangeMapping
<1>2. CASE Notify
  BY <1>2 DEF Notify
<1>3. CASE SerialResets
  BY <1>3 DEF SerialResets
<1>4. ASSUME NEW s \in Sessions, HandleSessionAdded(s)
      PROVE  UnmappedInv'
  BY <1>4, AppendKeepsDistinct DEF HandleSessionAdded, Mapped
<1>5. ASSUME NEW s \in Sessions, HandleSessionRemoved(s)
      PROVE  UnmappedInv'
  BY <1>5, RemoveFirstProperties DEF HandleSessionRemoved, Mapped
<1>6. ASSUME NEW s \in Sessions, FinderReleases(s)
      PROVE  UnmappedInv'
  BY <1>6 DEF FinderReleases
<1>7. CASE RefresherWakes
  BY <1>7 DEF RefresherWakes
<1>8. CASE RefreshBegins
  BY <1>8, EmptyList, KnownIsPresent DEF RefreshBegins, Mapped
<1>9. ASSUME NEW s \in Sessions, RefreshLooksAt(s)
      PROVE  UnmappedInv'
  BY <1>9, AppendKeepsDistinct DEF RefreshLooksAt, Mapped
<1>10. CASE RefreshEnds
  BY <1>10 DEF RefreshEnds
<1>11. ASSUME NEW i \in Sliders, SliderMoves(i)
      PROVE  UnmappedInv'
  BY <1>11 DEF SliderMoves
<1>12. ASSUME NEW t \in Names \cup {Unmapped}, ResolveTarget(t)
      PROVE  UnmappedInv'
  BY <1>12 DEF ResolveTarget
<1>13. ASSUME NEW k \in Names, LookUp(k)
      PROVE  UnmappedInv'
  BY <1>13 DEF LookUp
<1>14. ASSUME NEW s \in Sessions, SetVolume(s)
      PROVE  UnmappedInv'
  BY <1>14 DEF SetVolume
<1>15. CASE VolumesSet
  BY <1>15 DEF VolumesSet
<1>16. CASE MoveHandled
  BY <1>16 DEF MoveHandled
<1>17. CASE UNCHANGED vars
  BY <1>17
<1> QED
  BY <1>1, <1>2, <1>3, <1>4, <1>5, <1>6, <1>7, <1>8, <1>9, <1>10, <1>11, <1>12, <1>13,
     <1>14, <1>15, <1>16, <1>17
  DEF Next

\* A move goes through its targets, their keys and the sessions of each.
LEMMA MoveKept ==
  ASSUME MixerIInv, [Next]_vars
  PROVE  MoveInv'
<1> USE MixerAssumption
    DEF MixerIInv, MixerTypeOK, LockInv, MapInv, MoveInv, Present, vars, storeVars,
        sessionVars, refreshVars, moveVars, historyVars
<1>1. ASSUME NEW map \in Mappings, ChangeMapping(map)
      PROVE  MoveInv'
  BY <1>1 DEF ChangeMapping
<1>2. CASE Notify
  BY <1>2 DEF Notify
<1>3. CASE SerialResets
  BY <1>3 DEF SerialResets
<1>4. ASSUME NEW s \in Sessions, HandleSessionAdded(s)
      PROVE  MoveInv'
  BY <1>4 DEF HandleSessionAdded
<1>5. ASSUME NEW s \in Sessions, HandleSessionRemoved(s)
      PROVE  MoveInv'
  BY <1>5 DEF HandleSessionRemoved
<1>6. ASSUME NEW s \in Sessions, FinderReleases(s)
      PROVE  MoveInv'
  BY <1>6 DEF FinderReleases
<1>7. CASE RefresherWakes
  BY <1>7 DEF RefresherWakes
<1>8. CASE RefreshBegins
  BY <1>8 DEF RefreshBegins
<1>9. ASSUME NEW s \in Sessions, RefreshLooksAt(s)
      PROVE  MoveInv'
  BY <1>9 DEF RefreshLooksAt
<1>10. CASE RefreshEnds
  BY <1>10 DEF RefreshEnds
<1>11. ASSUME NEW i \in Sliders, SliderMoves(i)
      PROVE  MoveInv'
  BY <1>11, KnownIsPresent DEF SliderMoves
<1>12. ASSUME NEW t \in Names \cup {Unmapped}, ResolveTarget(t)
      PROVE  MoveInv'
  BY <1>12 DEF ResolveTarget
<1>13. ASSUME NEW k \in Names, LookUp(k)
      PROVE  MoveInv'
  BY <1>13 DEF LookUp
<1>14. ASSUME NEW s \in Sessions, SetVolume(s)
      PROVE  MoveInv'
  BY <1>14 DEF SetVolume
<1>15. CASE VolumesSet
  BY <1>15 DEF VolumesSet
<1>16. CASE MoveHandled
  BY <1>16 DEF MoveHandled
<1>17. CASE UNCHANGED vars
  BY <1>17
<1> QED
  BY <1>1, <1>2, <1>3, <1>4, <1>5, <1>6, <1>7, <1>8, <1>9, <1>10, <1>11, <1>12, <1>13,
     <1>14, <1>15, <1>16, <1>17
  DEF Next

\* The map starts empty.
LEMMA InitEstablishes == Init => MixerIInv
<1> SUFFICES ASSUME Init PROVE MixerIInv
  OBVIOUS
<1> USE MixerAssumption, EmptyList DEF Init
<1>1. MixerTypeOK
  <2>1. /\ m \in [Names -> Seq(Sessions)]
        /\ life \in [Sessions -> {"absent", "added", "removing"}]
        /\ setBy \in [Sessions -> Sliders \cup {Nobody}]
    OBVIOUS
  <2> QED
    BY <2>1 DEF MixerTypeOK
<1>2. LockInv /\ MapInv /\ UnmappedInv /\ MoveInv
  BY DEF LockInv, MapInv, UnmappedInv, MoveInv, Present
<1> QED
  BY <1>1, <1>2 DEF MixerIInv

\* The inductive invariant holds in every reachable state.
THEOREM Invariance == Spec => []MixerIInv
<1>1. MixerIInv /\ [Next]_vars => MixerIInv'
  BY TypeKept, LockKept, MapKept, UnmappedKept, MoveKept DEF MixerIInv
<1> QED
  BY <1>1, InitEstablishes, PTL DEF Spec

\* When no reload is pending the unmapped list has exactly the sessions no
\* slider is bound to, each of them once.
THEOREM UnmappedListIsExact == Spec => []MixerInv
<1>1. MixerIInv => MixerInv
  BY KnownIsPresent DEF MixerIInv, UnmappedInv, Distinct, MixerInv, UnmappedIsRight
<1> QED
  BY <1>1, Invariance, PTL

\* A session the finder may release is in no list, and no volume of it is set.
THEOREM ReleasedIsOutOfReach == Spec => []RemovedIsUnreachable
<1>1. MixerIInv => RemovedIsUnreachable
  BY KnownIsPresent DEF MixerIInv, UnmappedInv, MoveInv, Present, RemovedIsUnreachable
<1> QED
  BY <1>1, Invariance, PTL

\* A move reaches every session of its targets that stays.
THEOREM NoSessionIsMissed == Spec => []MoveReachesAll
<1>1. MixerIInv => MoveReachesAll
  BY DEF MixerIInv, LockInv, MoveInv, MoveReachesAll
<1> QED
  BY <1>1, Invariance, PTL

=============================================================================
