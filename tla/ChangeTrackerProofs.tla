-------------------------- MODULE ChangeTrackerProofs --------------------------
(***************************************************************************)
(* The tracker and the map implement LatestConfs, for every set of names   *)
(* and contents.                                                           *)
(***************************************************************************)
EXTENDS ChangeTracker, TLAPS

\* What Update keeps for a name.
LEMMA ChangeKept ==
  ASSUME TypeOK, NEW n \in Names, NEW current \in Contents
  PROVE  LET change == Change(n, latest[n], current)
             first == IF Pending(n) THEN items[n].previous ELSE latest[n]
         IN /\ change \in Changes
            /\ change # NoChange <=> first # current
            /\ change # NoChange => change.previous = first /\ change.current = current
<1> DEFINE first == IF Pending(n) THEN items[n].previous ELSE latest[n]
<1>1. first \in Contents
  BY DEF TypeOK, Changes
<1>2. NoChange \in Changes
  BY DEF NoChange, Changes, Contents
<1>3. CASE first = current
  BY <1>2, <1>3 DEF Change
<1>4. CASE first # current
  <2> DEFINE kept == [previous |-> first, current |-> current]
  <2>1. Change(n, latest[n], current) = kept
    BY <1>4 DEF Change
  <2>2. kept \in Changes /\ kept.previous = first /\ kept.current = current
    BY <1>1 DEF Changes
  <2>3. kept # NoChange
    BY <1>4, <2>2 DEF NoChange
  <2> QED BY <1>4, <2>1, <2>2, <2>3
<1> QED BY <1>3, <1>4

LEMMA UpdateTypes ==
  ASSUME TypeOK, NEW n \in Names, NEW current \in Contents, Update(n, current)
  PROVE  TypeOK'
<1> DEFINE change == Change(n, latest[n], current)
<1>1. change \in Changes /\ (change # NoChange => change.previous # change.current)
  BY ChangeKept
<1>2. items' = [items EXCEPT ![n] = change] /\ items' \in [Names -> Changes]
  BY <1>1 DEF Update, TypeOK
<1>3. \A m \in Names : Pending(m)' => items'[m].previous # items'[m].current
  <2> HIDE DEF change
  <2> QED BY <1>1, <1>2 DEF TypeOK, Pending
<1>4. latest' \in [Names -> Contents]
  BY DEF Update, TypeOK
<1> QED BY <1>2, <1>3, <1>4 DEF Update, TypeOK

LEMMA ApplyTypes ==
  ASSUME TypeOK, NEW n \in Names, Apply(n)
  PROVE  TypeOK'
<1>1. Merged(n, items[n]) \in Contents
  BY DEF Merged, TypeOK, Changes, Contents
<1> QED BY <1>1 DEF Apply, TypeOK, Pending

\* Every variable keeps its type; no change from a content to itself is kept, however
\* the notifications went back and forth.
THEOREM TypeCorrect == Spec => []TypeOK
<1>1. Init => TypeOK
  BY DEF Init, TypeOK, Contents, Changes, NoChange, Pending
<1>2. TypeOK /\ [Next]_vars => TypeOK'
  <2> SUFFICES ASSUME TypeOK, [Next]_vars PROVE TypeOK'
    OBVIOUS
  <2>1. CASE apply
    BY <2>1 DEF apply, TypeOK, Pending
  <2>2. CASE Applied
    BY <2>2 DEF Applied, TypeOK, Pending, NoChange, Changes, Contents
  <2>3. CASE UNCHANGED vars
    BY <2>3 DEF vars, TypeOK, Pending
  <2> QED BY <2>1, <2>2, <2>3, UpdateTypes, ApplyTypes DEF Next
<1> QED BY <1>1, <1>2, PTL DEF Spec

(***************************************************************************)
(* The difference between the map and the notifications.                   *)
(***************************************************************************)
LEMMA UpdateTracks ==
  ASSUME TypeOK, TracksDifference, NEW n \in Names, NEW current \in Contents,
         Update(n, current)
  PROVE  TracksDifference'
<1> DEFINE change == Change(n, latest[n], current)
<1> DEFINE first == IF Pending(n) THEN items[n].previous ELSE latest[n]
<1>1. /\ change # NoChange <=> first # current
      /\ change # NoChange => change.previous = first /\ change.current = current
  BY ChangeKept
<1>2. bridgeConfMap[n] = first /\ bridgeConfMap' = bridgeConfMap
  BY DEF Update, TypeOK, TracksDifference, Tracks
<1>3. lock = "free" /\ lock' = "free" /\ todo = {} /\ todo' = {}
  BY DEF Update, TypeOK
<1>4. items'[n] = change /\ latest'[n] = current
  BY DEF Update, TypeOK
<1>5. Tracks(n)'
  <2> HIDE DEF change, first
  <2> QED BY <1>1, <1>2, <1>3, <1>4 DEF Tracks, Pending
<1>6. ASSUME NEW m \in Names, m # n PROVE Tracks(m)'
  <2>1. items'[m] = items[m] /\ latest'[m] = latest[m]
    BY <1>6 DEF Update, TypeOK
  <2> QED BY <1>2, <1>3, <2>1 DEF TracksDifference, Tracks, Pending
<1> QED BY <1>5, <1>6 DEF TracksDifference

LEMMA ApplyTracks ==
  ASSUME TypeOK, TracksDifference, NEW n \in Names, Apply(n)
  PROVE  TracksDifference'
<1>1. /\ Pending(n) /\ items[n].current = latest[n]
      /\ bridgeConfMap[n] = items[n].previous
      /\ items[n].previous # items[n].current
  BY DEF Apply, TypeOK, TracksDifference, Tracks
<1>2. Merged(n, items[n]) = latest[n]
  BY <1>1 DEF Merged
<1>3. Tracks(n)'
  <2>1. /\ lock' = "apply" /\ n \notin todo' /\ UNCHANGED <<latest, items>>
        /\ bridgeConfMap'[n] = latest[n]
    BY <1>2 DEF Apply, TypeOK
  <2> QED BY <1>1, <2>1 DEF Tracks, Pending
<1>4. ASSUME NEW m \in Names, m # n PROVE Tracks(m)'
  BY <1>4 DEF Apply, TypeOK, TracksDifference, Tracks, Pending
<1> QED BY <1>3, <1>4 DEF TracksDifference

\* A change that is kept leads from the map to what was notified, and where there is
\* none they agree.
THEOREM TracksCorrect == Spec => []TracksDifference
<1>1. Init => TracksDifference
  BY DEF Init, TracksDifference, Tracks, Pending
<1>2. TypeOK /\ TracksDifference /\ [Next]_vars => TracksDifference'
  <2> SUFFICES ASSUME TypeOK, TracksDifference, [Next]_vars PROVE TracksDifference'
    OBVIOUS
  <2>1. CASE apply
    BY <2>1 DEF apply, TypeOK, TracksDifference, Tracks, Pending
  <2>2. CASE Applied
    BY <2>2 DEF Applied, TypeOK, TracksDifference, Tracks, Pending
  <2>3. CASE UNCHANGED vars
    BY <2>3 DEF vars, TracksDifference, Tracks, Pending
  <2> QED BY <2>1, <2>2, <2>3, UpdateTracks, ApplyTracks DEF Next
<1> QED BY <1>1, <1>2, TypeCorrect, PTL DEF Spec

(***************************************************************************)
(* The refinement.                                                         *)
(***************************************************************************)
LEMMA UpdateNotifies ==
  ASSUME TypeOK, TracksDifference, NEW n \in Names, NEW current \in Contents,
         Update(n, current)
  PROVE  Latest!Notify(n, current)
<1> DEFINE change == Change(n, latest[n], current)
<1>1. change # NoChange => change.previous = IF Pending(n) THEN items[n].previous ELSE latest[n]
  BY ChangeKept
<1>2. /\ lock = "free" /\ items' = [items EXCEPT ![n] = change]
      /\ bridgeConfMap' = bridgeConfMap
  BY DEF Update
<1>3. \A m \in Names : appliedBar[m] = bridgeConfMap[m]
  BY <1>2 DEF appliedBar, TracksDifference, Tracks
<1>4. \A m \in Names : appliedBar'[m] = bridgeConfMap[m]
  <2>1. bridgeConfMap[n] = IF Pending(n) THEN items[n].previous ELSE latest[n]
    BY <1>2 DEF TracksDifference, Tracks
  <2>2. items'[n] = change /\ \A m \in Names : m # n => items'[m] = items[m]
    BY <1>2 DEF TypeOK
  <2>3. appliedBar'[n] = bridgeConfMap[n]
    <3> HIDE DEF change
    <3> QED BY <1>1, <1>2, <2>1, <2>2 DEF appliedBar, Pending
  <2>4. ASSUME NEW m \in Names, m # n PROVE appliedBar'[m] = appliedBar[m]
    BY <1>2, <2>2, <2>4 DEF appliedBar, Pending
  <2> QED BY <1>3, <2>3, <2>4
<1>5. appliedBar' = appliedBar
  BY <1>3, <1>4 DEF appliedBar
<1> QED BY <1>5 DEF Update, Latest!Notify

LEMMA ApplyStutters ==
  ASSUME TypeOK, TracksDifference, NEW n \in Names, Apply(n)
  PROVE  UNCHANGED Latest!vars
<1>1. Pending(n) /\ UNCHANGED <<latest, items>>
  BY DEF Apply, TracksDifference, Tracks
<1>2. \A m \in Names : m # n => bridgeConfMap'[m] = bridgeConfMap[m]
  BY DEF Apply, TypeOK
<1>3. \A m \in Names : appliedBar'[m] = appliedBar[m]
  BY <1>1, <1>2 DEF appliedBar, Pending
<1>4. appliedBar' = appliedBar
  BY <1>3 DEF appliedBar
<1> QED BY <1>1, <1>4 DEF Latest!vars

LEMMA AppliedIsSnapshot ==
  ASSUME TypeOK, TracksDifference, Applied
  PROVE  Latest!Snapshot
<1>1. \A n \in Names : bridgeConfMap[n] = latest[n] /\ ~Pending(n)'
  BY DEF Applied, TracksDifference, Tracks, Pending
<1>2. appliedBar' = [n \in Names |-> latest[n]]
  BY <1>1 DEF appliedBar, Applied
<1> QED BY <1>2 DEF Applied, Latest!Snapshot, TypeOK

\* Whatever is notified between two applies and in whatever order, and however an
\* apply is spread in time, the map goes from one full snapshot of the notified
\* configurations to the next.
THEOREM TrackerAppliesLatest == Spec => AppliesLatest
<1>1. Init => Latest!Init
  BY DEF Init, Latest!Init, appliedBar, Pending
<1>2. TypeOK /\ TracksDifference /\ [Next]_vars => [Latest!Next]_(Latest!vars)
  <2> SUFFICES ASSUME TypeOK, TracksDifference, [Next]_vars
               PROVE  [Latest!Next]_(Latest!vars)
    OBVIOUS
  <2>1. ASSUME NEW n \in Names, NEW current \in Contents, Update(n, current)
        PROVE  Latest!Next
    BY <2>1, UpdateNotifies DEF Latest!Next, Contents
  <2>2. CASE apply
    BY <2>2 DEF apply, Latest!vars, appliedBar, Pending
  <2>3. CASE Applied
    BY <2>3, AppliedIsSnapshot DEF Latest!Next
  <2>4. CASE UNCHANGED vars
    BY <2>4 DEF vars, Latest!vars, appliedBar, Pending
  <2> QED BY <2>1, <2>2, <2>3, <2>4, ApplyStutters DEF Next
<1> QED BY <1>1, <1>2, TypeCorrect, TracksCorrect, PTL DEF Spec, AppliesLatest, Latest!Spec

=============================================================================
