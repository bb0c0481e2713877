----------------------- MODULE EscalationTrackerProofs -----------------------
(***************************************************************************)
(* Facts about the tracker operators, for every policy the code accepts,   *)
(* cited by the proofs about the tracker and about the controller.         *)
(***************************************************************************)
EXTENDS EscalationTracker, FiniteSetTheorems, SequenceTheorems, TLAPS

(* CountSince counts: a set of indices of a sequence is finite. *)
LEMMA CountSinceType ==
  ASSUME NEW events \in Seq(Nat), NEW since \in Int
  PROVE  CountSince(events, since) \in Nat
<1> DEFINE recent == {i \in DOMAIN events : events[i] >= since}
<1>1. DOMAIN events = 1..Len(events) /\ Len(events) \in Nat
  OBVIOUS
<1>2. IsFiniteSet(1..Len(events))
  BY <1>1, FS_Interval
<1>3. recent \in SUBSET (1..Len(events))
  BY <1>1
<1>4. IsFiniteSet(recent)
  BY <1>2, <1>3, FS_Subset
<1> QED
  BY <1>4, FS_CardinalityType DEF CountSince

(* The popleft loop leaves a sequence of times, none longer than it was. *)
LEMMA PrunedType ==
  ASSUME NEW events \in Seq(Nat), NEW oldest \in Int
  PROVE  Pruned(events, oldest) \in Seq(Nat) /\ Len(Pruned(events, oldest)) <= Len(events)
<1> DEFINE stale == {i \in DOMAIN events : \A j \in 1..i : events[j] < oldest}
           first == Cardinality(stale) + 1
<1>1. DOMAIN events = 1..Len(events) /\ Len(events) \in Nat
  OBVIOUS
<1>2. IsFiniteSet(1..Len(events))
  <2>1. 1 \in Int /\ Len(events) \in Int
    BY <1>1
  <2> QED
    BY ONLY <2>1, FS_Interval, Zenon
<1>3. stale \in SUBSET (1..Len(events))
  BY <1>1
<1>4. Cardinality(stale) \in Nat
  BY <1>2, <1>3, FS_Subset, FS_CardinalityType
<1>5. first \in Int /\ first >= 1 /\ Len(events) \in Int
  BY <1>1, <1>4
<1> HIDE DEF first
<1>6. \A i \in first..Len(events) : events[i] \in Nat
  BY <1>1, <1>5
<1>7. /\ SubSeq(events, first, Len(events)) \in Seq(Nat)
      /\ Len(SubSeq(events, first, Len(events)))
           = IF first <= Len(events) THEN Len(events) - first + 1 ELSE 0
  BY <1>1, <1>5, <1>6
<1>8. Len(SubSeq(events, first, Len(events))) <= Len(events)
  BY <1>1, <1>5, <1>7
<1> QED
  BY <1>7, <1>8 DEF Pruned, first

(* The events record() works on: those kept of the cycle, the new one, pruned. *)
LEMMA KeptType ==
  ASSUME NEW tracker \in Trackers, NEW ts \in Nat
  PROVE  /\ Kept(tracker, ts) \in Trackers
         /\ Append(Kept(tracker, ts).events, ts) \in Seq(Nat)
         /\ Kept(tracker, ts).level \in {tracker.level, NONE}
         /\ ~ Quiet(tracker, ts) => Kept(tracker, ts) = tracker
<1>1. <<>> \in Seq(Nat) /\ NONE \in Levels
  BY DEF Levels
<1>2. Kept(tracker, ts) \in Trackers
  BY <1>1 DEF Kept, Trackers
<1>3. Append(Kept(tracker, ts).events, ts) \in Seq(Nat)
  BY <1>2 DEF Trackers
<1> QED
  BY <1>2, <1>3 DEF Kept, Trackers

(* record() within a cycle never lowers the level, and stays in the three. *)
LEMMA NewLevelRises ==
  ASSUME NEW level \in Levels, NEW events \in Seq(Nat), NEW ts \in Nat
  PROVE  NewLevel(level, events, ts) \in Levels /\ NewLevel(level, events, ts) >= level
BY DEF NewLevel, Levels, NONE, WARNING, CRITICAL

(* record() makes a tracker of a tracker (escalation.py:44-69). *)
LEMMA RecordedType ==
  ASSUME NEW tracker \in Trackers, NEW ts \in Nat, PolicyAssumption
  PROVE  /\ Recorded(tracker, ts) \in Trackers
         /\ Recorded(tracker, ts).last = ts
         /\ Recorded(tracker, ts).level \in Levels
         /\ Recorded(tracker, ts).level >= Kept(tracker, ts).level
<1> DEFINE kept   == Kept(tracker, ts)
           events == Pruned(Append(kept.events, ts), ts - CriticalWindow)
<1>1. kept \in Trackers /\ Append(kept.events, ts) \in Seq(Nat)
  BY KeptType
<1>2. ts - CriticalWindow \in Int
  BY DEF PolicyAssumption
<1>3. events \in Seq(Nat)
  BY <1>1, <1>2, PrunedType
<1>4. kept.level \in Levels
  BY <1>1 DEF Trackers
<1> HIDE DEF events, kept
<1>5. NewLevel(kept.level, events, ts) \in Levels /\ NewLevel(kept.level, events, ts) >= kept.level
  BY <1>3, <1>4, NewLevelRises
<1>6. Recorded(tracker, ts) = [events |-> events, level |-> NewLevel(kept.level, events, ts), last |-> ts]
  BY DEF Recorded, events, kept
<1> QED
  BY <1>3, <1>5, <1>6 DEF Trackers, kept

(* The level falls only across a quiet period. *)
LEMMA LevelFalls ==
  ASSUME NEW tracker \in Trackers, NEW ts \in Nat, PolicyAssumption,
         Recorded(tracker, ts).level < tracker.level
  PROVE  Quiet(tracker, ts)
<1>1. SUFFICES ASSUME ~ Quiet(tracker, ts) PROVE FALSE
  OBVIOUS
<1>2. Kept(tracker, ts).level = tracker.level
  BY <1>1, KeptType
<1>3. /\ Recorded(tracker, ts).level \in Levels
      /\ Recorded(tracker, ts).level >= tracker.level
  BY <1>2, RecordedType
<1>4. tracker.level \in Levels
  BY DEF Trackers
<1> QED
  BY <1>3, <1>4 DEF Levels, NONE, WARNING, CRITICAL

(* record() answers CRITICAL exactly when this event raised the level to it  *)
(* from what the cycle had reached; and a level reached is kept.             *)
LEMMA CriticalIsAnswered ==
  ASSUME NEW tracker \in Trackers, NEW ts \in Nat, PolicyAssumption
  PROVE  /\ Notice(tracker, ts) \in Levels
         /\ Notice(tracker, ts) = CRITICAL <=>
              Recorded(tracker, ts).level = CRITICAL /\ Kept(tracker, ts).level # CRITICAL
         /\ Kept(tracker, ts).level = CRITICAL => Recorded(tracker, ts).level = CRITICAL
<1>1. /\ Recorded(tracker, ts).level \in Levels
      /\ Recorded(tracker, ts).level >= Kept(tracker, ts).level
  BY RecordedType
<1>2. Kept(tracker, ts).level \in {tracker.level, NONE} /\ tracker.level \in Levels
  BY KeptType DEF Trackers
<1> QED
  BY <1>1, <1>2 DEF Notice, Levels, NONE, WARNING, CRITICAL

=============================================================================
