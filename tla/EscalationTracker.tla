------------------------- MODULE EscalationTracker -------------------------
(***************************************************************************)
(* The suspicious-credential tracker of src/bridgewire/escalation.py as    *)
(* operators on a tracker record: the deque of recent event times, the     *)
(* level of the current escalation cycle and the time of the last event.   *)
(* Times are whole ticks of the monotonic clock.  The controller           *)
(* (AccessController) and the tracker's own checks (Escalation) use it.    *)
(***************************************************************************)
EXTENDS Integers, Sequences, FiniteSets

CONSTANTS
  WarningCount,    \* events within WarningWindow that raise a warning
  WarningWindow,
  CriticalCount,   \* events within CriticalWindow that raise a critical
  CriticalWindow,
  ResetAfter       \* quiet time after which the cycle starts afresh

(* EscalationPolicy.__post_init__ refuses every other combination. *)
ASSUME PolicyAssumption ==
  /\ WarningCount \in Nat \ {0}
  /\ CriticalCount \in Nat
  /\ CriticalCount > WarningCount
  /\ WarningWindow \in Nat \ {0}
  /\ CriticalWindow \in Nat
  /\ CriticalWindow >= WarningWindow
  /\ ResetAfter \in Nat \ {0}

NONE     == 0
WARNING  == 1
CRITICAL == 2
Levels   == {NONE, WARNING, CRITICAL}

NoTime == -1

Trackers == [events : Seq(Nat), level : Levels, last : Nat \cup {NoTime}]

NewTracker == [events |-> <<>>, level |-> NONE, last |-> NoTime]

(* The cycle is over: ResetAfter has passed without a suspicious event. *)
Quiet(tracker, ts) ==
  tracker.last # NoTime /\ ts - tracker.last >= ResetAfter

(* Mutant: the deque survives the quiet period. *)
MutKeptEvents(tracker, ts) ==
  IF Quiet(tracker, ts) THEN [tracker EXCEPT !.level = NONE] ELSE tracker

Kept(tracker, ts) ==
  IF Quiet(tracker, ts) THEN [tracker EXCEPT !.events = <<>>, !.level = NONE]
                        ELSE tracker

(* Mutant: the window's lower end is taken as outside the window. *)
MutPrunedInclusive(events, oldest) ==
  LET stale == {i \in DOMAIN events : \A j \in 1..i : events[j] <= oldest}
  IN  SubSeq(events, Cardinality(stale) + 1, Len(events))

(* popleft while the head is older than `oldest': the longest stale prefix. *)
Pruned(events, oldest) ==
  LET stale == {i \in DOMAIN events : \A j \in 1..i : events[j] < oldest}
  IN  SubSeq(events, Cardinality(stale) + 1, Len(events))

CountSince(events, since) ==
  Cardinality({i \in DOMAIN events : events[i] >= since})

(* Mutant: the level is computed afresh, so it steps down within a cycle. *)
MutNewLevelFresh(level, events, ts) ==
  IF CountSince(events, ts - CriticalWindow) >= CriticalCount THEN CRITICAL
  ELSE IF CountSince(events, ts - WarningWindow) >= WarningCount THEN WARNING
  ELSE NONE

NewLevel(level, events, ts) ==
  IF CountSince(events, ts - CriticalWindow) >= CriticalCount THEN CRITICAL
  ELSE IF CountSince(events, ts - WarningWindow) >= WarningCount /\ level = NONE
       THEN WARNING
       ELSE level

(* EscalationTracker.record: the tracker afterwards ... *)
Recorded(tracker, ts) ==
  LET kept   == Kept(tracker, ts)
      events == Pruned(Append(kept.events, ts), ts - CriticalWindow)
  IN  [events |-> events,
       level  |-> NewLevel(kept.level, events, ts),
       last   |-> ts]

(* ... and its result: the level when this event raised it, NONE otherwise. *)
Notice(tracker, ts) ==
  LET new == Recorded(tracker, ts).level
  IN  IF new > Kept(tracker, ts).level THEN new ELSE NONE

=============================================================================
