----------------------------- MODULE Escalation -----------------------------
(***************************************************************************)
(* The tracker as a component: suspicious events arrive at times that      *)
(* never go back (the controller passes Clock.monotonic()), any number of  *)
(* them at one time and any quiet time between two.  `log' is the history  *)
(* the code does not keep: every event since the start, never pruned.  The *)
(* reference definitions say what the tracker must answer from that        *)
(* history alone, so they see neither the deque, nor its pruning, nor the  *)
(* clearing at a reset.                                                    *)
(***************************************************************************)
EXTENDS EscalationTracker

CONSTANTS
  MaxTime,    \* bound: the clock stops here
  MaxEvents   \* bound: suspicious events in one behaviour

ASSUME BoundAssumption == MaxTime \in Nat /\ MaxEvents \in Nat

VARIABLES
  now,       \* Clock.monotonic()
  tracker,   \* EscalationTracker's three fields
  log,       \* history: times of all suspicious events
  notices    \* history: what record() returned for each of them

vars == <<now, tracker, log, notices>>

Init ==
  /\ now = 0
  /\ tracker = NewTracker
  /\ log = <<>>
  /\ notices = <<>>

Advance ==
  /\ now < MaxTime
  /\ now' = now + 1
  /\ UNCHANGED <<tracker, log, notices>>

Record ==
  /\ Len(log) < MaxEvents
  /\ tracker' = Recorded(tracker, now)
  /\ log' = Append(log, now)
  /\ notices' = Append(notices, Notice(tracker, now))
  /\ UNCHANGED now

Next == Advance \/ Record

Spec == Init /\ [][Next]_vars

-----------------------------------------------------------------------------
(* Reference definitions over the history. *)

(* Index of the first event of the cycle event n belongs to. *)
CycleStart(n) ==
  LET starts == {k \in 1..n : k = 1 \/ log[k] - log[k - 1] >= ResetAfter}
  IN  CHOOSE k \in starts : \A m \in starts : m <= k

(* Some event of the cycle, up to event n, closed a burst of `count' events *)
(* no further apart than `window'.                                          *)
Burst(n, count, window) ==
  \E j \in CycleStart(n)..n :
    /\ j - count + 1 >= CycleStart(n)
    /\ log[j] - log[j - count + 1] <= window

ReferenceLevel(n) ==
  CASE Burst(n, CriticalCount, CriticalWindow) -> CRITICAL
    [] ~ Burst(n, CriticalCount, CriticalWindow)
       /\ Burst(n, WarningCount, WarningWindow) -> WARNING
    [] OTHER -> NONE

TypeOK ==
  /\ now \in 0..MaxTime
  /\ tracker \in Trackers
  /\ log \in Seq(0..MaxTime)
  /\ notices \in Seq(Levels)
  /\ Len(notices) = Len(log)

(* FR-009 and record(): after every event the tracker's level is the one the *)
(* whole unpruned history calls for - no event that still counts is lost by  *)
(* the pruning at escalation.py:53-55, none of an earlier cycle is counted,  *)
(* and the warning branch never hides or lowers a critical.                  *)
LevelMatchesHistory ==
  Len(log) > 0 => tracker.level = ReferenceLevel(Len(log))

(* record() answers each level at most once per cycle, in rising order: the  *)
(* notices of the current cycle are strictly increasing and the last of them *)
(* is the level.  A critical therefore queues one notification per cycle.    *)
NoticesRiseOncePerCycle ==
  Len(log) > 0 =>
    LET cycle  == CycleStart(Len(log))..Len(log)
        raised == {i \in cycle : notices[i] # NONE}
    IN  /\ \A i, j \in raised : i < j => notices[i] < notices[j]
        /\ tracker.level = (IF raised = {} THEN NONE
                            ELSE notices[CHOOSE i \in raised : \A j \in raised : j <= i])

(* The deque holds exactly the events of the cycle that a critical window    *)
(* ending at the last event still covers: nothing stale is kept (memory is   *)
(* bounded by the event rate) and nothing live is dropped.                   *)
DequeIsLiveSuffix ==
  Len(log) > 0 =>
    LET n    == Len(log)
        live == {i \in CycleStart(n)..n : log[i] >= log[n] - CriticalWindow}
    IN  tracker.events = SubSeq(log, n - Cardinality(live) + 1, n)

(* A cycle never steps down while it lasts; only a quiet period of           *)
(* ResetAfter lowers the level, and then the event after it starts at NONE   *)
(* or WARNING unless the counts allow one event to raise it.                 *)
LevelFallsOnlyAfterQuiet ==
  [][tracker'.level < tracker.level => now - tracker.last >= ResetAfter]_vars

=============================================================================
