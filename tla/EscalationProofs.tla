-------------------------- MODULE EscalationProofs --------------------------
(***************************************************************************)
(* Theorems about the tracker as a component, for every policy the code    *)
(* accepts and every number and spacing of suspicious events: its answers  *)
(* rise within a cycle (CycleInv), and its level and its deque are what    *)
(* the whole unpruned history calls for (HistoryInv).                      *)
(***************************************************************************)
EXTENDS Escalation, EscalationTrackerProofs, SequenceLemmas

(* The types at the start (escalation.py:34). *)
LEMMA TypeInitially == Init => TypeOK
<1> SUFFICES ASSUME Init PROVE TypeOK
  OBVIOUS
<1>1. <<>> \in Seq(Nat) /\ <<>> \in Seq(0..MaxTime) /\ <<>> \in Seq(Levels) /\ NONE \in Levels
  BY DEF Levels
<1>2. NewTracker \in Trackers
  BY <1>1 DEF NewTracker, Trackers
<1> QED
  BY <1>1, <1>2, BoundAssumption DEF Init, TypeOK

(* record() keeps them, and so does time. *)
LEMMA TypeStep == TypeOK /\ [Next]_vars => TypeOK'
<1> SUFFICES ASSUME TypeOK, [Next]_vars PROVE TypeOK'
  OBVIOUS
<1> USE DEF TypeOK
<1>1. CASE Advance
  BY <1>1, BoundAssumption DEF Advance
<1>2. CASE Record
  <2>1. now \in Nat /\ now' \in 0..MaxTime
    BY <1>2, BoundAssumption DEF Record
  <2>2. Recorded(tracker, now) \in Trackers /\ Notice(tracker, now) \in Levels
    BY <2>1, PolicyAssumption, RecordedType, CriticalIsAnswered
  <2>3. tracker' \in Trackers
    BY <1>2, <2>2 DEF Record
  <2>4. log' \in Seq(0..MaxTime) /\ Len(log') = Len(log) + 1
    BY <1>2, <2>1 DEF Record
  <2>5. notices' \in Seq(Levels) /\ Len(notices') = Len(notices) + 1
    BY <1>2, <2>2 DEF Record
  <2> QED
    BY <2>1, <2>3, <2>4, <2>5
<1>3. CASE UNCHANGED vars
  BY <1>3 DEF vars
<1> QED
  BY <1>1, <1>2, <1>3 DEF Next

(* The tracker's fields, and the history beside them, keep their types: the  *)
(* level stays one of the three and every event gets one answer.             *)
THEOREM TypeCorrect == Spec => []TypeOK
BY TypeInitially, TypeStep, PTL DEF Spec

(* Within a cycle record() never lowers the level: a fall means that         *)
(* ResetAfter has passed since the event before (escalation.py:45-50).       *)
THEOREM LevelFallsCorrect == Spec => LevelFallsOnlyAfterQuiet
<1>1. TypeOK /\ [Next]_vars
        => [tracker'.level < tracker.level => now - tracker.last >= ResetAfter]_vars
  <2> SUFFICES ASSUME TypeOK, [Next]_vars, tracker'.level < tracker.level
               PROVE  now - tracker.last >= ResetAfter
    OBVIOUS
  <2>1. tracker \in Trackers /\ now \in Nat
    BY BoundAssumption DEF TypeOK
  <2>2. tracker.level \in Int
    BY <2>1 DEF Trackers, Levels, NONE, WARNING, CRITICAL
  <2>3. tracker' = Recorded(tracker, now)
    BY <2>2 DEF Next, Advance, Record, vars
  <2>4. Quiet(tracker, now)
    BY <2>1, <2>3, PolicyAssumption, LevelFalls
  <2> QED
    BY <2>4 DEF Quiet
<1> QED
  BY <1>1, TypeCorrect, PTL DEF Spec, LevelFallsOnlyAfterQuiet

-----------------------------------------------------------------------------
(* The cycle of the last event begins at event s. *)
BeginsAt(s) ==
  /\ s = 1 \/ log[s] - log[s - 1] >= ResetAfter
  /\ \A k \in (s + 1)..Len(log) : log[k] - log[k - 1] < ResetAfter

Raised(s) == {i \in s..Len(log) : notices[i] # NONE}

(* The notices of the cycle from s on rise to the level. *)
RisesFrom(s) ==
  /\ \A i, j \in Raised(s) : i < j => notices[i] < notices[j]
  /\ \A i \in Raised(s) : notices[i] <= tracker.level
  /\ Raised(s) = {} => tracker.level = NONE
  /\ Raised(s) # {} =>
       \E i \in Raised(s) : notices[i] = tracker.level /\ \A j \in Raised(s) : j <= i

(* The reference definition finds its cycle because there always is a last   *)
(* event that began one, which only the history of the steps shows.          *)
CycleInv ==
  /\ TypeOK
  /\ Len(log) = 0 => tracker.level = NONE /\ tracker.last = NoTime
  /\ Len(log) > 0 =>
       /\ tracker.last = log[Len(log)]
       /\ \E s \in 1..Len(log) : BeginsAt(s) /\ RisesFrom(s)

(* The place BeginsAt speaks of is the one CycleStart chooses. *)
LEMMA BeginsAtIsCycleStart ==
  ASSUME TypeOK, NEW s \in 1..Len(log), BeginsAt(s)
  PROVE  CycleStart(Len(log)) = s
<1> DEFINE starts == {k \in 1..Len(log) : k = 1 \/ log[k] - log[k - 1] >= ResetAfter}
<1>1. Len(log) \in Nat /\ \A k \in 1..Len(log) : log[k] \in Int
  BY BoundAssumption DEF TypeOK
<1>2. s \in starts
  BY DEF BeginsAt
<1>3. ASSUME NEW m \in starts, m > s
      PROVE  FALSE
  <2>1. m \in (s + 1)..Len(log) /\ m # 1 /\ m - 1 \in 1..Len(log)
    BY <1>1, <1>3
  <2>2. log[m] - log[m - 1] < ResetAfter
    BY <2>1 DEF BeginsAt
  <2> QED
    BY <1>1, <1>3, <2>1, <2>2, PolicyAssumption
<1>4. \A m \in starts : m <= s
  BY <1>1, <1>3
<1>5. \A k \in starts : (\A m \in starts : m <= k) => k = s
  BY <1>1, <1>2, <1>4
<1> HIDE DEF starts
<1>6. (CHOOSE k \in starts : \A m \in starts : m <= k) = s
  BY <1>2, <1>4, <1>5
<1> QED
  BY <1>6 DEF CycleStart, starts

(* The invariant says what is to be shown of the notices. *)
LEMMA CycleInvImplies == CycleInv => NoticesRiseOncePerCycle
<1> SUFFICES ASSUME CycleInv, Len(log) > 0
             PROVE  LET cycle  == CycleStart(Len(log))..Len(log)
                        raised == {i \in cycle : notices[i] # NONE}
                    IN  /\ \A i, j \in raised : i < j => notices[i] < notices[j]
                        /\ tracker.level = (IF raised = {} THEN NONE
                             ELSE notices[CHOOSE i \in raised : \A j \in raised : j <= i])
  BY DEF NoticesRiseOncePerCycle
<1>1. PICK s \in 1..Len(log) : BeginsAt(s) /\ RisesFrom(s)
  BY DEF CycleInv
<1>2. CycleStart(Len(log)) = s
  BY <1>1, BeginsAtIsCycleStart DEF CycleInv
<1>3. CASE Raised(s) = {}
  BY <1>1, <1>2, <1>3 DEF RisesFrom, Raised
<1>4. CASE Raised(s) # {}
  <2>1. PICK top \in Raised(s) : notices[top] = tracker.level /\ \A j \in Raised(s) : j <= top
    BY <1>1, <1>4 DEF RisesFrom
  <2>2. \A i \in Raised(s) : i \in Int
    BY DEF Raised
  <2>3. (CHOOSE i \in Raised(s) : \A j \in Raised(s) : j <= i) = top
    BY <2>1, <2>2
  <2> QED
    BY <1>1, <1>2, <1>4, <2>1, <2>3 DEF RisesFrom, Raised
<1> QED
  BY <1>3, <1>4

(* What record() answers: the new level, if this event raised it. *)
LEMMA NoticeFacts ==
  ASSUME NEW t \in Trackers, NEW ts \in Nat
  PROVE  LET kept  == Kept(t, ts).level
             level == Recorded(t, ts).level
         IN  /\ kept \in Levels /\ level \in Levels /\ kept <= level
             /\ kept = IF Quiet(t, ts) THEN NONE ELSE t.level
             /\ kept < level => Notice(t, ts) = level
             /\ ~ (kept < level) => Notice(t, ts) = NONE
<1>1. /\ Recorded(t, ts).level \in Levels
      /\ Recorded(t, ts).level >= Kept(t, ts).level
  BY PolicyAssumption, RecordedType
<1>2. Kept(t, ts).level \in Levels
  BY KeptType DEF Trackers
<1>3. Kept(t, ts).level = IF Quiet(t, ts) THEN NONE ELSE t.level
  BY DEF Kept, Trackers
<1> QED
  BY <1>1, <1>2, <1>3 DEF Notice, Levels, NONE, WARNING, CRITICAL

(* The first event begins a cycle, and so does one after a quiet time ...    *)
LEMMA CycleBegins ==
  ASSUME CycleInv, Record, NEW n \in Nat, n = Len(log), n = 0 \/ Quiet(tracker, now)
  PROVE  BeginsAt(n + 1)'
<1>1. /\ Len(log') = n + 1 /\ log'[n + 1] = now
      /\ \A k \in 1..n : log'[k] = log[k]
  BY BoundAssumption DEF CycleInv, TypeOK, Record
<1>2. n + 1 = 1 \/ log'[n + 1] - log'[n] >= ResetAfter
  <2>1. n > 0 => tracker.last = log[n] /\ n \in 1..n
    BY DEF CycleInv
  <2> QED
    BY <1>1, <2>1 DEF Quiet
<1>3. ((n + 1) + 1)..Len(log') = {} /\ (n + 1) - 1 = n
  BY <1>1
<1> QED
  BY <1>2, <1>3 DEF BeginsAt

(* ... and every other event goes on with the cycle there is.                *)
LEMMA CycleGoesOn ==
  ASSUME CycleInv, Record, Len(log) > 0, ~ Quiet(tracker, now),
         NEW s \in 1..Len(log), BeginsAt(s)
  PROVE  BeginsAt(s)'
<1>1. PICK n \in Nat : n = Len(log) /\ n > 0 /\ n \in 1..n
  BY DEF CycleInv, TypeOK
<1>2. /\ Len(log') = n + 1 /\ log'[n + 1] = now /\ now \in Nat
      /\ \A k \in 1..n : log'[k] = log[k] /\ log[k] \in Nat
  BY <1>1, BoundAssumption DEF CycleInv, TypeOK, Record
<1>3. now - log[n] < ResetAfter
  <2>1. tracker.last = log[n]
    BY <1>1 DEF CycleInv
  <2>2. tracker.last # NoTime /\ log[n] \in Int
    BY <1>1, <1>2, <2>1 DEF NoTime
  <2> QED
    BY <1>2, <2>1, <2>2, PolicyAssumption DEF Quiet
<1>4. s = 1 \/ log'[s] - log'[s - 1] >= ResetAfter
  BY <1>1, <1>2 DEF BeginsAt
<1>5. ASSUME NEW k \in (s + 1)..(n + 1)
      PROVE  log'[k] - log'[k - 1] < ResetAfter
  <2>1. CASE k = n + 1
    <3>1. log'[k] = now /\ k - 1 = n /\ log'[n] = log[n]
      BY <1>1, <1>2, <2>1
    <3> QED
      BY <1>3, <3>1
  <2>2. CASE k # n + 1
    <3>1. k \in (s + 1)..n /\ k \in 1..n /\ k - 1 \in 1..n
      BY <1>1, <2>2
    <3> QED
      BY <1>1, <1>2, <3>1 DEF BeginsAt
  <2> QED
    BY <2>1, <2>2
<1> QED
  BY <1>2, <1>4, <1>5 DEF BeginsAt

(* record() answers the next level of the cycle, or begins a new one.       *)
LEMMA RecordKeepsCycleInv ==
  ASSUME CycleInv, Record, TypeOK'
  PROVE  CycleInv'
<1>1. PICK n \in Nat : n = Len(log)
  BY DEF CycleInv, TypeOK
<1>2. PICK kept \in Levels, level \in Levels, said \in Levels, ts \in Nat :
        /\ ts = now
        /\ kept <= level
        /\ tracker'.level = level /\ tracker'.last = ts
        /\ kept = IF Quiet(tracker, ts) THEN NONE ELSE tracker.level
        /\ kept < level => said = level
        /\ ~ (kept < level) => said = NONE
        /\ notices' = Append(notices, said)
  <2>1. tracker \in Trackers /\ now \in Nat
    BY BoundAssumption DEF CycleInv, TypeOK
  <2>2. tracker' = Recorded(tracker, now) /\ notices' = Append(notices, Notice(tracker, now))
    BY DEF Record
  <2>3. tracker'.last = now
    BY <2>1, <2>2, PolicyAssumption, RecordedType
  <2>4. Notice(tracker, now) \in Levels
    BY <2>1, PolicyAssumption, CriticalIsAnswered
  <2> QED
    BY <2>1, <2>2, <2>3, <2>4, NoticeFacts
<1>3. /\ log \in Seq(0..MaxTime) /\ notices \in Seq(Levels) /\ Len(notices) = n
      /\ log' = Append(log, ts)
  BY <1>1, <1>2 DEF CycleInv, TypeOK, Record
<1>4. /\ Len(log') = n + 1 /\ log'[n + 1] = ts
      /\ \A k \in 1..n : log'[k] = log[k] /\ log[k] \in Nat
      /\ notices'[n + 1] = said
      /\ \A k \in 1..n : notices'[k] = notices[k] /\ notices[k] \in Levels
  BY <1>1, <1>2, <1>3, BoundAssumption
<1>5. n + 1 \in Nat /\ (n + 1) - 1 = n /\ ~ (n + 1 < n + 1)
  OBVIOUS
<1>6. CASE n = 0 \/ Quiet(tracker, ts)
  <2>1. kept = NONE /\ (n > 0 => ts - log[n] >= ResetAfter)
    BY <1>1, <1>2, <1>6 DEF CycleInv, Quiet, NoTime
  <2>2. BeginsAt(n + 1)'
    BY <1>1, <1>2, <1>6, CycleBegins
  <2>3. Raised(n + 1)' = IF said = NONE THEN {} ELSE {n + 1}
    <3>1. (n + 1)..Len(log') = {n + 1}
      BY <1>4
    <3> QED
      BY <1>4, <3>1 DEF Raised
  <2>4. RisesFrom(n + 1)'
    <3>1. CASE said = NONE
      <4>1. Raised(n + 1)' = {} /\ tracker'.level = NONE
        BY <1>2, <2>1, <2>3, <3>1 DEF Levels, NONE, WARNING, CRITICAL
      <4> QED
        BY <4>1 DEF RisesFrom
    <3>2. CASE said # NONE
      <4>1. Raised(n + 1)' = {n + 1} /\ notices'[n + 1] = tracker'.level
        BY <1>2, <1>4, <2>3, <3>2
      <4>2. tracker'.level \in Int /\ n + 1 \in Int
        BY <1>2 DEF Levels, NONE, WARNING, CRITICAL
      <4> QED
        BY <1>5, <4>1, <4>2 DEF RisesFrom
    <3> QED
      BY <3>1, <3>2
  <2> QED
    BY <1>2, <1>4, <1>5, <2>2, <2>4 DEF CycleInv
<1>7. CASE n > 0 /\ ~ Quiet(tracker, ts)
  <2>1. /\ tracker.last = log[n] /\ kept = tracker.level
        /\ ts - log[n] < ResetAfter
    <3>0. n \in 1..n
      BY <1>7
    <3>1. tracker.last = log[n]
      BY <1>1, <1>7 DEF CycleInv
    <3>2. tracker.last # NoTime /\ log[n] \in Int
      BY <1>4, <3>0, <3>1 DEF NoTime
    <3> QED
      BY <1>2, <1>7, <3>1, <3>2, PolicyAssumption DEF Quiet
  <2>2. PICK s \in 1..n : BeginsAt(s) /\ RisesFrom(s)
    BY <1>1, <1>7 DEF CycleInv
  <2>3. BeginsAt(s)'
    BY <1>1, <1>2, <1>7, <2>2, CycleGoesOn
  <2>4. /\ Raised(s)' = IF said = NONE THEN Raised(s) ELSE Raised(s) \cup {n + 1}
        /\ \A i \in Raised(s) : i \in Int /\ i <= n /\ notices'[i] = notices[i] /\ notices[i] \in Levels
    <3>1. s..Len(log') = s..n \cup {n + 1} /\ \A i \in s..n : i \in 1..n
      BY <1>4
    <3> QED
      BY <1>1, <1>4, <3>1 DEF Raised
  <2>5. RisesFrom(s)'
    <3>1. CASE said = NONE
      <4>1. level = tracker.level
        BY <1>2, <2>1, <3>1 DEF Levels, NONE, WARNING, CRITICAL
      <4> QED
        BY <1>2, <2>2, <2>4, <3>1, <4>1 DEF RisesFrom
    <3>2. CASE said # NONE
      <4>1. said = level /\ tracker.level < level
        BY <1>2, <2>1, <3>2
      <4>2. \A i \in Raised(s) : notices[i] <= tracker.level
        BY <2>2 DEF RisesFrom
      <4>3. Raised(s)' = Raised(s) \cup {n + 1} /\ notices'[n + 1] = level
        BY <1>4, <2>4, <3>2, <4>1
      <4>4. \A i \in Raised(s) : notices'[i] < level /\ i < n + 1
        <5>1. tracker.level \in Int /\ level \in Int
          BY <2>1 DEF Levels, NONE, WARNING, CRITICAL
        <5> SUFFICES ASSUME NEW i \in Raised(s) PROVE notices'[i] < level /\ i < n + 1
          OBVIOUS
        <5>2. notices'[i] = notices[i] /\ notices[i] \in Int /\ i \in Int /\ i <= n
          BY <2>4 DEF Levels, NONE, WARNING, CRITICAL
        <5>3. notices[i] <= tracker.level
          BY <4>2
        <5> QED
          BY <4>1, <5>1, <5>2, <5>3
      <4>5. \A i, j \in Raised(s)' : i < j => notices'[i] < notices'[j]
        BY <2>2, <2>4, <4>3, <4>4 DEF RisesFrom
      <4>6. \A i \in Raised(s)' : notices'[i] <= level
        <5>1. level \in Int /\ \A i \in Raised(s) : notices'[i] \in Int
          BY <2>4 DEF Levels, NONE, WARNING, CRITICAL
        <5>2. SUFFICES ASSUME NEW i \in Raised(s)' PROVE notices'[i] <= level
          OBVIOUS
        <5>3. CASE i = n + 1
          BY <4>3, <5>1, <5>3
        <5>4. CASE i # n + 1
          <6>1. i \in Raised(s)
            BY <4>3, <5>2, <5>4
          <6> QED
            BY <4>4, <5>1, <6>1
        <5> QED
          BY <5>3, <5>4
      <4>7. notices'[n + 1] = level /\ \A j \in Raised(s)' : j <= n + 1
        BY <4>3, <4>4, <2>4
      <4> QED
        BY <1>2, <4>3, <4>5, <4>6, <4>7 DEF RisesFrom
    <3> QED
      BY <3>1, <3>2
  <2>6. s \in 1..(n + 1)
    OBVIOUS
  <2> QED
    BY <1>2, <1>4, <2>3, <2>5, <2>6 DEF CycleInv
<1> QED
  BY <1>6, <1>7

(* No cycle has begun at the start (escalation.py:34). *)
LEMMA CycleInitially == Init => CycleInv
<1> SUFFICES ASSUME Init PROVE CycleInv
  OBVIOUS
<1>1. Len(log) = 0 /\ tracker.level = NONE /\ tracker.last = NoTime
  BY DEF Init, NewTracker
<1> QED
  BY <1>1, TypeInitially DEF CycleInv

(* Every step keeps the cycle's start and its notices. *)
LEMMA CycleStep == CycleInv /\ [Next]_vars => CycleInv'
<1> SUFFICES ASSUME CycleInv, [Next]_vars PROVE CycleInv'
  OBVIOUS
<1>1. TypeOK'
  BY TypeStep DEF CycleInv
<1>2. CASE Record
  BY <1>1, <1>2, RecordKeepsCycleInv
<1>3. CASE Advance \/ UNCHANGED vars
  <2>1. log' = log /\ notices' = notices /\ tracker' = tracker
    BY <1>3 DEF Advance, vars
  <2>2. \A s : (BeginsAt(s) <=> BeginsAt(s)') /\ (RisesFrom(s) <=> RisesFrom(s)')
    BY <2>1 DEF BeginsAt, RisesFrom, Raised
  <2> QED
    BY <1>1, <2>1, <2>2 DEF CycleInv
<1> QED
  BY <1>2, <1>3 DEF Next

(* FR-009: however many suspicious events arrive and however they are        *)
(* spaced, each level is answered at most once per cycle and in rising       *)
(* order, so that a cycle queues at most one critical notification.          *)
THEOREM NoticesRiseCorrect == Spec => []NoticesRiseOncePerCycle
BY CycleInitially, CycleStep, CycleInvImplies, PTL DEF Spec

-----------------------------------------------------------------------------
(* The deque, as what is left of the history.                                *)

(* Times that do not go back. *)
Sorted(s) == \A i \in 1..Len(s), j \in 1..Len(s) : i <= j => s[i] <= s[j]

(* The popleft loop stops at the first event that is not too old. *)
LEMMA PrunedIsSuffix ==
  ASSUME NEW e \in Seq(Nat), NEW oldest \in Int, Len(e) >= 1, e[Len(e)] >= oldest
  PROVE  \E q \in 1..Len(e) :
           /\ Len(Pruned(e, oldest)) = Len(e) - q + 1
           /\ \A i \in 1..(Len(e) - q + 1) : Pruned(e, oldest)[i] = e[q + i - 1]
           /\ e[q] >= oldest
           /\ \A i \in 1..(q - 1) : e[i] < oldest
<1> DEFINE Fresh == {i \in 1..Len(e) : e[i] >= oldest}
<1>1. Len(e) \in Nat /\ \A i \in 1..Len(e) : e[i] \in Int
  OBVIOUS
<1>2. Len(e) \in 1..Len(e) /\ Fresh \in SUBSET Nat /\ Fresh # {}
  BY <1>1
<1>3. \A i \in 1..Len(e) : i \in Fresh <=> e[i] >= oldest
  OBVIOUS
<1>4. \A i \in Fresh : i \in 1..Len(e)
  OBVIOUS
<1> HIDE DEF Fresh
<1>5. PICK q \in Fresh : \A i \in Fresh : q <= i
  BY <1>2, LeastNumber
<1>6. q \in 1..Len(e) /\ e[q] >= oldest
  BY <1>3, <1>4, <1>5
<1>7. \A i \in 1..(q - 1) : e[i] < oldest
  <2> SUFFICES ASSUME NEW i \in 1..(q - 1)
               PROVE  e[i] < oldest
    OBVIOUS
  <2>1. i \in 1..Len(e) /\ ~ (q <= i)
    BY <1>1, <1>6
  <2>2. i \notin Fresh
    BY <1>5, <2>1
  <2> QED
    BY <1>1, <1>3, <2>1, <2>2
<1> DEFINE stale == {i \in DOMAIN e : \A j \in 1..i : e[j] < oldest}
<1>8. stale = 1..(q - 1)
  <2>1. DOMAIN e = 1..Len(e)
    OBVIOUS
  <2>2. ASSUME NEW i \in 1..(q - 1)
        PROVE  i \in stale
    <3>1. i \in 1..Len(e) /\ \A j \in 1..i : j \in 1..(q - 1)
      BY <1>1, <1>6
    <3> QED
      BY <1>7, <2>1, <3>1
  <2>3. ASSUME NEW i \in stale
        PROVE  i \in 1..(q - 1)
    <3>1. i \in 1..Len(e) /\ \A j \in 1..i : e[j] < oldest
      BY <2>1
    <3>2. ~ (q \in 1..i)
      BY <1>1, <1>6, <3>1
    <3> QED
      BY <1>1, <1>6, <3>1, <3>2
  <2> QED
    BY <2>2, <2>3
<1> HIDE DEF stale
<1>9. Cardinality(stale) + 1 = q
  <2>1. 1 \in Int /\ q \in Int /\ q - 1 \in Int /\ q >= 1
    BY <1>1, <1>6
  <2>2. Cardinality(1..(q - 1)) = IF 1 > q - 1 THEN 0 ELSE (q - 1) - 1 + 1
    BY <2>1, FS_Interval
  <2>3. Cardinality(stale) = Cardinality(1..(q - 1))
    BY ONLY <1>8
  <2>4. Cardinality(1..(q - 1)) = q - 1
    BY <2>1, <2>2
  <2> QED
    BY <2>1, <2>3, <2>4
<1>10. Pruned(e, oldest) = SubSeq(e, q, Len(e))
  BY <1>9 DEF Pruned, stale
<1>11. /\ Len(SubSeq(e, q, Len(e))) = Len(e) - q + 1
       /\ \A i \in 1..(Len(e) - q + 1) : SubSeq(e, q, Len(e))[i] = e[q + i - 1]
  BY <1>1, <1>6
<1> QED
  BY <1>6, <1>7, <1>10, <1>11

(* So many events are since a time when the one so many places from the end is. *)
LEMMA CountIsSuffix ==
  ASSUME NEW e \in Seq(Nat), Sorted(e), NEW since \in Int, NEW c \in Nat \ {0}
  PROVE  CountSince(e, since) >= c <=> Len(e) - c + 1 >= 1 /\ e[Len(e) - c + 1] >= since
<1> DEFINE Recent == {i \in 1..Len(e) : e[i] >= since}
<1>1. Len(e) \in Nat /\ (\A i \in 1..Len(e) : e[i] \in Int) /\ DOMAIN e = 1..Len(e)
  OBVIOUS
<1>2. CountSince(e, since) = Cardinality(Recent)
  BY <1>1 DEF CountSince
<1>3. \A i \in 1..Len(e) : i \in Recent <=> e[i] >= since
  OBVIOUS
<1>4. Recent \in SUBSET Nat /\ \A i \in Recent : i \in 1..Len(e)
  BY <1>1
<1>5. Len(e) - c + 1 <= Len(e) /\ Len(e) - c + 1 \in Int
  BY <1>1
<1>6. Len(e) - c + 1 >= 1 => Len(e) - c + 1 \in 1..Len(e)
  BY <1>1, <1>5
<1> HIDE DEF Recent
<1>7. CASE Recent = {}
  <2>1. Cardinality(Recent) = 0
    BY <1>7, FS_EmptySet
  <2>2. ~ (CountSince(e, since) >= c)
    BY <1>2, <2>1
  <2> QED
    BY <1>3, <1>6, <1>7, <2>2
<1>8. CASE Recent # {}
  <2>1. PICK r \in Recent : \A i \in Recent : r <= i
    BY <1>4, <1>8, LeastNumber
  <2>2. r \in 1..Len(e) /\ e[r] >= since
    BY <1>3, <1>4, <2>1
  <2>3. Recent = r..Len(e)
    <3>1. ASSUME NEW i \in r..Len(e)
          PROVE  i \in Recent
      <4>1. i \in 1..Len(e) /\ r <= i
        BY <1>1, <2>2
      <4>2. e[r] <= e[i]
        BY <2>2, <4>1 DEF Sorted
      <4> QED
        BY <1>1, <1>3, <2>2, <4>1, <4>2
    <3>2. \A i \in Recent : i \in r..Len(e)
      BY <1>1, <1>4, <2>1, <2>2
    <3> QED
      BY <3>1, <3>2
  <2>4. Cardinality(Recent) = Len(e) - r + 1
    <3>1. r \in Int /\ Len(e) \in Int /\ ~ (r > Len(e))
      BY <1>1, <2>2
    <3>2. Cardinality(r..Len(e)) = IF r > Len(e) THEN 0 ELSE Len(e) - r + 1
      BY <3>1, FS_Interval
    <3> QED
      BY <2>3, <3>1, <3>2
  <2>5. CountSince(e, since) >= c <=> r <= Len(e) - c + 1
    BY <1>1, <1>2, <2>2, <2>4
  <2>6. r <= Len(e) - c + 1 => Len(e) - c + 1 \in r..Len(e)
    BY <1>1, <1>5, <2>2
  <2>7. ASSUME r <= Len(e) - c + 1
        PROVE  Len(e) - c + 1 >= 1 /\ e[Len(e) - c + 1] >= since
    <3>1. Len(e) - c + 1 \in Recent /\ Len(e) - c + 1 \in 1..Len(e)
      BY <1>4, <2>3, <2>6, <2>7
    <3> QED
      BY <1>3, <1>5, <3>1
  <2>8. ASSUME Len(e) - c + 1 >= 1, e[Len(e) - c + 1] >= since
        PROVE  r <= Len(e) - c + 1
    <3>1. Len(e) - c + 1 \in Recent
      BY <1>3, <1>6, <2>8
    <3> QED
      BY <2>1, <3>1
  <2> QED
    BY <2>5, <2>7, <2>8
<1> QED
  BY <1>7, <1>8

(* e is what a deque with the cycle's events from s on holds, at the n-th    *)
(* event: those of the history l from place p on, what lies before being too *)
(* old.                                                                      *)
HoldsFrom(l, n, s, e, p) ==
  /\ p \in s..(n + 1)
  /\ Len(e) = n - p + 1
  /\ \A i \in 1..(n - p + 1) : e[i] = l[p + i - 1]
  /\ \A i \in s..(p - 1) : l[i] < l[n] - CriticalWindow

(* And nothing that is too old. *)
Live(l, n, p) == p <= n /\ \A i \in p..n : l[i] >= l[n] - CriticalWindow

(* m is the history l of n events with one more. *)
Longer(l, n, m) ==
  /\ m \in Seq(Nat) /\ Len(m) = n + 1 /\ Sorted(m)
  /\ \A i \in 1..n : m[i] = l[i]

(* A time that is no earlier than the last one. *)
LEMMA SortedNext ==
  ASSUME NEW l \in Seq(Nat), Sorted(l), NEW n \in Nat, Len(l) = n, NEW ts \in Nat, n > 0 => l[n] <= ts
  PROVE  Longer(l, n, Append(l, ts)) /\ Append(l, ts)[n + 1] = ts
<1> DEFINE m == Append(l, ts)
<1>1. /\ m \in Seq(Nat) /\ Len(m) = n + 1 /\ m[n + 1] = ts
      /\ \A i \in 1..n : m[i] = l[i] /\ l[i] \in Nat
  OBVIOUS
<1> HIDE DEF m
<1>2. ASSUME NEW i \in 1..(n + 1), NEW j \in 1..(n + 1), i <= j
      PROVE  m[i] <= m[j]
  <2>1. CASE j = n + 1 /\ i = n + 1
    BY <1>1, <2>1
  <2>2. CASE j = n + 1 /\ i # n + 1
    <3>1. i \in 1..n /\ n \in 1..n /\ i <= n /\ n > 0
      BY <2>2
    <3>2. l[i] <= l[n]
      BY <3>1 DEF Sorted
    <3> QED
      BY <1>1, <2>2, <3>1, <3>2
  <2>3. CASE j # n + 1
    <3>1. i \in 1..n /\ j \in 1..n
      BY <1>2, <2>3
    <3> QED
      BY <1>1, <1>2, <3>1 DEF Sorted
  <2> QED
    BY <2>1, <2>2, <2>3
<1>3. Longer(l, n, m)
  BY <1>1, <1>2 DEF Longer, Sorted
<1> QED
  BY <1>1, <1>3 DEF m

(* Appending to the deque and pruning it keeps it that. *)
LEMMA DequeNext ==
  ASSUME NEW l \in Seq(Nat), Sorted(l), NEW n \in Nat, Len(l) = n, NEW ts \in Nat, n > 0 => l[n] <= ts,
         NEW m, m = Append(l, ts),
         NEW s \in 1..(n + 1), NEW e \in Seq(Nat), NEW p, HoldsFrom(l, n, s, e, p)
  PROVE  \E r : /\ HoldsFrom(m, n + 1, s, Pruned(Append(e, ts), ts - CriticalWindow), r)
                /\ Live(m, n + 1, r)
<1>1. /\ m \in Seq(Nat) /\ Len(m) = n + 1 /\ m[n + 1] = ts
      /\ \A i \in 1..n : m[i] = l[i]
      /\ Sorted(m)
  BY SortedNext DEF Longer
<1>2. PICK oldest \in Int : oldest = ts - CriticalWindow /\ oldest <= ts
  BY PolicyAssumption DEF PolicyAssumption
<1>3. PICK d : d = Append(e, ts)
  OBVIOUS
<1>4. /\ p \in 1..(n + 1) /\ p >= s /\ Len(e) = n - p + 1 /\ Len(e) \in Nat
      /\ \A i \in 1..(n - p + 1) : e[i] = l[p + i - 1]
      /\ \A i \in s..(p - 1) : l[i] < l[n] - CriticalWindow
  BY DEF HoldsFrom
<1>5. /\ d \in Seq(Nat) /\ Len(d) = n - p + 2 /\ d[n - p + 2] = ts
      /\ \A i \in 1..(n - p + 1) : d[i] = e[i]
  BY <1>3, <1>4
<1>6. \A i \in 1..(n - p + 2) : d[i] = m[p + i - 1]
  <2> SUFFICES ASSUME NEW i \in 1..(n - p + 2)
               PROVE  d[i] = m[p + i - 1]
    OBVIOUS
  <2>1. CASE i = n - p + 2
    <3>1. p + i - 1 = n + 1
      BY <1>4, <2>1
    <3> QED
      BY <1>1, <1>5, <2>1, <3>1
  <2>2. CASE i # n - p + 2
    <3>1. i \in 1..(n - p + 1) /\ p + i - 1 \in 1..n
      BY <1>4, <2>2
    <3> QED
      BY <1>1, <1>4, <1>5, <3>1
  <2> QED
    BY <2>1, <2>2
<1>7. PICK q \in 1..Len(d) :
        /\ Len(Pruned(d, oldest)) = Len(d) - q + 1
        /\ \A i \in 1..(Len(d) - q + 1) : Pruned(d, oldest)[i] = d[q + i - 1]
        /\ d[q] >= oldest
        /\ \A i \in 1..(q - 1) : d[i] < oldest
  <2>1. Len(d) >= 1 /\ d[Len(d)] >= oldest
    BY <1>2, <1>4, <1>5
  <2> QED
    BY <1>5, <2>1, PrunedIsSuffix
<1>8. PICK f : f = Pruned(d, oldest)
  OBVIOUS
<1>9. PICK r \in Int : r = p + q - 1
  BY <1>4, <1>5
<1>10. /\ r \in s..(n + 1) /\ r >= p /\ Len(d) - q + 1 = n - r + 2
       /\ q \in 1..(n - p + 2)
  BY <1>4, <1>5, <1>7, <1>9
<1>11. Len(f) = (n + 1) - r + 1 /\ \A i \in 1..((n + 1) - r + 1) : f[i] = m[r + i - 1]
  <2>1. Len(f) = n - r + 2 /\ \A i \in 1..(n - r + 2) : f[i] = d[q + i - 1]
    BY <1>7, <1>8, <1>10
  <2>2. \A i \in 1..(n - r + 2) : q + i - 1 \in 1..(n - p + 2) /\ p + (q + i - 1) - 1 = r + i - 1
    BY <1>4, <1>9, <1>10
  <2>3. \A i \in 1..(n - r + 2) : f[i] = m[r + i - 1]
    <3> SUFFICES ASSUME NEW i \in 1..(n - r + 2)
                 PROVE  f[i] = m[r + i - 1]
      OBVIOUS
    <3>1. f[i] = d[q + i - 1]
      BY <2>1
    <3>2. d[q + i - 1] = m[p + (q + i - 1) - 1]
      BY <1>6, <2>2
    <3> QED
      BY <2>2, <3>1, <3>2
  <2>4. (n + 1) - r + 1 = n - r + 2
    BY <1>9
  <2> QED
    BY <2>1, <2>3, <2>4
<1>12. \A i \in s..(r - 1) : m[i] < ts - CriticalWindow
  <2> SUFFICES ASSUME NEW i \in s..(r - 1)
               PROVE  m[i] < oldest
    BY <1>2
  <2>1. CASE i < p
    <3>1. i \in s..(p - 1) /\ i \in 1..n /\ n > 0 /\ n \in 1..n
      BY <1>4, <1>10, <2>1
    <3>2. l[i] \in Nat /\ l[n] \in Nat
      BY <3>1
    <3>3. l[i] < l[n] - CriticalWindow /\ l[n] <= ts
      BY <1>4, <3>1
    <3> QED
      BY <1>1, <1>2, <3>1, <3>2, <3>3, PolicyAssumption DEF PolicyAssumption
  <2>2. CASE i >= p
    <3>1. i - p + 1 \in 1..(q - 1) /\ i - p + 1 \in 1..(n - p + 2) /\ p + (i - p + 1) - 1 = i
      BY <1>4, <1>9, <1>10, <2>2
    <3>2. d[i - p + 1] = m[i]
      BY <1>6, <3>1
    <3> QED
      BY <1>7, <3>1, <3>2
  <2> QED
    BY <1>4, <1>10, <2>1, <2>2
<1>13. \A i \in r..(n + 1) : m[i] >= ts - CriticalWindow
  <2>1. m[r] >= oldest /\ r \in 1..(n + 1)
    <3>1. p + q - 1 = r /\ d[q] = m[p + q - 1]
      BY <1>6, <1>9, <1>10
    <3>2. m[r] = d[q] /\ d[q] >= oldest
      BY <1>7, <3>1
    <3>3. r \in 1..(n + 1)
      BY <1>10
    <3> QED
      BY <3>2, <3>3
  <2>2. \A i \in r..(n + 1) : i \in 1..(n + 1) /\ r <= i /\ m[i] \in Nat
    BY <1>1, <2>1
  <2>3. \A i \in r..(n + 1) : m[r] <= m[i]
    BY <1>1, <2>1, <2>2 DEF Sorted
  <2>4. m[r] \in Int
    BY <2>1, <2>2
  <2> SUFFICES ASSUME NEW i \in r..(n + 1)
               PROVE  m[i] >= oldest
    BY <1>2
  <2>5. m[r] <= m[i]
    BY <2>3
  <2>6. m[i] \in Int
    BY <2>2
  <2>7. oldest \in Int
    BY <1>2
  <2>8. \A x, y, z \in Int : y >= x /\ y <= z => z >= x
    OBVIOUS
  <2> QED
    BY <2>1, <2>4, <2>5, <2>6, <2>7, <2>8, Zenon
<1>14. HoldsFrom(m, n + 1, s, f, r)
  <2>1. r \in s..((n + 1) + 1)
    BY <1>4, <1>10
  <2> QED
    BY <1>1, <1>11, <1>12, <2>1 DEF HoldsFrom
<1>15. Live(m, n + 1, r)
  BY <1>1, <1>10, <1>13 DEF Live
<1> QED
  BY <1>2, <1>3, <1>8, <1>14, <1>15

(* f is a pruned deque, at the last event of the history m. *)
LiveDeque(m, n, s, f, r) ==
  /\ m \in Seq(Nat) /\ Len(m) = n /\ Sorted(m) /\ f \in Seq(Nat)
  /\ HoldsFrom(m, n, s, f, r) /\ Live(m, n, r)

(* So many events of the deque are in a window if so many events of the      *)
(* history, of this cycle, are.                                              *)
LEMMA CountIsBurst ==
  ASSUME NEW m, NEW n \in Nat, NEW s \in 1..n, NEW f, NEW r, LiveDeque(m, n, s, f, r),
         NEW window \in Nat, window <= CriticalWindow, NEW c \in Nat \ {0}
  PROVE  CountSince(f, m[n] - window) >= c <=> n - c + 1 >= s /\ m[n] - m[n - c + 1] <= window
<1>0. /\ m \in Seq(Nat) /\ Len(m) = n /\ Sorted(m) /\ f \in Seq(Nat)
      /\ HoldsFrom(m, n, s, f, r) /\ Live(m, n, r)
  BY DEF LiveDeque
<1>1. /\ r \in s..n /\ Len(f) = n - r + 1 /\ n \in 1..n /\ m[n] \in Nat
      /\ \A i \in 1..(n - r + 1) : f[i] = m[r + i - 1]
      /\ \A i \in s..(r - 1) : m[i] < m[n] - CriticalWindow
      /\ \A i \in 1..n : m[i] \in Nat
  <2>1. n \in 1..n /\ m[n] \in Nat /\ \A i \in 1..n : m[i] \in Nat
    BY <1>0
  <2>2. r \in s..n
    BY <1>0 DEF HoldsFrom, Live
  <2> QED
    BY <1>0, <2>1, <2>2 DEF HoldsFrom
<1>2. Sorted(f)
  <2> SUFFICES ASSUME NEW i \in 1..(n - r + 1), NEW j \in 1..(n - r + 1), i <= j
               PROVE  f[i] <= f[j]
    BY <1>0, <1>1 DEF Sorted
  <2>1. r + i - 1 \in 1..n /\ r + j - 1 \in 1..n /\ r + i - 1 <= r + j - 1
    BY <1>1
  <2>2. m[r + i - 1] <= m[r + j - 1]
    BY <1>0, <2>1 DEF Sorted
  <2> QED
    BY <1>1, <2>2
<1>3. PICK since \in Int : since = m[n] - window
  BY <1>1
<1>4. CountSince(f, since) >= c <=> Len(f) - c + 1 >= 1 /\ f[Len(f) - c + 1] >= since
  BY <1>0, <1>2, CountIsSuffix
<1>5. PICK k \in Int : k = n - c + 1
  OBVIOUS
<1>6. /\ Len(f) - c + 1 = k - r + 1
      /\ k - r + 1 >= 1 <=> k >= r
      /\ k <= n
  BY <1>1, <1>5
<1>7. k >= r => f[k - r + 1] = m[k] /\ k \in 1..n
  <2>1. k >= r => k - r + 1 \in 1..(n - r + 1) /\ r + (k - r + 1) - 1 = k /\ k \in 1..n
    BY <1>1, <1>6
  <2> QED
    BY <1>1, <2>1
<1>8. CountSince(f, since) >= c <=> k >= r /\ m[k] >= since
  BY <1>4, <1>6, <1>7
<1>9. ASSUME k >= s, m[k] >= since
      PROVE  k >= r
  <2>1. k \in 1..n /\ m[k] \in Nat
    BY <1>1, <1>6, <1>9
  <2>2. ~ (m[k] < m[n] - CriticalWindow)
    <3>1. CriticalWindow \in Nat /\ m[k] >= m[n] - window
      BY <1>3, <1>9, PolicyAssumption DEF PolicyAssumption
    <3> QED
      BY <1>1, <2>1, <3>1
  <2>3. k \notin s..(r - 1)
    BY <1>1, <2>2
  <2> QED
    BY <1>1, <1>9, <2>3
<1>10. k >= r => k >= s
  BY <1>1
<1>11. k >= s => (m[k] >= since <=> m[n] - m[k] <= window)
  <2>1. SUFFICES ASSUME k >= s
                 PROVE  m[k] >= since <=> m[n] - m[k] <= window
    OBVIOUS
  <2>2. k \in 1..n
    BY <1>1, <1>6, <2>1
  <2>3. m[k] \in Int /\ m[n] \in Int /\ since = m[n] - window
    BY <1>1, <1>3, <2>2
  <2>4. \A x, y, z, w \in Int : z = y - w => (x >= z <=> y - x <= w)
    OBVIOUS
  <2> QED
    BY <2>3, <2>4
<1> QED
  BY <1>3, <1>5, <1>8, <1>9, <1>10, <1>11

-----------------------------------------------------------------------------
(* The level, as what the history calls for.                                 *)

(* What Burst says, of the events of the history l from s to n. *)
BurstIn(l, s, n, count, window) ==
  \E j \in s..n : j - count + 1 >= s /\ l[j] - l[j - count + 1] <= window

LevelFor(l, s, n) ==
  IF BurstIn(l, s, n, CriticalCount, CriticalWindow) THEN CRITICAL
  ELSE IF BurstIn(l, s, n, WarningCount, WarningWindow) THEN WARNING
  ELSE NONE

(* One more event closes a burst, or none that was not closed before. *)
LEMMA BurstNext ==
  ASSUME NEW l, NEW m, NEW n \in Nat, \A i \in 1..n : m[i] = l[i],
         NEW s \in 1..(n + 1), NEW c \in Nat \ {0}, NEW window \in Nat
  PROVE  BurstIn(m, s, n + 1, c, window) <=>
           \/ BurstIn(l, s, n, c, window)
           \/ (n + 1) - c + 1 >= s /\ m[n + 1] - m[(n + 1) - c + 1] <= window
<1>1. ASSUME NEW j \in s..n, j - c + 1 >= s
      PROVE  m[j] = l[j] /\ m[j - c + 1] = l[j - c + 1]
  <2>1. j \in 1..n /\ j - c + 1 \in 1..n
    BY <1>1
  <2> QED
    BY <2>1
<1>2. /\ \A j \in s..(n + 1) : j \in s..n \/ j = n + 1
      /\ \A j \in s..n : j \in s..(n + 1)
      /\ n + 1 \in s..(n + 1)
  OBVIOUS
<1>3. ASSUME BurstIn(m, s, n + 1, c, window)
      PROVE  \/ BurstIn(l, s, n, c, window)
             \/ (n + 1) - c + 1 >= s /\ m[n + 1] - m[(n + 1) - c + 1] <= window
  <2>1. PICK j \in s..(n + 1) : j - c + 1 >= s /\ m[j] - m[j - c + 1] <= window
    BY <1>3 DEF BurstIn
  <2>2. CASE j = n + 1
    BY <2>1, <2>2
  <2>3. CASE j \in s..n
    BY <1>1, <2>1, <2>3 DEF BurstIn
  <2> QED
    BY <1>2, <2>2, <2>3
<1>4. BurstIn(l, s, n, c, window) => BurstIn(m, s, n + 1, c, window)
  BY <1>1, <1>2 DEF BurstIn
<1>5. (n + 1) - c + 1 >= s /\ m[n + 1] - m[(n + 1) - c + 1] <= window =>
        BurstIn(m, s, n + 1, c, window)
  BY <1>2 DEF BurstIn
<1> QED
  BY <1>3, <1>4, <1>5

-----------------------------------------------------------------------------
(* The level and the deque are what the history of the cycle calls for.      *)
FollowsFrom(l, n, s) ==
  /\ tracker.level = LevelFor(l, s, n)
  /\ \E p \in s..n : HoldsFrom(l, n, s, tracker.events, p) /\ Live(l, n, p)

(* Both need that the times never go back, and where the cycle began.        *)
HistoryInv ==
  /\ CycleInv
  /\ Sorted(log)
  /\ Len(log) = 0 => tracker.events = <<>>
  /\ Len(log) > 0 =>
       /\ log[Len(log)] <= now
       /\ \E s \in 1..Len(log) : BeginsAt(s) /\ FollowsFrom(log, Len(log), s)

(* A record() that goes on from a deque and a level that follow from the     *)
(* history leaves a deque and a level that follow from the longer one.       *)
LEMMA FollowsNext ==
  ASSUME NEW l \in Seq(Nat), Sorted(l), NEW n \in Nat, Len(l) = n,
         NEW ts \in Nat, n > 0 => l[n] <= ts,
         NEW m, m = Append(l, ts),
         NEW s \in 1..(n + 1), NEW kept \in Trackers, kept = Kept(tracker, ts),
         kept.level = LevelFor(l, s, n), NEW p, HoldsFrom(l, n, s, kept.events, p),
         tracker' = Recorded(tracker, ts)
  PROVE  FollowsFrom(m, n + 1, s)'
<1>1. /\ m \in Seq(Nat) /\ Len(m) = n + 1 /\ m[n + 1] = ts
      /\ \A i \in 1..n : m[i] = l[i]
      /\ Sorted(m)
  BY SortedNext DEF Longer
<1>2. kept.events \in Seq(Nat) /\ kept.level \in Levels
  BY DEF Trackers
<1>3. PICK f : f = Pruned(Append(kept.events, ts), ts - CriticalWindow)
  OBVIOUS
<1>4. PICK r : HoldsFrom(m, n + 1, s, f, r) /\ Live(m, n + 1, r)
  BY <1>2, <1>3, DequeNext
<1>5. f \in Seq(Nat)
  <2>1. Append(kept.events, ts) \in Seq(Nat) /\ ts - CriticalWindow \in Int
    BY <1>2, PolicyAssumption DEF PolicyAssumption
  <2> QED
    BY <1>3, <2>1, PrunedType
<1>6. NewLevel(LevelFor(l, s, n), f, m[n + 1]) = LevelFor(m, s, n + 1)
  <2>1. /\ CriticalCount \in Nat \ {0} /\ WarningCount \in Nat \ {0}
        /\ CriticalWindow \in Nat /\ WarningWindow \in Nat
        /\ CriticalWindow <= CriticalWindow /\ WarningWindow <= CriticalWindow
    BY PolicyAssumption DEF PolicyAssumption
  <2>2. n + 1 \in Nat /\ s \in 1..(n + 1)
    OBVIOUS
  <2>3. ASSUME NEW c \in Nat \ {0}, NEW window \in Nat, window <= CriticalWindow
        PROVE  BurstIn(m, s, n + 1, c, window) <=>
                 BurstIn(l, s, n, c, window) \/ CountSince(f, m[n + 1] - window) >= c
    <3>1. CountSince(f, m[n + 1] - window) >= c <=>
            (n + 1) - c + 1 >= s /\ m[n + 1] - m[(n + 1) - c + 1] <= window
      <4>1. LiveDeque(m, n + 1, s, f, r)
        BY <1>1, <1>4, <1>5 DEF LiveDeque
      <4> QED
        BY <2>2, <2>3, <4>1, CountIsBurst
    <3>2. BurstIn(m, s, n + 1, c, window) <=>
            \/ BurstIn(l, s, n, c, window)
            \/ (n + 1) - c + 1 >= s /\ m[n + 1] - m[(n + 1) - c + 1] <= window
      BY <1>1, <2>3, BurstNext
    <3> QED
      BY <3>1, <3>2
  <2>4. BurstIn(m, s, n + 1, CriticalCount, CriticalWindow) <=>
          \/ BurstIn(l, s, n, CriticalCount, CriticalWindow)
          \/ CountSince(f, m[n + 1] - CriticalWindow) >= CriticalCount
    BY <2>1, <2>3
  <2>5. BurstIn(m, s, n + 1, WarningCount, WarningWindow) <=>
          \/ BurstIn(l, s, n, WarningCount, WarningWindow)
          \/ CountSince(f, m[n + 1] - WarningWindow) >= WarningCount
    BY <2>1, <2>3
  <2> QED
    BY <2>4, <2>5 DEF NewLevel, LevelFor, NONE, WARNING, CRITICAL
<1>7. tracker'.events = f /\ tracker'.level = NewLevel(kept.level, f, ts)
  BY <1>3 DEF Recorded
<1>8. r \in s..(n + 1)
  BY <1>4 DEF HoldsFrom, Live
<1>9. tracker'.level = LevelFor(m, s, n + 1)
  BY <1>1, <1>6, <1>7
<1>10. HoldsFrom(m, n + 1, s, tracker'.events, r)
  BY <1>4, <1>7
<1> QED
  BY <1>4, <1>8, <1>9, <1>10 DEF FollowsFrom

(* A new cycle starts from an empty deque and from NONE.                     *)
LEMMA NothingFollows ==
  ASSUME NEW l, NEW n \in Nat
  PROVE  HoldsFrom(l, n, n + 1, <<>>, n + 1) /\ LevelFor(l, n + 1, n) = NONE
<1>1. (n + 1)..n = {} /\ (n + 1)..((n + 1) - 1) = {} /\ n - (n + 1) + 1 = 0
  OBVIOUS
<1>2. n + 1 \in (n + 1)..(n + 1) /\ 1..0 = {} /\ Len(<<>>) = 0
  OBVIOUS
<1>3. \A c, w : ~ BurstIn(l, n + 1, n, c, w)
  BY <1>1 DEF BurstIn
<1>4. LevelFor(l, n + 1, n) = NONE
  BY <1>3 DEF LevelFor
<1> QED
  BY <1>1, <1>2, <1>4 DEF HoldsFrom

(* record() keeps the level and the deque what the history calls for.        *)
LEMMA RecordKeepsHistory ==
  ASSUME HistoryInv, Record, CycleInv'
  PROVE  HistoryInv'
<1>1. PICK n \in Nat, l \in Seq(Nat), ts \in Nat, m \in Seq(Nat) :
        /\ l = log /\ n = Len(l) /\ ts = now /\ m = log'
        /\ m = Append(l, ts) /\ Sorted(l) /\ (n > 0 => l[n] <= ts)
  <2>1. log \in Seq(0..MaxTime) /\ now \in Nat
    BY BoundAssumption DEF HistoryInv, CycleInv, TypeOK
  <2>2. log \in Seq(Nat) /\ Len(log) \in Nat
    BY <2>1, BoundAssumption
  <2>3. log' = Append(log, now) /\ Sorted(log) /\ (Len(log) > 0 => log[Len(log)] <= now)
    BY DEF HistoryInv, Record
  <2>4. Append(log, now) \in Seq(Nat)
    BY <2>1, <2>2
  <2> QED
    BY <2>1, <2>2, <2>3, <2>4
<1>2. Len(m) = n + 1 /\ m[n + 1] = ts /\ Sorted(m)
  BY <1>1, SortedNext DEF Longer
<1>3. PICK kept \in Trackers : kept = Kept(tracker, ts)
  <2>1. tracker \in Trackers
    BY DEF HistoryInv, CycleInv, TypeOK
  <2> QED
    BY <1>1, <2>1, KeptType
<1>4. tracker' = Recorded(tracker, ts) /\ now' = ts
  BY <1>1 DEF Record
<1>5. PICK s \in 1..(n + 1) :
        /\ BeginsAt(s)' /\ kept.level = LevelFor(l, s, n)
        /\ \E p : HoldsFrom(l, n, s, kept.events, p)
  <2>1. CASE n = 0 \/ Quiet(tracker, ts)
    <3>1. kept.events = <<>> /\ kept.level = NONE
      <4>1. tracker \in Trackers
        BY DEF HistoryInv, CycleInv, TypeOK
      <4>2. CASE Quiet(tracker, ts)
        BY <1>3, <4>1, <4>2 DEF Kept, Trackers
      <4>3. CASE ~ Quiet(tracker, ts)
        BY <1>1, <1>3, <2>1, <4>3 DEF Kept, HistoryInv, CycleInv
      <4> QED
        BY <4>2, <4>3
    <3>2. BeginsAt(n + 1)'
      BY <1>1, <2>1, CycleBegins DEF HistoryInv
    <3>3. n + 1 \in 1..(n + 1)
      OBVIOUS
    <3> QED
      BY <3>1, <3>2, <3>3, NothingFollows
  <2>2. CASE n > 0 /\ ~ Quiet(tracker, ts)
    <3>1. kept = tracker
      BY <1>3, <2>2 DEF Kept
    <3>2. PICK s \in 1..n : BeginsAt(s) /\ FollowsFrom(l, n, s)
      BY <1>1, <2>2 DEF HistoryInv
    <3>3. BeginsAt(s)'
      BY <1>1, <2>2, <3>2, CycleGoesOn DEF HistoryInv
    <3>4. s \in 1..(n + 1)
      OBVIOUS
    <3>5. tracker.level = LevelFor(l, s, n) /\ \E p : HoldsFrom(l, n, s, tracker.events, p)
      BY <3>2 DEF FollowsFrom
    <3> QED
      BY <3>1, <3>3, <3>4, <3>5
  <2> QED
    BY <2>1, <2>2
<1>6. FollowsFrom(m, n + 1, s)'
  <2>1. PICK p : HoldsFrom(l, n, s, kept.events, p)
    BY <1>5
  <2> QED
    BY <1>1, <1>3, <1>4, <1>5, <2>1, FollowsNext
<1>7. log' = m /\ Len(log') = n + 1 /\ log'[Len(log')] <= now' /\ s \in 1..Len(log')
  BY <1>1, <1>2, <1>4
<1>8. FollowsFrom(log, Len(log), s)'
  BY <1>6, <1>7 DEF FollowsFrom
<1> QED
  BY <1>2, <1>5, <1>7, <1>8 DEF HistoryInv

(* The tracker's history is always accounted for. *)
THEOREM HistoryInvariant == Spec => []HistoryInv
<1>1. Init => HistoryInv
  <2> SUFFICES ASSUME Init PROVE HistoryInv
    OBVIOUS
  <2>1. CycleInv
    BY CycleInitially
  <2>2. Len(log) = 0 /\ tracker.events = <<>>
    BY DEF Init, NewTracker
  <2> QED
    BY <2>1, <2>2 DEF HistoryInv, Sorted
<1>2. HistoryInv /\ [Next]_vars => HistoryInv'
  <2> SUFFICES ASSUME HistoryInv, [Next]_vars PROVE HistoryInv'
    OBVIOUS
  <2>1. CycleInv'
    BY CycleStep DEF HistoryInv
  <2>2. CASE Record
    BY <2>1, <2>2, RecordKeepsHistory
  <2>3. CASE Advance \/ UNCHANGED vars
    <3>1. log' = log /\ tracker' = tracker /\ now' >= now /\ now' \in Int /\ now \in Int
      BY <2>3, BoundAssumption DEF Advance, vars, HistoryInv, CycleInv, TypeOK
    <3>2. \A k \in 1..Len(log) : log[k] \in Int
      BY BoundAssumption DEF HistoryInv, CycleInv, TypeOK
    <3>3. Len(log) > 0 => Len(log) \in 1..Len(log)
      BY DEF HistoryInv, CycleInv, TypeOK
    <3> QED
      BY <2>1, <3>1, <3>2, <3>3 DEF HistoryInv, BeginsAt, FollowsFrom
  <2> QED
    BY <2>2, <2>3 DEF Next
<1> QED
  BY <1>1, <1>2, PTL DEF Spec

(* FR-009: after every event the level is the one that the whole history of  *)
(* the cycle calls for.  Pruning the deque (escalation.py:53-55) loses no    *)
(* event that still counts, whatever the windows and however the events are  *)
(* spaced.                                                                   *)
THEOREM LevelMatchesHistoryCorrect == Spec => []LevelMatchesHistory
<1>1. HistoryInv => LevelMatchesHistory
  <2> SUFFICES ASSUME HistoryInv, Len(log) > 0
               PROVE  tracker.level = ReferenceLevel(Len(log))
    BY DEF LevelMatchesHistory
  <2>1. PICK s \in 1..Len(log) : BeginsAt(s) /\ FollowsFrom(log, Len(log), s)
    BY DEF HistoryInv
  <2>2. CycleStart(Len(log)) = s
    BY <2>1, BeginsAtIsCycleStart DEF HistoryInv, CycleInv
  <2>3. \A c, w : Burst(Len(log), c, w) <=> BurstIn(log, s, Len(log), c, w)
    BY <2>2 DEF Burst, BurstIn
  <2>4. tracker.level = LevelFor(log, s, Len(log))
    BY <2>1 DEF FollowsFrom
  <2> QED
    BY <2>3, <2>4 DEF ReferenceLevel, LevelFor
<1> QED
  BY <1>1, HistoryInvariant, PTL

(* The deque holds the events of the cycle that the critical window still    *)
(* covers and no others (escalation.py:53-55).                               *)
THEOREM DequeIsLiveSuffixCorrect == Spec => []DequeIsLiveSuffix
<1>1. HistoryInv => DequeIsLiveSuffix
  <2> SUFFICES ASSUME HistoryInv, Len(log) > 0
               PROVE  LET n    == Len(log)
                          live == {i \in CycleStart(n)..n : log[i] >= log[n] - CriticalWindow}
                      IN  tracker.events = SubSeq(log, n - Cardinality(live) + 1, n)
    BY DEF DequeIsLiveSuffix
  <2>0. PICK n \in Nat : n = Len(log) /\ n > 0
    BY DEF HistoryInv, CycleInv, TypeOK
  <2> DEFINE live == {i \in CycleStart(n)..n : log[i] >= log[n] - CriticalWindow}
  <2>1. PICK s \in 1..n : BeginsAt(s) /\ FollowsFrom(log, n, s)
    BY <2>0 DEF HistoryInv
  <2>2. CycleStart(n) = s
    BY <2>0, <2>1, BeginsAtIsCycleStart DEF HistoryInv, CycleInv
  <2>3. PICK p \in s..n : HoldsFrom(log, n, s, tracker.events, p) /\ Live(log, n, p)
    BY <2>1 DEF FollowsFrom
  <2>4. log \in Seq(Nat) /\ tracker.events \in Seq(Nat)
    BY BoundAssumption DEF HistoryInv, CycleInv, TypeOK, Trackers
  <2>5. live = p..n
    <3>1. ASSUME NEW i \in s..n
          PROVE  log[i] >= log[n] - CriticalWindow <=> i \in p..n
      <4>1. log[i] \in Nat /\ log[n] \in Nat /\ log[n] - CriticalWindow \in Int
        BY <2>0, <2>4, PolicyAssumption DEF PolicyAssumption
      <4>2. i \in p..n \/ i \in s..(p - 1)
        OBVIOUS
      <4>3. i \in s..(p - 1) => log[i] < log[n] - CriticalWindow /\ i \notin p..n
        BY <2>3 DEF HoldsFrom
      <4>4. i \in p..n => log[i] >= log[n] - CriticalWindow
        BY <2>3 DEF Live
      <4> QED
        BY <4>1, <4>2, <4>3, <4>4
    <3>2. \A i \in p..n : i \in s..n
      OBVIOUS
    <3> QED
      BY <2>2, <3>1, <3>2
  <2> HIDE DEF live
  <2>6. n - Cardinality(live) + 1 = p
    <3>1. p \in Int /\ n \in Int /\ ~ (p > n)
      OBVIOUS
    <3>2. Cardinality(p..n) = IF p > n THEN 0 ELSE n - p + 1
      BY <3>1, FS_Interval
    <3> QED
      BY <2>5, <3>1, <3>2
  <2>7. tracker.events = SubSeq(log, p, n)
    <3>1. Len(tracker.events) = n - p + 1 /\ \A i \in 1..(n - p + 1) : tracker.events[i] = log[p + i - 1]
      BY <2>3 DEF HoldsFrom
    <3>2. /\ SubSeq(log, p, n) \in Seq(Nat) /\ Len(SubSeq(log, p, n)) = n - p + 1
          /\ \A i \in 1..(n - p + 1) : SubSeq(log, p, n)[i] = log[p + i - 1]
      <4>1. \A k \in p..n : log[k] \in Nat /\ k \in 1..Len(log)
        BY <2>0, <2>4
      <4>2. \A i \in 1..(n - p + 1) : p + i - 1 \in p..n
        OBVIOUS
      <4> QED
        BY <2>0, <2>4, <4>1, <4>2
    <3> QED
      BY <2>4, <3>1, <3>2
  <2> QED
    BY <2>0, <2>6, <2>7 DEF live
<1> QED
  BY <1>1, HistoryInvariant, PTL

=============================================================================
