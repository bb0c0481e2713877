----------------------------- MODULE ReaderProofs -----------------------------
(***************************************************************************)
(* What is proved of src/bridgewire/reader.py: of the supervisor that      *)
(* opens and drops sessions, for any number of ports, any threshold and    *)
(* whatever raises; and of the record stream, for any alphabet, record     *)
(* format, buffer, chunk size and number of bytes.                         *)
(*                                                                         *)
(* The supervisor's argument: the flag _repeated_failure_emitted and the   *)
(* outage's reports agree (FlagCounts).  The flag is set after the event   *)
(* has been emitted, and an emit that raises in between ends the loop.     *)
(*                                                                         *)
(* The stream's argument: feed() forgets the bytes it has reported, so the *)
(* invariant speaks of the wire.  The buffer is its end (Suffix), and of   *)
(* the places before the buffer everything has been told (Told): the       *)
(* records are the frames there, as long as nothing was dropped, and no    *)
(* record that follows a terminator straddles the place where the buffer   *)
(* begins, dropped or not.  Told is first shown of constants, one lemma    *)
(* for each way in which bytes leave the buffer.                           *)
(***************************************************************************)
EXTENDS ReaderSupervisor, RecordStream, SequenceTheorems, TLAPS

(* The flag is set exactly while the outage has been reported.               *)
FlagCounts ==
  /\ ~ repeated_emitted => repeats = 0
  /\ repeated_emitted => repeats = 1

(* Only a port that was found is opened, in the attempt that found it.       *)
OpensFound == pc = "opening" => found \in Ports /\ attempt > 0

SupervisorInv ==
  /\ TypeOK
  /\ FlagCounts
  /\ OpensFound
  /\ HealthTellsTheTruth
  /\ RepeatedFailureOncePerOutage

(* What the parts of the invariant other than the bus and the tty speak of.  *)
LEMMA SameSupervisor ==
  ASSUME SupervisorInv, TypeOK', pc' \in {pc, "escaped", "closed"},
         UNCHANGED <<found, session, health_state, attempt, had_connection, repeated_emitted, repeats>>
  PROVE  SupervisorInv'
BY DEF SupervisorInv, FlagCounts, OpensFound, HealthTellsTheTruth, RepeatedFailureOncePerOutage

(* A new supervisor (reader.py:237-266). *)
LEMMA SupervisorInitOK == Init => SupervisorInv
<1> SUFFICES ASSUME Init PROVE SupervisorInv
  OBVIOUS
<1>1. TypeOK
  <2>1. 0 \in 0..MaxAttempts
    BY SupervisorAssumption
  <2>2. found \in Ports \cup {NoPort} /\ session \in Ports \cup {NoPort} /\ bus \in [Ports -> Devices]
    BY DEF Init
  <2> QED
    BY <2>1, <2>2 DEF Init, TypeOK
<1>2. FlagCounts /\ OpensFound /\ HealthTellsTheTruth /\ RepeatedFailureOncePerOutage
  BY SupervisorAssumption
  DEF Init, FlagCounts, OpensFound, HealthTellsTheTruth, RepeatedFailureOncePerOutage
<1> QED
  BY <1>1, <1>2 DEF SupervisorInv

(* After a failed attempt n the health is degraded and the outage has been   *)
(* reported once, if it has lasted long enough.                              *)
LEMMA AttemptFailsFacts ==
  ASSUME SupervisorInv, NEW n \in 1..MaxAttempts, AttemptFails(n)
  PROVE  /\ health_state' = "degraded"
         /\ pc' \in {"escaped", "waiting"}
         /\ repeated_emitted' \in BOOLEAN /\ repeats' \in 0..MaxAttempts
         /\ FlagCounts'
         /\ pc' = "waiting" /\ n >= Threshold => repeats' = 1
<1> DEFINE repeated == n >= Threshold /\ ~ repeated_emitted
           flagged == repeated_emitted \/ repeated
           counted == IF repeated THEN repeats + 1 ELSE repeats
<1>1. /\ repeated_emitted \in BOOLEAN /\ repeats \in 0..MaxAttempts
      /\ ~ repeated_emitted => repeats = 0
      /\ repeated_emitted => repeats = 1
  BY DEF SupervisorInv, TypeOK, FlagCounts
<1>2. /\ flagged \in BOOLEAN /\ counted \in 0..MaxAttempts
      /\ ~ flagged => counted = 0
      /\ flagged => counted = 1
  <2>1. MaxAttempts \in Nat
    BY SupervisorAssumption
  <2> QED
    BY <1>1, <2>1
<1>3. /\ health_state' = "degraded"
      /\ \/ pc' = "escaped" /\ repeated_emitted' = repeated_emitted /\ repeats' = repeats
         \/ pc' \in {"escaped", "waiting"} /\ repeated_emitted' = flagged /\ repeats' = counted
      /\ pc' = "waiting" => repeated_emitted' = flagged /\ repeats' = counted
  BY DEF AttemptFails
<1>4. CASE repeated_emitted' = repeated_emitted /\ repeats' = repeats /\ pc' = "escaped"
  BY <1>1, <1>3, <1>4 DEF FlagCounts
<1>5. CASE repeated_emitted' = flagged /\ repeats' = counted
  <2>1. n >= Threshold => flagged
    OBVIOUS
  <2> HIDE DEF flagged, counted
  <2> QED
    BY <1>2, <1>3, <1>5, <2>1 DEF FlagCounts
<1> QED
  BY <1>3, <1>4, <1>5

(* An attempt to connect keeps it (reader.py:285-297). *)
LEMMA ConnectStep == SupervisorInv /\ Connect => SupervisorInv'
<1> SUFFICES ASSUME SupervisorInv, Connect PROVE SupervisorInv'
  OBVIOUS
<1>1. /\ pc = "loop" /\ session = NoPort /\ attempt + 1 \in 1..MaxAttempts
      /\ attempt' = attempt + 1
      /\ UNCHANGED <<bus, hungup, session, had_connection, stop>>
  BY SupervisorAssumption DEF Connect, SupervisorInv, TypeOK
<1>2. TypeOK /\ FlagCounts /\ HealthTellsTheTruth
  BY DEF SupervisorInv
<1>3. CASE \E p \in Ports : /\ found' = p
                            /\ pc' = "opening" /\ health_state' = "connecting"
                            /\ UNCHANGED <<repeated_emitted, repeats>>
  BY <1>1, <1>2, <1>3
  DEF SupervisorInv, TypeOK, FlagCounts, OpensFound, HealthTellsTheTruth, RepeatedFailureOncePerOutage
<1>4. CASE /\ pc' = "escaped" /\ health_state' = "connecting"
           /\ UNCHANGED <<found, repeated_emitted, repeats>>
  BY <1>1, <1>2, <1>4
  DEF SupervisorInv, TypeOK, FlagCounts, OpensFound, HealthTellsTheTruth, RepeatedFailureOncePerOutage
<1>5. CASE AttemptFails(attempt + 1) /\ UNCHANGED found
  BY <1>1, <1>2, <1>5, AttemptFailsFacts
  DEF SupervisorInv, TypeOK, OpensFound, HealthTellsTheTruth, RepeatedFailureOncePerOutage, FlagCounts
<1> QED
  BY <1>3, <1>4, <1>5 DEF Connect

(* An open that succeeds or fails keeps it (reader.py:298-344). *)
LEMMA OpenStep == SupervisorInv /\ Open => SupervisorInv'
<1> SUFFICES ASSUME SupervisorInv, Open PROVE SupervisorInv'
  OBVIOUS
<1>1. /\ TypeOK /\ FlagCounts /\ HealthTellsTheTruth
      /\ pc = "opening" /\ found \in Ports /\ found # NoPort /\ session = NoPort
      /\ attempt \in 1..MaxAttempts
  BY SupervisorAssumption
  DEF SupervisorInv, Open, OpenSucceeds, OpenFails, OpensFound, HealthTellsTheTruth, TypeOK
<1>2. CASE OpenSucceeds
  <2>1. /\ session' = found /\ hungup' = FALSE /\ UNCHANGED <<bus, found, stop>>
        /\ \/ /\ had_connection' = TRUE /\ repeated_emitted' = FALSE
              /\ health_state' = "ready" /\ attempt' = 0
              /\ pc' = "loop" /\ repeats' = 0
           \/ /\ pc' = "escaped"
              /\ UNCHANGED <<had_connection, repeated_emitted, health_state, attempt, repeats>>
    BY <1>2 DEF OpenSucceeds
  <2>2. TypeOK'
    <3>1. 0 \in 0..MaxAttempts
      BY SupervisorAssumption
    <3>2. session' \in Ports \cup {NoPort} /\ found' \in Ports \cup {NoPort}
      BY <1>1, <2>1
    <3> QED
      BY <1>1, <2>1, <3>1, <3>2 DEF TypeOK
  <2>3. FlagCounts' /\ OpensFound' /\ RepeatedFailureOncePerOutage'
    BY <1>1, <2>1, SupervisorAssumption DEF FlagCounts, OpensFound, RepeatedFailureOncePerOutage
  <2>4. HealthTellsTheTruth'
    BY <1>1, <2>1 DEF HealthTellsTheTruth
  <2> QED
    BY <2>2, <2>3, <2>4 DEF SupervisorInv
<1>3. CASE OpenFails /\ AttemptFails(attempt)
  BY <1>1, <1>3, AttemptFailsFacts
  DEF OpenFails, SupervisorInv, TypeOK, OpensFound, HealthTellsTheTruth, RepeatedFailureOncePerOutage,
      FlagCounts
<1>4. CASE OpenFails /\ pc' = "escaped" /\ UNCHANGED <<health_state, repeated_emitted, repeats>>
  BY <1>1, <1>4, SameSupervisor DEF OpenFails, TypeOK
<1> QED
  BY <1>2, <1>3, <1>4 DEF Open, OpenFails

(* The end of a wait keeps it. *)
LEMMA WaitStep == SupervisorInv /\ WaitEnds => SupervisorInv'
BY DEF WaitEnds, supervisor, SupervisorInv, TypeOK, FlagCounts, OpensFound, HealthTellsTheTruth,
       RepeatedFailureOncePerOutage

(* A session that is dropped leaves nothing ready behind. *)
LEMMA ReadStep == SupervisorInv /\ (ReadRaises \/ ReadRecordEscapes) => SupervisorInv'
<1> SUFFICES ASSUME SupervisorInv, ReadRaises \/ ReadRecordEscapes PROVE SupervisorInv'
  OBVIOUS
<1>1. CASE ReadRecordEscapes
  BY <1>1, SameSupervisor DEF ReadRecordEscapes, supervisor, SupervisorInv, TypeOK
<1>2. CASE ReadRaises /\ pc' = "loop"
  <2>1. /\ session # NoPort /\ session' = NoPort /\ health_state' = "degraded"
        /\ hungup' = FALSE
        /\ UNCHANGED <<bus, found, attempt, had_connection, repeated_emitted, stop, repeats>>
    BY <1>2 DEF ReadRaises, DropSession, Disconnect, SupervisorInv, TypeOK
  <2> QED
    BY <1>2, <2>1
    DEF SupervisorInv, TypeOK, FlagCounts, OpensFound, HealthTellsTheTruth, RepeatedFailureOncePerOutage
<1>3. CASE ReadRaises /\ pc' = "escaped"
  BY <1>3, SameSupervisor DEF ReadRaises, DropSession, Disconnect, SupervisorInv, TypeOK
<1> QED
  BY <1>1, <1>2, <1>3 DEF ReadRaises, DropSession

(* close() keeps it (reader.py:381-389). *)
LEMMA CloseStep == SupervisorInv /\ Close => SupervisorInv'
BY DEF Close, Disconnect, SupervisorInv, TypeOK, FlagCounts, OpensFound, HealthTellsTheTruth,
       RepeatedFailureOncePerOutage

(* The world's steps leave the supervisor alone. *)
LEMMA WorldStep == SupervisorInv /\ (DeviceChanges \/ RequestStop \/ UNCHANGED vars) => SupervisorInv'
<1> SUFFICES ASSUME SupervisorInv, DeviceChanges \/ RequestStop \/ UNCHANGED vars PROVE SupervisorInv'
  OBVIOUS
<1>1. UNCHANGED <<found, supervisor, pc, repeats>>
  BY DEF DeviceChanges, RequestStop, vars
<1>2. bus' \in [Ports -> Devices] /\ hungup' \in BOOLEAN /\ stop' \in BOOLEAN
  BY DEF DeviceChanges, RequestStop, vars, SupervisorInv, TypeOK
<1> QED
  BY <1>1, <1>2, SameSupervisor DEF supervisor, SupervisorInv, TypeOK

(* SupervisorInv is inductive. *)
LEMMA SupervisorStep == SupervisorInv /\ [Next]_vars => SupervisorInv'
BY ConnectStep, OpenStep, WaitStep, ReadStep, CloseStep, WorldStep DEF Next

(* The supervisor's invariant holds of every behaviour. *)
THEOREM SupervisorInvariant == Spec => []SupervisorInv
BY SupervisorInitOK, SupervisorStep, PTL DEF Spec

(* FR-011: ready means a session, and a session of the loop is ready with    *)
(* the outage's counters cleared.                                            *)
THEOREM HealthTellsTheTruthCorrect == Spec => []HealthTellsTheTruth
BY SupervisorInvariant, PTL DEF SupervisorInv

(* FR-010: an outage is reported by the attempt that reaches the threshold,  *)
(* and once.                                                                 *)
THEOREM RepeatedFailureOncePerOutageCorrect == Spec => []RepeatedFailureOncePerOutage
BY SupervisorInvariant, PTL DEF SupervisorInv

-----------------------------------------------------------------------------
(* The records of a wire w up to place p, and what feed() says of them: the  *)
(* parts of the invariant, for any wire w, results r and place p of the      *)
(* first byte that is still in the buffer.                                   *)

(* No start before p is without a terminator before p. *)
ClosedIn(w, p) ==
  \A i \in 1..(p - 1) : w[i] = STX => \E j \in (i + 1)..(p - 1) : w[j] = ETX

(* What Frames selects. *)
FrameIn(w, s, e) ==
  /\ 1 <= s /\ s < e /\ e <= Len(w)
  /\ w[s] = STX /\ w[e] = ETX
  /\ \A i \in s..(e - 1) : w[i] # ETX
  /\ ClosedIn(w, s)

NothingDropped(r) == \A k \in 1..Len(r) : r[k].kind # "excessive"
IsClosed(r, k) == r[k].kind \in {"parsed", "malformed"}

(* As long as nothing was dropped, nothing before p is open, and the records *)
(* so far are the frames before p.                                           *)
FramedIn(w, r, p) ==
  NothingDropped(r) =>
    /\ ClosedIn(w, p)
    /\ \A k \in 1..Len(r) : IsClosed(r, k) => FrameIn(w, r[k].from, r[k].to)
    /\ \A s \in 1..(p - 1), e \in 1..(p - 1) :
         FrameIn(w, s, e) => \E k \in 1..Len(r) : IsClosed(r, k) /\ r[k].from = s /\ r[k].to = e

SyncIn(w, i) == i = 1 \/ w[i - 1] = ETX

(* Dropped or not: a good record that follows a terminator does not begin    *)
(* before p and end in it or behind it, ...                                  *)
SettledIn(w, p) ==
  \A i \in 1..(p - 1) :
    (SyncIn(w, i) /\ w[i] = STX) =>
      \/ \E j \in (i + 1)..(p - 1) : w[j] = ETX
      \/ p - i >= RecordLength

RecordIn(w, i) ==
  /\ i + RecordLength - 1 <= Len(w)
  /\ SyncIn(w, i) /\ SubSeq(w, i, i + RecordLength - 1) \in Records

Good(i) == [kind |-> "parsed", from |-> i, to |-> i + RecordLength - 1]

(* ... and when it ends before p it is among the results. *)
CaughtIn(w, r, p) ==
  \A i \in 1..Len(w) :
    (RecordIn(w, i) /\ i + RecordLength - 1 < p) => \E k \in 1..Len(r) : r[k] = Good(i)

(* Results are about places before p, one behind the other. *)
OrderedIn(r, p) ==
  /\ \A k \in 1..Len(r) : 1 <= r[k].from /\ r[k].from <= r[k].to /\ r[k].to < p
  /\ \A k \in 1..Len(r), l \in 1..Len(r) : k < l => r[k].to < r[l].from

ParsedIn(w, r) ==
  \A k \in 1..Len(r) : r[k].kind = "parsed" => SubSeq(w, r[k].from, r[k].to) \in Records

(* A start before p was ended before p, or dropped whole, ...                *)
EndedIn(w, i, p) == \E j \in (i + 1)..(p - 1) : w[j] = ETX
DroppedIn(r, i) ==
  \E l \in 1..Len(r) : r[l].kind = "excessive" /\ r[l].from <= i /\ i <= r[l].to
NoneOpenIn(w, r, p) ==
  \A i \in 1..(p - 1) : w[i] = STX => EndedIn(w, i, p) \/ DroppedIn(r, i)

(* ... and that was so where each parsed record begins.                      *)
NonePassedOver(w, r) ==
  \A k \in 1..Len(r) : r[k].kind = "parsed" => NoneOpenIn(w, r, r[k].from)

Told(w, r, p) ==
  /\ OrderedIn(r, p) /\ ParsedIn(w, r)
  /\ FramedIn(w, r, p) /\ SettledIn(w, p) /\ CaughtIn(w, r, p)
  /\ NoneOpenIn(w, r, p) /\ NonePassedOver(w, r)

-----------------------------------------------------------------------------
(* The buffer is what was read last. *)
Suffix ==
  /\ Len(buffer) <= Len(wire)
  /\ \A i \in Base..Len(wire) : buffer[i - Base + 1] = wire[i]

(* What feed() leaves is the beginning of a record, and what it returned is  *)
(* decided before the next read.                                             *)
AtRest ==
  /\ stage \in {"reading", "submitting"} =>
       Len(buffer) <= MaximumBuffer /\ (buffer = <<>> \/ Unterminated)
  /\ stage = "reading" => decided = Len(results)

StreamInv == StreamTypeOK /\ Suffix /\ Told(wire, results, Base) /\ AtRest

-----------------------------------------------------------------------------
(* What is left of a sequence without its first n elements. *)
LEMMA DropsFirst ==
  ASSUME NEW S, NEW s \in Seq(S), NEW n \in 0..Len(s)
  PROVE  /\ SubSeq(s, n + 1, Len(s)) \in Seq(S)
         /\ Len(SubSeq(s, n + 1, Len(s))) = Len(s) - n
         /\ \A i \in 1..(Len(s) - n) : SubSeq(s, n + 1, Len(s))[i] = s[n + i]
<1>1. Len(s) \in Nat /\ n \in Nat /\ n <= Len(s)
  OBVIOUS
<1>2. \A i \in (n + 1)..Len(s) : s[i] \in S
  BY <1>1
<1>3. /\ SubSeq(s, n + 1, Len(s)) \in Seq(S)
      /\ Len(SubSeq(s, n + 1, Len(s))) = IF n + 1 <= Len(s) THEN Len(s) - (n + 1) + 1 ELSE 0
      /\ \A i \in 1..(Len(s) - (n + 1) + 1) : SubSeq(s, n + 1, Len(s))[i] = s[(n + 1) + i - 1]
  BY <1>1, <1>2, SubSeqProperties
<1>4. /\ Len(s) - (n + 1) + 1 = Len(s) - n
      /\ \A i \in 1..(Len(s) - n) : (n + 1) + i - 1 = n + i
  BY <1>1
<1>5. (IF n + 1 <= Len(s) THEN Len(s) - (n + 1) + 1 ELSE 0) = Len(s) - n
  BY <1>1
<1>6. Len(SubSeq(s, n + 1, Len(s))) = Len(s) - n
  BY <1>3, <1>5
<1>7. ASSUME NEW i \in 1..(Len(s) - n)
      PROVE  SubSeq(s, n + 1, Len(s))[i] = s[n + i]
  <2>1. i \in 1..(Len(s) - (n + 1) + 1)
    BY <1>4
  <2>2. SubSeq(s, n + 1, Len(s))[i] = s[(n + 1) + i - 1]
    BY <1>3, <2>1
  <2> QED
    BY <1>4, <2>2
<1> QED
  BY <1>3, <1>6, <1>7


(* Two wires that agree up to place n have the same pieces there. *)
LEMMA SamePieces ==
  ASSUME NEW v \in Seq(Bytes), NEW w \in Seq(Bytes), NEW n \in Nat,
         n <= Len(v), n <= Len(w), \A i \in 1..n : w[i] = v[i],
         NEW s \in Nat, NEW e \in Nat, 1 <= s, e <= n
  PROVE  SubSeq(w, s, e) = SubSeq(v, s, e)
<1>1. Len(v) \in Nat /\ Len(w) \in Nat
  OBVIOUS
<1>2. \A i \in s..e : i \in 1..n /\ v[i] \in Bytes /\ w[i] \in Bytes
  BY <1>1
<1>3. /\ SubSeq(v, s, e) \in Seq(Bytes) /\ SubSeq(w, s, e) \in Seq(Bytes)
      /\ Len(SubSeq(v, s, e)) = IF s <= e THEN e - s + 1 ELSE 0
      /\ Len(SubSeq(w, s, e)) = IF s <= e THEN e - s + 1 ELSE 0
      /\ \A i \in 1..(e - s + 1) : SubSeq(v, s, e)[i] = v[s + i - 1]
      /\ \A i \in 1..(e - s + 1) : SubSeq(w, s, e)[i] = w[s + i - 1]
  BY <1>2, SubSeqProperties
<1>4. CASE s <= e
  <2>1. ASSUME NEW i \in 1..Len(SubSeq(w, s, e))
        PROVE  SubSeq(w, s, e)[i] = SubSeq(v, s, e)[i]
    <3>1. i \in 1..(e - s + 1) /\ s + i - 1 \in 1..n
      BY <1>3, <1>4
    <3> QED
      BY <1>3, <3>1
  <2> QED
    BY <1>3, <1>4, <2>1, SeqEqual
<1>5. CASE s > e
  BY <1>5, SubSeqEmpty
<1> QED
  BY <1>4, <1>5

(* What a record of the reader looks like on the wire. *)
LEMMA RecordShape ==
  ASSUME NEW w \in Seq(Bytes), NEW i \in 1..Len(w), i + RecordLength - 1 <= Len(w),
         SubSeq(w, i, i + RecordLength - 1) \in Records
  PROVE  /\ w[i] = STX /\ w[i + RecordLength - 1] = ETX
         /\ \A j \in (i + 1)..(i + RecordLength - 2) : w[j] # ETX
<1> DEFINE piece == SubSeq(w, i, i + RecordLength - 1)
<1>1. Len(w) \in Nat /\ RecordLength \in Nat /\ RecordLength > 1
  BY StreamAssumption
<1>2. \A j \in i..(i + RecordLength - 1) : w[j] \in Bytes
  BY <1>1
<1>3. \A j \in 1..(i + RecordLength - 1 - i + 1) : piece[j] = w[i + j - 1]
  BY <1>1, <1>2, SubSeqProperties
<1>4. i + RecordLength - 1 - i + 1 = RecordLength
  BY <1>1
<1>5. \A j \in 1..RecordLength : piece[j] = w[i + j - 1]
  BY <1>3, <1>4
<1>6. piece[1] = STX /\ piece[RecordLength] = ETX
  BY StreamAssumption
<1>7. \A j \in 2..(RecordLength - 1) : piece[j] # ETX
  BY StreamAssumption
<1> HIDE DEF piece
<1>8. w[i] = STX
  <2>1. 1 \in 1..RecordLength /\ i + 1 - 1 = i
    BY <1>1
  <2> QED
    BY <1>5, <1>6, <2>1
<1>9. w[i + RecordLength - 1] = ETX
  <2>1. RecordLength \in 1..RecordLength
    BY <1>1
  <2> QED
    BY <1>5, <1>6, <2>1
<1>10. ASSUME NEW j \in (i + 1)..(i + RecordLength - 2)
       PROVE  w[j] # ETX
  <2>1. j - i + 1 \in 2..(RecordLength - 1) /\ j - i + 1 \in 1..RecordLength /\ i + (j - i + 1) - 1 = j
    BY <1>1
  <2> QED
    BY <1>5, <1>7, <2>1
<1> QED
  BY <1>8, <1>9, <1>10

-----------------------------------------------------------------------------
(* A read adds behind the buffer and so changes nothing of what was told.    *)
LEMMA ReadTells ==
  ASSUME NEW v \in Seq(Bytes), NEW w \in Seq(Bytes), NEW r \in Seq(Results),
         NEW p \in Nat, 1 <= p, p <= Len(v) + 1, Len(v) <= Len(w),
         \A i \in 1..Len(v) : w[i] = v[i],
         Told(v, r, p)
  PROVE  Told(w, r, p)
<1>1. Len(v) \in Nat /\ Len(w) \in Nat /\ Len(r) \in Nat /\ RecordLength \in Nat /\ RecordLength > 1
  BY StreamAssumption
<1>2. \A i \in 1..(p - 1) : w[i] = v[i]
  BY <1>1
<1>3. OrderedIn(r, p)
  BY DEF Told
<1>4. \A k \in 1..Len(r) : r[k].from \in Nat /\ r[k].to \in Nat
  <2>1. \A k \in 1..Len(r) : r[k] \in Results
    OBVIOUS
  <2> QED
    BY <2>1 DEF Results
<1>5. ParsedIn(w, r)
  <2>1. ASSUME NEW k \in 1..Len(r), r[k].kind = "parsed"
        PROVE  SubSeq(w, r[k].from, r[k].to) \in Records
    <3>1. r[k].from \in Nat /\ r[k].to \in Nat /\ 1 <= r[k].from /\ r[k].to <= Len(v) /\ r[k].to <= Len(w)
      BY <1>1, <1>3, <1>4 DEF OrderedIn
    <3>2. \A s \in Nat, e \in Nat : (1 <= s /\ e <= Len(v)) => SubSeq(w, s, e) = SubSeq(v, s, e)
      BY <1>1, SamePieces
    <3> QED
      BY <2>1, <3>1, <3>2 DEF Told, ParsedIn
  <2> QED
    BY <2>1 DEF ParsedIn
<1>6. ASSUME NEW s \in Nat, 1 <= s, s <= p
      PROVE  ClosedIn(w, s) <=> ClosedIn(v, s)
  <2>1. \A i \in 1..(s - 1) : w[i] = v[i]
    BY <1>2, <1>6
  <2>2. \A i \in 1..(s - 1) : \A j \in (i + 1)..(s - 1) : w[j] = v[j]
    BY <1>2, <1>6
  <2> QED
    BY <2>1, <2>2 DEF ClosedIn
<1>7. ASSUME NEW s \in Nat, NEW e \in Nat, e < p
      PROVE  FrameIn(w, s, e) <=> FrameIn(v, s, e)
  <2>1. CASE 1 <= s /\ s < e
    <3>1. w[s] = v[s] /\ w[e] = v[e] /\ e <= Len(v) /\ e <= Len(w) /\ s <= p
      <4>1. s \in 1..(p - 1) /\ e \in 1..(p - 1)
        BY <1>1, <1>7, <2>1
      <4>2. e <= Len(v) /\ e <= Len(w) /\ s <= p
        BY <1>1, <1>7, <2>1
      <4> QED
        BY <1>2, <4>1, <4>2
    <3>2. \A i \in s..(e - 1) : w[i] = v[i]
      <4>1. \A i \in s..(e - 1) : i \in 1..(p - 1)
        BY <1>7, <2>1
      <4> QED
        BY <1>2, <4>1
    <3>3. ClosedIn(w, s) <=> ClosedIn(v, s)
      BY <1>6, <2>1, <3>1
    <3> QED
      BY <3>1, <3>2, <3>3 DEF FrameIn
  <2>2. CASE ~ (1 <= s /\ s < e)
    BY <2>2 DEF FrameIn
  <2> QED
    BY <2>1, <2>2
<1>8. FramedIn(w, r, p)
  <2>1. SUFFICES ASSUME NothingDropped(r)
                 PROVE  /\ ClosedIn(w, p)
                        /\ \A k \in 1..Len(r) : IsClosed(r, k) => FrameIn(w, r[k].from, r[k].to)
                        /\ \A s \in 1..(p - 1), e \in 1..(p - 1) :
                             FrameIn(w, s, e) =>
                               \E k \in 1..Len(r) : IsClosed(r, k) /\ r[k].from = s /\ r[k].to = e
    BY DEF FramedIn
  <2>2. /\ ClosedIn(v, p)
        /\ \A k \in 1..Len(r) : IsClosed(r, k) => FrameIn(v, r[k].from, r[k].to)
        /\ \A s \in 1..(p - 1), e \in 1..(p - 1) :
             FrameIn(v, s, e) =>
               \E k \in 1..Len(r) : IsClosed(r, k) /\ r[k].from = s /\ r[k].to = e
    BY <2>1 DEF Told, FramedIn
  <2>3. ClosedIn(w, p)
    BY <1>6, <2>2
  <2>4. \A k \in 1..Len(r) : IsClosed(r, k) => FrameIn(w, r[k].from, r[k].to)
    BY <1>3, <1>4, <1>7, <2>2 DEF OrderedIn
  <2>5. \A s \in 1..(p - 1), e \in 1..(p - 1) : FrameIn(w, s, e) <=> FrameIn(v, s, e)
    BY <1>7
  <2> QED
    BY <2>2, <2>3, <2>4, <2>5
<1>9. \A i \in 1..p : SyncIn(w, i) <=> SyncIn(v, i)
  <2>1. \A i \in 1..p : i = 1 \/ w[i - 1] = v[i - 1]
    BY <1>2
  <2> QED
    BY <2>1 DEF SyncIn
<1>10. SettledIn(w, p)
  <2>1. SettledIn(v, p)
    BY DEF Told
  <2>2. ASSUME NEW i \in 1..(p - 1), SyncIn(w, i), w[i] = STX
        PROVE  (\E j \in (i + 1)..(p - 1) : w[j] = ETX) \/ p - i >= RecordLength
    <3>1. SyncIn(v, i) /\ v[i] = STX
      BY <1>2, <1>9, <2>2
    <3>2. (\E j \in (i + 1)..(p - 1) : v[j] = ETX) \/ p - i >= RecordLength
      BY <2>1, <3>1 DEF SettledIn
    <3>3. \A j \in (i + 1)..(p - 1) : w[j] = v[j]
      BY <1>2
    <3> QED
      BY <3>2, <3>3
  <2> QED
    BY <2>2 DEF SettledIn
<1>11. CaughtIn(w, r, p)
  <2>1. ASSUME NEW i \in 1..Len(w), RecordIn(w, i), i + RecordLength - 1 < p
        PROVE  \E k \in 1..Len(r) : r[k] = Good(i)
    <3>1. i \in 1..p /\ i \in 1..Len(v) /\ i + RecordLength - 1 <= Len(v) /\ i + RecordLength - 1 \in Nat
      BY <1>1, <2>1
    <3>2. SubSeq(w, i, i + RecordLength - 1) = SubSeq(v, i, i + RecordLength - 1)
      BY <1>1, <3>1, SamePieces
    <3>3. RecordIn(v, i)
      BY <1>9, <2>1, <3>1, <3>2 DEF RecordIn
    <3> QED
      BY <2>1, <3>1, <3>3 DEF Told, CaughtIn
  <2> QED
    BY <2>1 DEF CaughtIn
<1>12. ASSUME NEW s \in Nat, 1 <= s, s <= p, NoneOpenIn(v, r, s)
       PROVE  NoneOpenIn(w, r, s)
  <2>1. ASSUME NEW i \in 1..(s - 1), w[i] = STX
        PROVE  EndedIn(w, i, s) \/ DroppedIn(r, i)
    <3>1. v[i] = STX /\ \A j \in (i + 1)..(s - 1) : w[j] = v[j]
      BY <1>2, <1>12, <2>1
    <3> QED
      BY <1>12, <3>1 DEF NoneOpenIn, EndedIn
  <2> QED
    BY <2>1 DEF NoneOpenIn
<1>13. NoneOpenIn(w, r, p)
  <2>1. NoneOpenIn(v, r, p) /\ p <= p
    BY DEF Told
  <2> QED
    BY <1>12, <2>1
<1>14. NonePassedOver(w, r)
  <2>1. ASSUME NEW k \in 1..Len(r), r[k].kind = "parsed"
        PROVE  NoneOpenIn(w, r, r[k].from)
    <3>1. r[k].from \in Nat /\ 1 <= r[k].from /\ r[k].from <= p
      <4>1. /\ 1 <= r[k].from /\ r[k].from <= r[k].to /\ r[k].to < p
            /\ r[k].from \in Nat /\ r[k].to \in Nat
        BY <1>3, <1>4 DEF OrderedIn
      <4> QED
        BY <4>1
    <3>2. NoneOpenIn(v, r, r[k].from)
      BY <2>1 DEF Told, NonePassedOver
    <3> QED
      BY <1>12, <3>1, <3>2
  <2> QED
    BY <2>1 DEF NonePassedOver
<1> QED
  BY <1>3, <1>5, <1>8, <1>10, <1>11, <1>13, <1>14 DEF Told

-----------------------------------------------------------------------------
(* A result about the n bytes from p on. *)
Adds(r, s, kind, p, n) ==
  /\ s \in Seq(Results) /\ Len(s) = Len(r) + 1
  /\ \A k \in 1..Len(r) : s[k] = r[k]
  /\ s[Len(r) + 1] = [kind |-> kind, from |-> p, to |-> p + n - 1]

(* What every result keeps, whatever it is about. *)
LEMMA AddsKeeps ==
  ASSUME NEW w \in Seq(Bytes), NEW r \in Seq(Results), NEW s \in Seq(Results), NEW kind,
         NEW p \in Nat, NEW n \in Nat, 1 <= p, 1 <= n, p + n - 1 <= Len(w),
         Told(w, r, p), Adds(r, s, kind, p, n),
         kind = "parsed" => SubSeq(w, p, p + n - 1) \in Records
  PROVE  OrderedIn(s, p + n) /\ ParsedIn(w, s)
<1>1. Len(r) \in Nat /\ Len(s) = Len(r) + 1
  BY DEF Adds
<1>2. /\ \A k \in 1..Len(s) : k \in 1..Len(r) \/ k = Len(r) + 1
      /\ \A k \in 1..Len(r) : s[k] = r[k]
      /\ s[Len(r) + 1].kind = kind /\ s[Len(r) + 1].from = p /\ s[Len(r) + 1].to = p + n - 1
  BY <1>1 DEF Adds
<1>3. \A k \in 1..Len(r) : r[k].from \in Nat /\ r[k].to \in Nat
  <2>1. \A k \in 1..Len(r) : r[k] \in Results
    OBVIOUS
  <2> QED
    BY <2>1 DEF Results
<1>4. /\ \A k \in 1..Len(r) : 1 <= r[k].from /\ r[k].from <= r[k].to /\ r[k].to < p
      /\ \A k \in 1..Len(r), l \in 1..Len(r) : k < l => r[k].to < r[l].from
  BY DEF Told, OrderedIn
<1>5. ASSUME NEW k \in 1..Len(s)
      PROVE  1 <= s[k].from /\ s[k].from <= s[k].to /\ s[k].to < p + n
  <2>1. CASE k \in 1..Len(r)
    <3>1. s[k] = r[k]
      BY <1>2, <2>1
    <3>2. r[k].to \in Nat /\ 1 <= r[k].from /\ r[k].from <= r[k].to /\ r[k].to < p
      BY <1>3, <1>4, <2>1
    <3>3. r[k].to < p + n
      BY <3>2
    <3> QED
      BY <3>1, <3>2, <3>3
  <2>2. CASE k = Len(r) + 1
    BY <1>2, <2>2
  <2> QED
    BY <1>2, <2>1, <2>2
<1>6. ASSUME NEW k \in 1..Len(s), NEW l \in 1..Len(s), k < l
      PROVE  s[k].to < s[l].from
  <2>1. k \in 1..Len(r)
    BY <1>1, <1>6
  <2>2. CASE l \in 1..Len(r)
    BY <1>2, <1>4, <1>6, <2>1, <2>2
  <2>3. CASE l = Len(r) + 1
    BY <1>2, <1>3, <1>4, <2>1, <2>3
  <2> QED
    BY <1>2, <2>2, <2>3
<1>7. ASSUME NEW k \in 1..Len(s), s[k].kind = "parsed"
      PROVE  SubSeq(w, s[k].from, s[k].to) \in Records
  <2>1. CASE k \in 1..Len(r)
    BY <1>2, <1>7, <2>1 DEF Told, ParsedIn
  <2>2. CASE k = Len(r) + 1
    BY <1>2, <1>7, <2>2
  <2> QED
    BY <1>2, <2>1, <2>2
<1> QED
  BY <1>5, <1>6, <1>7 DEF OrderedIn, ParsedIn

(* What an earlier result said of what was passed over stays said, and the   *)
(* new one says it of the n bytes from p on, which end or are dropped.       *)
LEMMA AddsPassesNone ==
  ASSUME NEW w \in Seq(Bytes), NEW r \in Seq(Results), NEW s \in Seq(Results), NEW kind,
         NEW p \in Nat, NEW n \in Nat, 1 <= p, 1 <= n,
         Told(w, r, p), Adds(r, s, kind, p, n),
         \A i \in p..(p + n - 1) : w[i] = STX => EndedIn(w, i, p + n) \/ kind = "excessive"
  PROVE  NoneOpenIn(w, s, p + n) /\ NonePassedOver(w, s)
<1>1. Len(r) \in Nat /\ Len(s) = Len(r) + 1
  BY DEF Adds
<1>2. /\ \A k \in 1..Len(s) : k \in 1..Len(r) \/ k = Len(r) + 1
      /\ \A k \in 1..Len(r) : k \in 1..Len(s) /\ s[k] = r[k]
      /\ Len(r) + 1 \in 1..Len(s)
      /\ s[Len(r) + 1].kind = kind /\ s[Len(r) + 1].from = p /\ s[Len(r) + 1].to = p + n - 1
  BY <1>1 DEF Adds
<1>3. ASSUME NEW i, DroppedIn(r, i)
      PROVE  DroppedIn(s, i)
  BY <1>2, <1>3 DEF DroppedIn
<1>4. ASSUME NEW q, NoneOpenIn(w, r, q)
      PROVE  NoneOpenIn(w, s, q)
  BY <1>3, <1>4 DEF NoneOpenIn
<1>5. NoneOpenIn(w, r, p) /\ NonePassedOver(w, r)
  BY DEF Told
<1>6. NonePassedOver(w, s)
  BY <1>2, <1>4, <1>5 DEF NonePassedOver
<1>7. ASSUME NEW i \in 1..(p + n - 1), w[i] = STX
      PROVE  EndedIn(w, i, p + n) \/ DroppedIn(s, i)
  <2>1. CASE i < p
    <3>1. i \in 1..(p - 1) /\ \A j \in (i + 1)..(p - 1) : j \in (i + 1)..(p + n - 1)
      BY <2>1
    <3>2. EndedIn(w, i, p) \/ DroppedIn(r, i)
      BY <1>5, <1>7, <3>1 DEF NoneOpenIn
    <3> QED
      BY <1>3, <3>1, <3>2 DEF EndedIn
  <2>2. CASE i >= p
    <3>1. i \in p..(p + n - 1)
      BY <2>2
    <3>2. kind = "excessive" => DroppedIn(s, i)
      BY <1>2, <3>1 DEF DroppedIn
    <3> QED
      BY <1>7, <3>1, <3>2
  <2> QED
    BY <2>1, <2>2
<1> QED
  BY <1>6, <1>7 DEF NoneOpenIn

(* A record that ends at or behind p begins there: not before, where what    *)
(* has been told about would be inside it.                                   *)
LEMMA BeginsBehind ==
  ASSUME NEW w \in Seq(Bytes), NEW p \in Nat, 1 <= p, p <= Len(w) + 1, SettledIn(w, p),
         NEW i \in 1..Len(w), RecordIn(w, i), i + RecordLength - 1 >= p
  PROVE  i >= p
<1>1. Len(w) \in Nat /\ RecordLength \in Nat /\ RecordLength > 1
  BY StreamAssumption
<1>2. /\ w[i] = STX
      /\ \A j \in (i + 1)..(i + RecordLength - 2) : w[j] # ETX
  BY RecordShape DEF RecordIn
<1>3. SUFFICES ASSUME i < p
               PROVE  FALSE
  BY <1>1
<1>4. SyncIn(w, i)
  BY DEF RecordIn
<1>5. (\E j \in (i + 1)..(p - 1) : w[j] = ETX) \/ p - i >= RecordLength
  BY <1>2, <1>3, <1>4 DEF SettledIn
<1>6. \A j \in (i + 1)..(p - 1) : j \in (i + 1)..(i + RecordLength - 2)
  BY <1>1
<1>7. ~ (p - i >= RecordLength)
  BY <1>1
<1> QED
  BY <1>2, <1>5, <1>6, <1>7

(* The same of frames. *)
LEMMA FrameBeginsBehind ==
  ASSUME NEW w \in Seq(Bytes), NEW p \in Nat, 1 <= p, ClosedIn(w, p),
         NEW s \in Nat, NEW e \in Nat, FrameIn(w, s, e), e >= p
  PROVE  s >= p
<1>1. SUFFICES ASSUME s < p
               PROVE  FALSE
  OBVIOUS
<1>2. s \in 1..(p - 1) /\ w[s] = STX
  BY <1>1 DEF FrameIn
<1>3. PICK j \in (s + 1)..(p - 1) : w[j] = ETX
  BY <1>2 DEF ClosedIn
<1>4. j \in s..(e - 1)
  OBVIOUS
<1> QED
  BY <1>3, <1>4 DEF FrameIn

(* What is told of places before p, once the n bytes from p on are told of.  *)
LEMMA CaughtBefore ==
  ASSUME NEW w \in Seq(Bytes), NEW r \in Seq(Results), NEW s \in Seq(Results), NEW kind,
         NEW p \in Nat, NEW n \in Nat, 1 <= p, 1 <= n, p + n - 1 <= Len(w),
         Told(w, r, p), Adds(r, s, kind, p, n),
         \A i \in p..Len(w) :
           (RecordIn(w, i) /\ i + RecordLength - 1 < p + n) => s[Len(r) + 1] = Good(i)
  PROVE  CaughtIn(w, s, p + n)
<1>1. Len(r) \in Nat /\ Len(s) = Len(r) + 1 /\ Len(w) \in Nat /\ RecordLength \in Nat /\ RecordLength > 1
  BY StreamAssumption DEF Adds
<1>2. ASSUME NEW i \in 1..Len(w), RecordIn(w, i), i + RecordLength - 1 < p + n
      PROVE  \E k \in 1..Len(s) : s[k] = Good(i)
  <2>1. CASE i + RecordLength - 1 < p
    <3>1. PICK k \in 1..Len(r) : r[k] = Good(i)
      BY <1>2, <2>1 DEF Told, CaughtIn
    <3>2. k \in 1..Len(s) /\ s[k] = r[k]
      BY <1>1 DEF Adds
    <3> QED
      BY <3>1, <3>2
  <2>2. CASE i + RecordLength - 1 >= p
    <3>1. p <= Len(w) + 1
      BY <1>1
    <3>2. i >= p
      BY <1>2, <2>2, <3>1, BeginsBehind DEF Told
    <3>3. i \in p..Len(w)
      BY <3>2
    <3>4. s[Len(r) + 1] = Good(i)
      BY <1>2, <3>3
    <3>5. Len(r) + 1 \in 1..Len(s)
      BY <1>1
    <3> QED
      BY <3>4, <3>5
  <2> QED
    BY <1>1, <2>1, <2>2
<1> QED
  BY <1>2 DEF CaughtIn

(* Places that open no record, or one that ended, leave nothing straddling. *)
LEMMA SettledBefore ==
  ASSUME NEW w \in Seq(Bytes), NEW p \in Nat, NEW n \in Nat, 1 <= p, 1 <= n,
         SettledIn(w, p),
         \A i \in p..(p + n - 1) :
           (SyncIn(w, i) /\ w[i] = STX) =>
             (\E j \in (i + 1)..(p + n - 1) : w[j] = ETX) \/ p + n - i >= RecordLength
  PROVE  SettledIn(w, p + n)
<1>1. RecordLength \in Nat
  BY StreamAssumption
<1>2. ASSUME NEW i \in 1..(p + n - 1), SyncIn(w, i), w[i] = STX
      PROVE  (\E j \in (i + 1)..(p + n - 1) : w[j] = ETX) \/ p + n - i >= RecordLength
  <2>1. CASE i < p
    <3>1. i \in 1..(p - 1)
      BY <2>1
    <3>2. (\E j \in (i + 1)..(p - 1) : w[j] = ETX) \/ p - i >= RecordLength
      BY <1>2, <3>1 DEF SettledIn
    <3>3. p - i >= RecordLength => p + n - i >= RecordLength
      BY <1>1
    <3>4. \A j \in (i + 1)..(p - 1) : j \in (i + 1)..(p + n - 1)
      OBVIOUS
    <3> QED
      BY <3>2, <3>3, <3>4
  <2>2. CASE i >= p
    <3>1. i \in p..(p + n - 1)
      BY <2>2
    <3> QED
      BY <1>2, <3>1
  <2> QED
    BY <2>1, <2>2
<1> QED
  BY <1>2 DEF SettledIn

-----------------------------------------------------------------------------
(* What stands before an STX is told of as one framing error.                *)
LEMMA SkipTells ==
  ASSUME NEW w \in Seq(Bytes), NEW r \in Seq(Results), NEW s \in Seq(Results),
         NEW p \in Nat, NEW n \in Nat, 1 <= p, 1 <= n, p + n - 1 <= Len(w),
         Told(w, r, p), Adds(r, s, "framing", p, n),
         \A i \in p..(p + n - 1) : w[i] # STX
  PROVE  Told(w, s, p + n)
<1>1. Len(r) \in Nat /\ Len(s) = Len(r) + 1 /\ Len(w) \in Nat /\ RecordLength \in Nat /\ RecordLength > 1
  BY StreamAssumption DEF Adds
<1>2. OrderedIn(s, p + n) /\ ParsedIn(w, s)
  BY AddsKeeps
<1>3. /\ \A k \in 1..Len(s) : k \in 1..Len(r) \/ k = Len(r) + 1
      /\ \A k \in 1..Len(r) : k \in 1..Len(s) /\ s[k] = r[k]
      /\ s[Len(r) + 1].kind = "framing"
  BY <1>1 DEF Adds
<1>4. SettledIn(w, p + n)
  BY SettledBefore DEF Told
<1>5. CaughtIn(w, s, p + n)
  <2>1. ASSUME NEW i \in p..Len(w), RecordIn(w, i), i + RecordLength - 1 < p + n
        PROVE  FALSE
    <3>1. i \in 1..Len(w) /\ i \in p..(p + n - 1)
      BY <1>1, <2>1
    <3>2. w[i] = STX
      BY <2>1, <3>1, RecordShape DEF RecordIn
    <3> QED
      BY <3>1, <3>2
  <2> QED
    BY <2>1, CaughtBefore
<1>6. FramedIn(w, s, p + n)
  <2>1. SUFFICES ASSUME NothingDropped(s)
                 PROVE  /\ ClosedIn(w, p + n)
                        /\ \A k \in 1..Len(s) : IsClosed(s, k) => FrameIn(w, s[k].from, s[k].to)
                        /\ \A b \in 1..(p + n - 1), e \in 1..(p + n - 1) :
                             FrameIn(w, b, e) =>
                               \E k \in 1..Len(s) : IsClosed(s, k) /\ s[k].from = b /\ s[k].to = e
    BY DEF FramedIn
  <2>2. NothingDropped(r)
    BY <1>3, <2>1 DEF NothingDropped
  <2>3. /\ ClosedIn(w, p)
        /\ \A k \in 1..Len(r) : IsClosed(r, k) => FrameIn(w, r[k].from, r[k].to)
        /\ \A b \in 1..(p - 1), e \in 1..(p - 1) :
             FrameIn(w, b, e) =>
               \E k \in 1..Len(r) : IsClosed(r, k) /\ r[k].from = b /\ r[k].to = e
    BY <2>2 DEF Told, FramedIn
  <2>4. ClosedIn(w, p + n)
    <3>1. ASSUME NEW i \in 1..(p + n - 1), w[i] = STX
          PROVE  \E j \in (i + 1)..(p + n - 1) : w[j] = ETX
      <4>1. i \in 1..(p - 1)
        BY <3>1
      <4>2. \A j \in (i + 1)..(p - 1) : j \in (i + 1)..(p + n - 1)
        OBVIOUS
      <4> QED
        BY <2>3, <3>1, <4>1, <4>2 DEF ClosedIn
    <3> QED
      BY <3>1 DEF ClosedIn
  <2>5. \A k \in 1..Len(s) : IsClosed(s, k) => FrameIn(w, s[k].from, s[k].to)
    <3>1. ~ IsClosed(s, Len(r) + 1)
      BY <1>3 DEF IsClosed
    <3> QED
      BY <1>3, <2>3, <3>1 DEF IsClosed
  <2>6. ASSUME NEW b \in 1..(p + n - 1), NEW e \in 1..(p + n - 1), FrameIn(w, b, e)
        PROVE  \E k \in 1..Len(s) : IsClosed(s, k) /\ s[k].from = b /\ s[k].to = e
    <3>1. w[b] = STX /\ b < e
      BY <2>6 DEF FrameIn
    <3>2. b \in 1..(p - 1)
      BY <3>1
    <3>3. e < p
      BY <2>3, <2>6, <3>2, FrameBeginsBehind
    <3>4. e \in 1..(p - 1)
      BY <3>3
    <3>5. PICK k \in 1..Len(r) : IsClosed(r, k) /\ r[k].from = b /\ r[k].to = e
      BY <2>3, <2>6, <3>2, <3>4
    <3> QED
      BY <1>3, <3>5 DEF IsClosed
  <2> QED
    BY <2>4, <2>5, <2>6
<1>7. NoneOpenIn(w, s, p + n) /\ NonePassedOver(w, s)
  BY AddsPassesNone
<1> QED
  BY <1>2, <1>4, <1>5, <1>6, <1>7 DEF Told

(* An STX and what follows it up to the first ETX is told of as a record,    *)
(* and is the one frame that ends there.                                     *)
LEMMA CutTells ==
  ASSUME NEW w \in Seq(Bytes), NEW r \in Seq(Results), NEW s \in Seq(Results),
         NEW p \in Nat, NEW n \in Nat, 1 <= p, 2 <= n, p + n - 1 <= Len(w),
         Told(w, r, p), Adds(r, s, Parsed(SubSeq(w, p, p + n - 1)), p, n),
         w[p] = STX, w[p + n - 1] = ETX,
         \A i \in (p + 1)..(p + n - 2) : w[i] # ETX
  PROVE  Told(w, s, p + n)
<1>1. /\ Len(r) \in Nat /\ Len(s) = Len(r) + 1 /\ Len(w) \in Nat
      /\ RecordLength \in Nat /\ RecordLength > 1 /\ STX # ETX /\ 1 <= n
  BY StreamAssumption DEF Adds
<1> DEFINE kind == Parsed(SubSeq(w, p, p + n - 1))
<1>2. OrderedIn(s, p + n) /\ ParsedIn(w, s)
  <2>1. kind = "parsed" => SubSeq(w, p, p + n - 1) \in Records
    BY DEF Parsed
  <2> QED
    BY <1>1, <2>1, AddsKeeps
<1>3. /\ \A k \in 1..Len(s) : k \in 1..Len(r) \/ k = Len(r) + 1
      /\ \A k \in 1..Len(r) : k \in 1..Len(s) /\ s[k] = r[k]
      /\ Len(r) + 1 \in 1..Len(s)
      /\ s[Len(r) + 1] = [kind |-> kind, from |-> p, to |-> p + n - 1]
      /\ kind \in {"parsed", "malformed"}
  BY <1>1 DEF Adds, Parsed
<1> HIDE DEF kind
<1>4. s[Len(r) + 1].kind = kind /\ s[Len(r) + 1].from = p /\ s[Len(r) + 1].to = p + n - 1
  BY <1>3
<1>5. \A i \in p..(p + n - 2) : w[i] # ETX
  BY <1>1
<1>6. SettledIn(w, p + n)
  <2>1. ASSUME NEW i \in p..(p + n - 1), w[i] = STX
        PROVE  \E j \in (i + 1)..(p + n - 1) : w[j] = ETX
    <3>1. i # p + n - 1
      BY <1>1, <2>1
    <3>2. p + n - 1 \in (i + 1)..(p + n - 1)
      BY <3>1
    <3> QED
      BY <3>2
  <2> QED
    BY <1>1, <2>1, SettledBefore DEF Told
<1>7. CaughtIn(w, s, p + n)
  <2>1. ASSUME NEW i \in p..Len(w), RecordIn(w, i), i + RecordLength - 1 < p + n
        PROVE  s[Len(r) + 1] = Good(i)
    <3>1. i \in 1..Len(w) /\ i + RecordLength - 1 <= Len(w) /\ SyncIn(w, i)
          /\ SubSeq(w, i, i + RecordLength - 1) \in Records
      BY <1>1, <2>1 DEF RecordIn
    <3>2. w[i + RecordLength - 1] = ETX
      BY <3>1, RecordShape
    <3>3. i + RecordLength - 1 \notin p..(p + n - 2)
      BY <1>5, <3>2
    <3>4. i + RecordLength - 1 = p + n - 1
      BY <1>1, <2>1, <3>3
    <3>5. i = p
      <4>1. SUFFICES ASSUME i # p
                     PROVE  FALSE
        OBVIOUS
      <4>2. i # 1 /\ i - 1 \in p..(p + n - 2)
        BY <1>1, <3>4, <4>1
      <4> QED
        BY <1>5, <3>1, <4>2 DEF SyncIn
    <3>6. kind = "parsed"
      BY <3>1, <3>4, <3>5 DEF kind, Parsed
    <3> QED
      BY <1>3, <3>4, <3>5, <3>6 DEF Good
  <2> QED
    BY <1>1, <2>1, CaughtBefore DEF kind
<1>8. FramedIn(w, s, p + n)
  <2>1. SUFFICES ASSUME NothingDropped(s)
                 PROVE  /\ ClosedIn(w, p + n)
                        /\ \A k \in 1..Len(s) : IsClosed(s, k) => FrameIn(w, s[k].from, s[k].to)
                        /\ \A b \in 1..(p + n - 1), e \in 1..(p + n - 1) :
                             FrameIn(w, b, e) =>
                               \E k \in 1..Len(s) : IsClosed(s, k) /\ s[k].from = b /\ s[k].to = e
    BY DEF FramedIn
  <2>2. NothingDropped(r)
    BY <1>3, <2>1 DEF NothingDropped
  <2>3. /\ ClosedIn(w, p)
        /\ \A k \in 1..Len(r) : IsClosed(r, k) => FrameIn(w, r[k].from, r[k].to)
        /\ \A b \in 1..(p - 1), e \in 1..(p - 1) :
             FrameIn(w, b, e) =>
               \E k \in 1..Len(r) : IsClosed(r, k) /\ r[k].from = b /\ r[k].to = e
    BY <2>2 DEF Told, FramedIn
  <2>4. ClosedIn(w, p + n)
    <3>1. ASSUME NEW i \in 1..(p + n - 1), w[i] = STX
          PROVE  \E j \in (i + 1)..(p + n - 1) : w[j] = ETX
      <4>1. i # p + n - 1
        BY <1>1, <3>1
      <4>2. p + n - 1 \in (i + 1)..(p + n - 1)
        BY <1>1, <4>1
      <4> QED
        BY <4>2
    <3> QED
      BY <3>1 DEF ClosedIn
  <2>5. FrameIn(w, p, p + n - 1)
    BY <1>1, <1>5, <2>3 DEF FrameIn
  <2>6. \A k \in 1..Len(s) : IsClosed(s, k) => FrameIn(w, s[k].from, s[k].to)
    <3>1. ASSUME NEW k \in 1..Len(s), IsClosed(s, k)
          PROVE  FrameIn(w, s[k].from, s[k].to)
      <4>1. CASE k \in 1..Len(r)
        BY <1>3, <2>3, <3>1, <4>1 DEF IsClosed
      <4>2. CASE k = Len(r) + 1
        BY <1>4, <2>5, <4>2
      <4> QED
        BY <1>3, <4>1, <4>2
    <3> QED
      BY <3>1
  <2>7. ASSUME NEW b \in 1..(p + n - 1), NEW e \in 1..(p + n - 1), FrameIn(w, b, e)
        PROVE  \E k \in 1..Len(s) : IsClosed(s, k) /\ s[k].from = b /\ s[k].to = e
    <3>1. w[b] = STX /\ w[e] = ETX /\ b < e /\ \A i \in b..(e - 1) : w[i] # ETX
      BY <2>7 DEF FrameIn
    <3>2. CASE e < p
      <4>1. b \in 1..(p - 1) /\ e \in 1..(p - 1)
        BY <3>1, <3>2
      <4>2. PICK k \in 1..Len(r) : IsClosed(r, k) /\ r[k].from = b /\ r[k].to = e
        BY <2>3, <2>7, <4>1, ZenonT(60)
      <4> QED
        BY <1>3, <4>2 DEF IsClosed
    <3>3. CASE e >= p
      <4>1. e = p + n - 1
        BY <1>5, <3>1, <3>3
      <4>2. b >= p
        <5>1. b \in Nat /\ e \in Nat
          OBVIOUS
        <5> QED
          BY <2>3, <2>7, <3>3, <5>1, FrameBeginsBehind
      <4>3. ClosedIn(w, b)
        BY <2>7 DEF FrameIn
      <4>4. b = p
        <5>1. SUFFICES ASSUME b > p
                       PROVE  FALSE
          BY <4>2
        <5>2. p \in 1..(b - 1)
          BY <5>1
        <5>3. PICK j \in (p + 1)..(b - 1) : w[j] = ETX
          BY <4>3, <5>2 DEF ClosedIn
        <5>4. j \in p..(p + n - 2)
          BY <3>1, <4>1
        <5>5. w[j] # ETX
          BY <1>5, <5>4
        <5> QED
          BY <5>3, <5>5
      <4>5. IsClosed(s, Len(r) + 1)
        BY <1>3, <1>4 DEF IsClosed
      <4> QED
        BY <1>3, <1>4, <4>1, <4>4, <4>5
    <3>4. e < p \/ e >= p
      OBVIOUS
    <3> QED
      BY <3>2, <3>3, <3>4
  <2> QED
    BY <2>4, <2>6, <2>7
<1>9. NoneOpenIn(w, s, p + n) /\ NonePassedOver(w, s)
  <2>1. ASSUME NEW i \in p..(p + n - 1), w[i] = STX
        PROVE  EndedIn(w, i, p + n)
    <3>1. i # p + n - 1
      BY <1>1, <2>1
    <3>2. p + n - 1 \in (i + 1)..(p + n - 1)
      BY <3>1
    <3> QED
      BY <3>2 DEF EndedIn
  <2> QED
    BY <1>1, <2>1, AddsPassesNone DEF kind
<1> QED
  BY <1>2, <1>6, <1>7, <1>8, <1>9 DEF Told

(* A beginning without an end that is longer than a record is dropped.       *)
LEMMA DropTells ==
  ASSUME NEW w \in Seq(Bytes), NEW r \in Seq(Results), NEW s \in Seq(Results),
         NEW p \in Nat, NEW n \in Nat, 1 <= p, RecordLength <= n, p + n - 1 <= Len(w),
         Told(w, r, p), Adds(r, s, "excessive", p, n),
         w[p] = STX,
         \A i \in (p + 1)..(p + n - 1) : w[i] # ETX
  PROVE  Told(w, s, p + n)
<1>1. /\ Len(r) \in Nat /\ Len(s) = Len(r) + 1 /\ Len(w) \in Nat
      /\ RecordLength \in Nat /\ RecordLength > 1 /\ STX # ETX /\ 1 <= n
  BY StreamAssumption DEF Adds
<1>2. OrderedIn(s, p + n) /\ ParsedIn(w, s)
  BY <1>1, AddsKeeps
<1>3. \A i \in p..(p + n - 1) : w[i] # ETX
  BY <1>1
<1>4. SettledIn(w, p + n)
  <2>1. ASSUME NEW i \in p..(p + n - 1), SyncIn(w, i), w[i] = STX
        PROVE  p + n - i >= RecordLength
    <3>1. CASE i = p
      BY <1>1, <3>1
    <3>2. CASE i # p
      <4>1. i # 1 /\ i - 1 \in p..(p + n - 1)
        BY <3>2
      <4> QED
        BY <1>3, <2>1, <4>1 DEF SyncIn
    <3> QED
      BY <3>1, <3>2
  <2> QED
    BY <1>1, <2>1, SettledBefore DEF Told
<1>5. CaughtIn(w, s, p + n)
  <2>1. ASSUME NEW i \in p..Len(w), RecordIn(w, i), i + RecordLength - 1 < p + n
        PROVE  FALSE
    <3>1. i \in 1..Len(w) /\ i + RecordLength - 1 \in p..(p + n - 1)
      BY <1>1, <2>1
    <3>2. w[i + RecordLength - 1] = ETX
      BY <2>1, <3>1, RecordShape DEF RecordIn
    <3> QED
      BY <1>3, <3>1, <3>2
  <2> QED
    BY <1>1, <2>1, CaughtBefore
<1>6. FramedIn(w, s, p + n)
  <2>1. Len(r) + 1 \in 1..Len(s) /\ s[Len(r) + 1].kind = "excessive"
    BY <1>1 DEF Adds
  <2>2. ~ NothingDropped(s)
    BY <2>1 DEF NothingDropped
  <2> QED
    BY <2>2 DEF FramedIn
<1>7. NoneOpenIn(w, s, p + n) /\ NonePassedOver(w, s)
  BY <1>1, AddsPassesNone
<1> QED
  BY <1>2, <1>4, <1>5, <1>6, <1>7 DEF Told

-----------------------------------------------------------------------------
(* Where the buffer lies on the wire. *)
LEMMA Bounds ==
  ASSUME StreamTypeOK, Suffix
  PROVE  /\ Len(wire) \in Nat /\ Len(buffer) \in Nat /\ Len(results) \in Nat
         /\ Base \in Nat /\ Base >= 1 /\ Base <= Len(wire) + 1
         /\ Base + Len(buffer) = Len(wire) + 1
         /\ \A i \in 1..Len(buffer) : buffer[i] = wire[Base + i - 1]
<1>1. Len(wire) \in Nat /\ Len(buffer) \in Nat /\ Len(results) \in Nat
  BY DEF StreamTypeOK
<1>2. Base \in Nat /\ Base >= 1 /\ Base <= Len(wire) + 1 /\ Base + Len(buffer) = Len(wire) + 1
  BY <1>1 DEF Base, Suffix
<1>3. ASSUME NEW i \in 1..Len(buffer)
      PROVE  buffer[i] = wire[Base + i - 1]
  <2>1. Base + i - 1 \in Base..Len(wire) /\ (Base + i - 1) - Base + 1 = i
    BY <1>1, <1>2
  <2> QED
    BY <2>1 DEF Suffix
<1> QED
  BY <1>1, <1>2, <1>3

(* The first n bytes of the buffer are a piece of the wire. *)
LEMMA PieceOfWire ==
  ASSUME StreamTypeOK, Suffix, NEW n \in 1..Len(buffer)
  PROVE  SubSeq(buffer, 1, n) = SubSeq(wire, Base, Base + n - 1)
<1>1. /\ Len(wire) \in Nat /\ Len(buffer) \in Nat
      /\ Base \in Nat /\ Base >= 1 /\ Base + Len(buffer) = Len(wire) + 1
      /\ \A i \in 1..Len(buffer) : buffer[i] = wire[Base + i - 1]
      /\ buffer \in Seq(Bytes) /\ wire \in Seq(Bytes)
  BY Bounds DEF StreamTypeOK
<1>2. PICK p \in Nat : p = Base
  BY <1>1
<1>3. /\ \A i \in 1..n : buffer[i] \in Bytes
      /\ \A i \in p..(p + n - 1) : wire[i] \in Bytes
  <2>1. \A i \in 1..n : i \in 1..Len(buffer)
    BY <1>1
  <2>2. \A i \in p..(p + n - 1) : i \in 1..Len(wire)
    BY <1>1, <1>2
  <2> QED
    BY <1>1, <2>1, <2>2
<1>4. /\ SubSeq(buffer, 1, n) \in Seq(Bytes) /\ Len(SubSeq(buffer, 1, n)) = n
      /\ \A i \in 1..n : SubSeq(buffer, 1, n)[i] = buffer[i]
  <2>1. /\ SubSeq(buffer, 1, n) \in Seq(Bytes)
        /\ Len(SubSeq(buffer, 1, n)) = IF 1 <= n THEN n - 1 + 1 ELSE 0
        /\ \A i \in 1..(n - 1 + 1) : SubSeq(buffer, 1, n)[i] = buffer[1 + i - 1]
    BY <1>3, SubSeqProperties
  <2>2. 1 <= n /\ n - 1 + 1 = n /\ \A i \in 1..n : 1 + i - 1 = i
    BY <1>1
  <2> QED
    BY <2>1, <2>2
<1>5. /\ SubSeq(wire, p, p + n - 1) \in Seq(Bytes) /\ Len(SubSeq(wire, p, p + n - 1)) = n
      /\ \A i \in 1..n : SubSeq(wire, p, p + n - 1)[i] = wire[p + i - 1]
  <2>1. /\ SubSeq(wire, p, p + n - 1) \in Seq(Bytes)
        /\ Len(SubSeq(wire, p, p + n - 1)) = IF p <= p + n - 1 THEN p + n - 1 - p + 1 ELSE 0
        /\ \A i \in 1..(p + n - 1 - p + 1) : SubSeq(wire, p, p + n - 1)[i] = wire[p + i - 1]
    BY <1>3, SubSeqProperties
  <2>2. p <= p + n - 1 /\ p + n - 1 - p + 1 = n
    BY <1>1, <1>2
  <2> QED
    BY <2>1, <2>2
<1>6. \A i \in 1..n : SubSeq(buffer, 1, n)[i] = SubSeq(wire, p, p + n - 1)[i]
  BY <1>1, <1>2, <1>4, <1>5
<1>7. SubSeq(buffer, 1, n) = SubSeq(wire, p, p + n - 1)
  BY <1>4, <1>5, <1>6, SeqEqual
<1> QED
  BY <1>2, <1>7

(* A result about the first n bytes of the buffer, seen from the wire. *)
LEMMA TakesAdds ==
  ASSUME StreamTypeOK, Suffix, NEW n \in 1..Len(buffer),
         NEW kind \in {"parsed", "malformed", "framing", "excessive"},
         Takes(kind, n), wire' = wire
  PROVE  /\ Adds(results, results', kind, Base, n)
         /\ buffer' \in Seq(Bytes) /\ Len(buffer') = Len(buffer) - n
         /\ Base' = Base + n
         /\ Suffix'
<1>1. /\ Len(wire) \in Nat /\ Len(buffer) \in Nat /\ Len(results) \in Nat
      /\ Base \in Nat /\ Base >= 1 /\ Base + Len(buffer) = Len(wire) + 1
      /\ \A i \in 1..Len(buffer) : buffer[i] = wire[Base + i - 1]
  BY Bounds
<1>2. buffer \in Seq(Bytes) /\ results \in Seq(Results)
  BY DEF StreamTypeOK
<1>3. /\ buffer' \in Seq(Bytes) /\ Len(buffer') = Len(buffer) - n
      /\ \A i \in 1..(Len(buffer) - n) : buffer'[i] = buffer[n + i]
  BY <1>1, <1>2, DropsFirst DEF Takes
<1>4. Base' = Base + n
  BY <1>1, <1>3 DEF Base
<1>5. Suffix'
  <2>1. Len(buffer') <= Len(wire')
    BY <1>1, <1>3
  <2>2. ASSUME NEW i \in (Base + n)..Len(wire)
        PROVE  buffer'[i - (Base + n) + 1] = wire[i]
    <3>1. /\ i - (Base + n) + 1 \in 1..(Len(buffer) - n)
          /\ n + (i - (Base + n) + 1) = i - Base + 1
          /\ i - Base + 1 \in 1..Len(buffer)
          /\ Base + (i - Base + 1) - 1 = i
      BY <1>1
    <3> QED
      BY <1>1, <1>3, <3>1
  <2> QED
    BY <1>4, <2>1, <2>2 DEF Suffix
<1>6. [kind |-> kind, from |-> Base, to |-> Base + n - 1] \in Results
  BY <1>1 DEF Results
<1> QED
  BY <1>1, <1>2, <1>3, <1>4, <1>5, <1>6 DEF Adds, Takes

(* A new stream (reader.py:67-70). *)
LEMMA StreamInitOK == StreamInit => StreamInv
<1> SUFFICES ASSUME StreamInit
             PROVE  StreamInv
  OBVIOUS
<1>1. wire = <<>> /\ buffer = <<>> /\ results = <<>> /\ Base = 1
  BY DEF StreamInit, Base
<1>2. StreamTypeOK /\ AtRest
  <2>1. StreamTypeOK
    <3>1. <<>> \in Seq(Bytes) /\ <<>> \in Seq(Results) /\ 0 \in 0..Len(<<>>)
      OBVIOUS
    <3>2. stage = "reading" /\ connected = FALSE /\ sessions = 0 /\ starts = {} /\ decided = 0
      BY DEF StreamInit
    <3> QED
      BY <1>1, <3>1, <3>2 DEF StreamTypeOK
  <2>2. AtRest
    BY <1>1, StreamAssumption DEF StreamInit, AtRest
  <2> QED
    BY <2>1, <2>2
<1>3. Suffix
  BY <1>1 DEF Suffix
<1>4. Told(<<>>, <<>>, 1)
  BY DEF Told, OrderedIn, ParsedIn, FramedIn, SettledIn, CaughtIn, ClosedIn, IsClosed,
       NoneOpenIn, NonePassedOver
<1> QED
  BY <1>1, <1>2, <1>3, <1>4 DEF StreamInv

(* The steps of one session: the stream's own state is not touched. *)
LEMMA StreamUntouched ==
  ASSUME StreamInv, UNCHANGED <<buffer, results, wire>>,
         decided' \in 0..Len(results), connected' \in BOOLEAN, sessions' \in Nat, starts' \subseteq Nat,
         stage' \in {"reading", "feeding", "submitting", "escaped"},
         stage' = "submitting" => stage = "submitting",
         stage' = "reading" => stage \in {"reading", "submitting"} /\ decided' = Len(results)
  PROVE  StreamInv'
<1>1. Base' = Base
  BY DEF Base
<1>2. StreamTypeOK'
  BY DEF StreamInv, StreamTypeOK
<1>3. Suffix' /\ Told(wire, results, Base)'
  BY <1>1 DEF StreamInv, Suffix
<1>4. AtRest'
  BY DEF StreamInv, AtRest, Unterminated
<1> QED
  BY <1>2, <1>3, <1>4 DEF StreamInv

(* What is read is at the end of the wire and at the end of the buffer. *)
LEMMA Joined ==
  ASSUME NEW S, NEW s \in Seq(S), NEW t \in Seq(S)
  PROVE  /\ s \o t \in Seq(S) /\ Len(s \o t) = Len(s) + Len(t)
         /\ \A i \in 1..Len(s) : (s \o t)[i] = s[i]
         /\ \A i \in 1..Len(t) : (s \o t)[Len(s) + i] = t[i]
<1>1. Len(s) \in Nat /\ Len(t) \in Nat
  OBVIOUS
<1>2. /\ s \o t \in Seq(S)
      /\ Len(s \o t) = Len(s) + Len(t)
      /\ \A i \in 1..(Len(s) + Len(t)) :
           (s \o t)[i] = IF i <= Len(s) THEN s[i] ELSE t[i - Len(s)]
  BY ConcatProperties
<1>3. ASSUME NEW i \in 1..Len(s)
      PROVE  (s \o t)[i] = s[i]
  <2>1. i \in 1..(Len(s) + Len(t)) /\ i <= Len(s)
    BY <1>1
  <2> QED
    BY <1>2, <2>1
<1>4. ASSUME NEW i \in 1..Len(t)
      PROVE  (s \o t)[Len(s) + i] = t[i]
  <2>1. Len(s) + i \in 1..(Len(s) + Len(t)) /\ ~ (Len(s) + i <= Len(s)) /\ (Len(s) + i) - Len(s) = i
    BY <1>1
  <2> QED
    BY <1>2, <2>1
<1> QED
  BY <1>2, <1>3, <1>4

(* The bytes of a read, put behind the buffer, end the wire as before.      *)
LEMMA JoinedSuffix ==
  ASSUME NEW v \in Seq(Bytes), NEW b \in Seq(Bytes), NEW c \in Seq(Bytes), NEW p \in Nat,
         1 <= p, p + Len(b) = Len(v) + 1,
         \A i \in 1..Len(b) : b[i] = v[p + i - 1]
  PROVE  \A i \in p..(Len(v) + Len(c)) : (b \o c)[i - p + 1] = (v \o c)[i]
<1>1. Len(v) \in Nat /\ Len(b) \in Nat /\ Len(c) \in Nat
  OBVIOUS
<1>2. /\ \A i \in 1..Len(v) : (v \o c)[i] = v[i]
      /\ \A i \in 1..Len(c) : (v \o c)[Len(v) + i] = c[i]
      /\ \A i \in 1..Len(b) : (b \o c)[i] = b[i]
      /\ \A i \in 1..Len(c) : (b \o c)[Len(b) + i] = c[i]
  BY Joined
<1>3. ASSUME NEW i \in p..(Len(v) + Len(c))
      PROVE  (b \o c)[i - p + 1] = (v \o c)[i]
  <2>1. CASE i <= Len(v)
    <3>1. i - p + 1 \in 1..Len(b) /\ i \in 1..Len(v) /\ p + (i - p + 1) - 1 = i
      BY <1>1, <2>1
    <3> QED
      BY <1>2, <3>1
  <2>2. CASE i > Len(v)
    <3>1. PICK j \in 1..Len(c) : j = i - Len(v)
      <4>1. i \in Int /\ i <= Len(v) + Len(c)
        BY <1>1
      <4>2. i - Len(v) \in 1..Len(c)
        BY <1>1, <2>2, <4>1
      <4> QED
        BY <4>2
    <3>2. Len(v) + j = i /\ Len(b) + j = i - p + 1
      BY <1>1, <3>1
    <3>3. (v \o c)[Len(v) + j] = c[j] /\ (b \o c)[Len(b) + j] = c[j]
      BY <1>2
    <3> QED
      BY <3>2, <3>3
  <2> QED
    BY <1>1, <2>1, <2>2
<1> QED
  BY <1>3

(* A read keeps the stream's invariant (reader.py:348-369). *)
LEMMA ReadKeeps ==
  ASSUME StreamInv, NEW n \in 1..MaxChunk, NEW chunk \in [1..n -> Bytes], Read(chunk)
  PROVE  StreamInv'
<1>1. /\ wire \in Seq(Bytes) /\ buffer \in Seq(Bytes) /\ results \in Seq(Results)
      /\ Len(wire) \in Nat /\ Len(buffer) \in Nat
      /\ Base \in Nat /\ Base >= 1 /\ Base <= Len(wire) + 1
      /\ Base + Len(buffer) = Len(wire) + 1
      /\ \A i \in 1..Len(buffer) : buffer[i] = wire[Base + i - 1]
  BY Bounds DEF StreamInv, StreamTypeOK
<1>2. n \in Nat /\ chunk \in Seq(Bytes) /\ Len(chunk) = n
  BY StreamAssumption
<1>3. wire' = wire \o chunk /\ buffer' = buffer \o chunk
  BY DEF Read
<1>4. /\ wire' \in Seq(Bytes) /\ Len(wire') = Len(wire) + n
      /\ \A i \in 1..Len(wire) : wire'[i] = wire[i]
      /\ buffer' \in Seq(Bytes) /\ Len(buffer') = Len(buffer) + n
  <2>0. \A s \in Seq(Bytes), t \in Seq(Bytes) :
          /\ s \o t \in Seq(Bytes) /\ Len(s \o t) = Len(s) + Len(t)
          /\ \A i \in 1..Len(s) : (s \o t)[i] = s[i]
    BY Joined
  <2>1. /\ wire' \in Seq(Bytes) /\ Len(wire') = Len(wire) + Len(chunk)
        /\ \A i \in 1..Len(wire) : wire'[i] = wire[i]
    BY <1>1, <1>2, <1>3, <2>0
  <2>2. buffer' \in Seq(Bytes) /\ Len(buffer') = Len(buffer) + Len(chunk)
    BY <1>1, <1>2, <1>3, <2>0
  <2> QED
    BY <1>2, <2>1, <2>2
<1>5. Base' = Base
  BY <1>1, <1>2, <1>4 DEF Base
<1>6. PICK p \in Nat : p = Base
  BY <1>1
<1>7. Suffix'
  <2>1. 1 <= p /\ p + Len(buffer) = Len(wire) + 1 /\ \A i \in 1..Len(buffer) : buffer[i] = wire[p + i - 1]
    BY <1>1, <1>6
  <2>2. \A i \in p..(Len(wire) + Len(chunk)) : (buffer \o chunk)[i - p + 1] = (wire \o chunk)[i]
    <3>1. wire \in Seq(Bytes) /\ buffer \in Seq(Bytes) /\ chunk \in Seq(Bytes)
      BY <1>1, <1>2
    <3> QED
      BY <2>1, <3>1, JoinedSuffix, ZenonT(60)
  <2>3. \A i \in p..Len(wire') : buffer'[i - p + 1] = wire'[i]
    BY <1>2, <1>3, <1>4, <2>2
  <2>4. Len(buffer') <= Len(wire')
    BY <1>1, <1>2, <1>4
  <2> QED
    BY <1>5, <1>6, <2>3, <2>4 DEF Suffix
<1>8. Told(wire', results, p)
  <2>1. Told(wire, results, p)
    BY <1>6 DEF StreamInv
  <2>2. 1 <= p /\ p <= Len(wire) + 1 /\ Len(wire) <= Len(wire')
    BY <1>1, <1>2, <1>4, <1>6
  <2> QED
    BY <1>1, <1>4, <2>1, <2>2, ReadTells
<1>9. StreamTypeOK' /\ AtRest'
  BY <1>4 DEF StreamInv, StreamTypeOK, AtRest, Read
<1>10. results' = results
  BY DEF Read
<1> QED
  BY <1>5, <1>6, <1>7, <1>8, <1>9, <1>10 DEF StreamInv

(* The steps of feed() that take n bytes: what the wire says of them. *)
LEMMA SkipKeeps ==
  ASSUME StreamInv, SkipToStart
  PROVE  StreamInv'
<1>1. /\ wire \in Seq(Bytes) /\ buffer \in Seq(Bytes) /\ results \in Seq(Results)
      /\ Len(wire) \in Nat /\ Len(buffer) \in Nat
      /\ Base \in Nat /\ Base >= 1 /\ Base + Len(buffer) = Len(wire) + 1
      /\ \A i \in 1..Len(buffer) : buffer[i] = wire[Base + i - 1]
  BY Bounds DEF StreamInv, StreamTypeOK
<1>2. buffer # <<>> /\ stage = "feeding" /\ wire' = wire /\ stage' = stage
  BY DEF SkipToStart, Feeding
<1>3. Len(buffer) >= 1
  BY <1>1, <1>2, EmptySeq
<1>4. PICK n \in 1..Len(buffer) : Takes("framing", n) /\ \A i \in 1..n : buffer[i] # STX
  <2>1. CASE \E n \in 2..Len(buffer) : IsFirst(n, STX, 1) /\ Takes("framing", n - 1)
    <3>1. PICK n \in 2..Len(buffer) : IsFirst(n, STX, 1) /\ Takes("framing", n - 1)
      BY <2>1
    <3>2. n - 1 \in 1..Len(buffer) /\ \A i \in 1..(n - 1) : buffer[i] # STX
      BY <1>1, <3>1 DEF IsFirst
    <3> QED
      BY <3>1, <3>2
  <2>2. CASE (\A i \in 1..Len(buffer) : buffer[i] # STX) /\ Takes("framing", Len(buffer))
    <3>1. Len(buffer) \in 1..Len(buffer)
      BY <1>1, <1>3
    <3> QED
      BY <2>2, <3>1
  <2> QED
    BY <2>1, <2>2 DEF SkipToStart
<1>5. /\ Adds(results, results', "framing", Base, n)
      /\ buffer' \in Seq(Bytes) /\ Base' = Base + n /\ Suffix'
  BY <1>2, <1>4, TakesAdds DEF StreamInv
<1>6. results' \in Seq(Results)
  BY <1>5 DEF Adds
<1>7. PICK p \in Nat : p = Base
  BY <1>1
<1>8. \A i \in p..(p + n - 1) : wire[i] # STX
  <2>1. ASSUME NEW i \in p..(p + n - 1)
        PROVE  wire[i] # STX
    <3>1. i - p + 1 \in 1..n /\ i - p + 1 \in 1..Len(buffer) /\ p + (i - p + 1) - 1 = i
      <4>1. Len(buffer) \in Nat
        BY <1>1
      <4> QED
        BY <4>1
    <3>2. buffer[i - p + 1] = wire[p + (i - p + 1) - 1]
      BY <1>1, <1>7, <3>1
    <3>3. buffer[i - p + 1] # STX
      BY <1>4, <3>1
    <3> QED
      BY <3>1, <3>2, <3>3
  <2> QED
    BY <2>1
<1>9. Told(wire, results', p + n)
  <2>1. n \in Nat /\ 1 <= n /\ 1 <= p /\ p + n - 1 <= Len(wire)
    BY <1>1, <1>7
  <2>2. Told(wire, results, p) /\ Adds(results, results', "framing", p, n)
    BY <1>5, <1>7 DEF StreamInv
  <2> QED
    BY <1>1, <1>6, <1>8, <2>1, <2>2, SkipTells
<1>10. StreamTypeOK' /\ AtRest'
  <2>1. Len(results') = Len(results) + 1 /\ Len(results) \in Nat
    BY <1>1, <1>5 DEF Adds
  <2>2. decided' = decided /\ connected' = connected /\ sessions' = sessions /\ starts' = starts
    BY DEF SkipToStart
  <2>3. decided' \in 0..Len(results')
    BY <2>1, <2>2 DEF StreamInv, StreamTypeOK
  <2>4. AtRest'
    BY <1>2 DEF AtRest
  <2> QED
    BY <1>2, <1>5, <1>6, <2>2, <2>3, <2>4 DEF StreamInv, StreamTypeOK
<1> QED
  BY <1>2, <1>5, <1>7, <1>9, <1>10 DEF StreamInv

(* Cutting a record out of the buffer keeps it (reader.py:86-97).           *)
LEMMA CutKeeps ==
  ASSUME StreamInv, CutRecord
  PROVE  StreamInv'
<1>1. /\ wire \in Seq(Bytes) /\ buffer \in Seq(Bytes) /\ results \in Seq(Results)
      /\ Len(wire) \in Nat /\ Len(buffer) \in Nat
      /\ Base \in Nat /\ Base >= 1 /\ Base + Len(buffer) = Len(wire) + 1
      /\ \A i \in 1..Len(buffer) : buffer[i] = wire[Base + i - 1]
  BY Bounds DEF StreamInv, StreamTypeOK
<1>2. buffer[1] = STX /\ stage = "feeding" /\ wire' = wire /\ stage' = stage
  BY DEF CutRecord, Feeding
<1>3. PICK n \in 2..Len(buffer) : IsFirst(n, ETX, 2) /\ Takes(Parsed(SubSeq(buffer, 1, n)), n)
  BY DEF CutRecord
<1>4. n \in 1..Len(buffer) /\ n \in Nat /\ 1 \in 1..Len(buffer) /\ n >= 2
  BY <1>1
<1>5. Parsed(SubSeq(buffer, 1, n)) \in {"parsed", "malformed", "framing", "excessive"}
  BY DEF Parsed
<1>6. /\ Adds(results, results', Parsed(SubSeq(buffer, 1, n)), Base, n)
      /\ buffer' \in Seq(Bytes) /\ Base' = Base + n /\ Suffix'
  BY <1>2, <1>3, <1>4, <1>5, TakesAdds DEF StreamInv
<1>7. SubSeq(buffer, 1, n) = SubSeq(wire, Base, Base + n - 1)
  BY <1>4, PieceOfWire DEF StreamInv
<1>8. results' \in Seq(Results)
  BY <1>6 DEF Adds
<1>9. PICK p \in Nat : p = Base
  BY <1>1
<1>10. wire[p] = STX /\ wire[p + n - 1] = ETX
  <2>1. buffer[n] = ETX
    BY <1>3 DEF IsFirst
  <2>2. p + 1 - 1 = p
    OBVIOUS
  <2> QED
    BY <1>1, <1>2, <1>4, <1>9, <2>1, <2>2
<1>11. \A i \in (p + 1)..(p + n - 2) : wire[i] # ETX
  <2>1. ASSUME NEW i \in (p + 1)..(p + n - 2)
        PROVE  wire[i] # ETX
    <3>1. i - p + 1 \in 2..(n - 1) /\ i - p + 1 \in 1..Len(buffer) /\ p + (i - p + 1) - 1 = i
      BY <1>1, <1>4
    <3>2. buffer[i - p + 1] # ETX
      BY <1>3, <3>1 DEF IsFirst
    <3> QED
      BY <1>1, <1>9, <3>1, <3>2
  <2> QED
    BY <2>1
<1>12. Told(wire, results', p + n)
  <2>1. 2 <= n /\ 1 <= p /\ p + n - 1 <= Len(wire)
    BY <1>1, <1>4, <1>9
  <2>2. Told(wire, results, p) /\ Adds(results, results', Parsed(SubSeq(wire, p, p + n - 1)), p, n)
    BY <1>6, <1>7, <1>9 DEF StreamInv
  <2> QED
    BY <1>1, <1>4, <1>8, <1>10, <1>11, <2>1, <2>2, CutTells
<1>13. StreamTypeOK' /\ AtRest'
  <2>1. Len(results') = Len(results) + 1 /\ Len(results) \in Nat
    BY <1>1, <1>6 DEF Adds
  <2>2. decided' = decided /\ connected' = connected /\ sessions' = sessions /\ starts' = starts
    BY DEF CutRecord
  <2>3. decided' \in 0..Len(results')
    BY <2>1, <2>2 DEF StreamInv, StreamTypeOK
  <2>4. AtRest'
    BY <1>2 DEF AtRest
  <2> QED
    BY <1>2, <1>6, <1>8, <2>2, <2>3, <2>4 DEF StreamInv, StreamTypeOK
<1> QED
  BY <1>2, <1>6, <1>9, <1>12, <1>13 DEF StreamInv

(* The end of feed() keeps it (reader.py:72-98). *)
LEMMA FeedEndsKeeps ==
  ASSUME StreamInv, FeedEnds
  PROVE  StreamInv'
<1>1. /\ wire \in Seq(Bytes) /\ buffer \in Seq(Bytes) /\ results \in Seq(Results)
      /\ Len(wire) \in Nat /\ Len(buffer) \in Nat
      /\ Base \in Nat /\ Base >= 1 /\ Base + Len(buffer) = Len(wire) + 1
      /\ \A i \in 1..Len(buffer) : buffer[i] = wire[Base + i - 1]
  BY Bounds DEF StreamInv, StreamTypeOK
<1>2. /\ wire' = wire /\ decided' = decided /\ connected' = connected /\ sessions' = sessions
      /\ starts' = starts /\ stage' \in {"submitting", "escaped"}
  BY DEF FeedEnds, FeedReturns
<1>3. CASE UNCHANGED <<buffer, results>> /\ (buffer = <<>> \/ (Unterminated /\ ~ (Len(buffer) > MaximumBuffer)))
  <2>1. Base' = Base
    BY <1>2, <1>3 DEF Base
  <2>2. StreamTypeOK'
    BY <1>2, <1>3 DEF StreamInv, StreamTypeOK
  <2>3. Suffix' /\ Told(wire, results, Base)'
    BY <1>2, <1>3, <2>1 DEF StreamInv, Suffix
  <2>4. AtRest'
    <3>1. CASE buffer = <<>>
      <4>1. Len(buffer) = 0
        BY <3>1
      <4> QED
        BY <1>2, <1>3, <3>1, <4>1, StreamAssumption DEF AtRest
    <3>2. CASE Unterminated /\ ~ (Len(buffer) > MaximumBuffer)
      <4>1. Len(buffer) <= MaximumBuffer
        BY <1>1, <3>2, StreamAssumption
      <4>2. Unterminated'
        BY <1>3, <3>2 DEF Unterminated
      <4> QED
        BY <1>2, <1>3, <4>1, <4>2 DEF AtRest
    <3> QED
      BY <1>3, <3>1, <3>2
  <2> QED
    BY <2>2, <2>3, <2>4 DEF StreamInv
<1>4. CASE buffer # <<>> /\ Unterminated /\ Len(buffer) > MaximumBuffer /\ Takes("excessive", Len(buffer))
  <2>1. PICK n \in 1..Len(buffer) : n = Len(buffer)
    BY <1>1, <1>4, StreamAssumption
  <2>2. /\ Adds(results, results', "excessive", Base, n)
        /\ buffer' \in Seq(Bytes) /\ Len(buffer') = Len(buffer) - n
        /\ Base' = Base + n /\ Suffix'
    BY <1>2, <1>4, <2>1, TakesAdds DEF StreamInv
  <2>3. results' \in Seq(Results)
    BY <2>2 DEF Adds
  <2>4. PICK p \in Nat : p = Base
    BY <1>1
  <2>5. wire[p] = STX
    <3>1. 1 \in 1..Len(buffer) /\ p + 1 - 1 = p
      BY <1>1, <2>1
    <3> QED
      BY <1>1, <1>4, <2>4, <3>1 DEF Unterminated
  <2>6. \A i \in (p + 1)..(p + n - 1) : wire[i] # ETX
    <3>1. ASSUME NEW i \in (p + 1)..(p + n - 1)
          PROVE  wire[i] # ETX
      <4>1. i - p + 1 \in 2..Len(buffer) /\ i - p + 1 \in 1..Len(buffer) /\ p + (i - p + 1) - 1 = i
        BY <1>1, <2>1
      <4>2. buffer[i - p + 1] # ETX
        BY <1>4, <4>1 DEF Unterminated
      <4> QED
        BY <1>1, <2>4, <4>1, <4>2
    <3> QED
      BY <3>1
  <2>7. Told(wire, results', p + n)
    <3>1. n \in Nat /\ RecordLength <= n /\ 1 <= p /\ p + n - 1 <= Len(wire)
      BY <1>1, <1>4, <2>1, <2>4, StreamAssumption
    <3>2. Told(wire, results, p) /\ Adds(results, results', "excessive", p, n)
      BY <2>2, <2>4 DEF StreamInv
    <3> QED
      BY <1>1, <2>3, <2>5, <2>6, <3>1, <3>2, DropTells
  <2>8. StreamTypeOK'
    <3>1. Len(results') = Len(results) + 1 /\ Len(results) \in Nat
      BY <1>1, <2>2 DEF Adds
    <3>2. decided' \in 0..Len(results')
      BY <1>2, <3>1 DEF StreamInv, StreamTypeOK
    <3> QED
      BY <1>2, <2>2, <2>3, <3>2 DEF StreamInv, StreamTypeOK
  <2>9. AtRest'
    <3>1. Len(buffer') = 0
      BY <1>1, <2>1, <2>2
    <3>2. buffer' = <<>>
      BY <2>2, <3>1, EmptySeq
    <3> QED
      BY <1>2, <3>1, <3>2, StreamAssumption DEF AtRest
  <2> QED
    BY <1>2, <2>2, <2>4, <2>7, <2>8, <2>9 DEF StreamInv
<1> QED
  BY <1>3, <1>4 DEF FeedEnds

(* StreamInv is inductive. *)
LEMMA StreamStep == StreamInv /\ [StreamNext]_streamVars => StreamInv'
<1> SUFFICES ASSUME StreamInv, [StreamNext]_streamVars
             PROVE  StreamInv'
  OBVIOUS
<1>1. /\ decided \in 0..Len(results) /\ Len(results) \in Nat
      /\ connected \in BOOLEAN /\ sessions \in Nat /\ starts \subseteq Nat /\ Len(wire) \in Nat
      /\ stage \in {"reading", "feeding", "submitting", "escaped"}
      /\ stage = "reading" => decided = Len(results)
  BY DEF StreamInv, StreamTypeOK, AtRest
<1>2. CASE Connects
  <2>1. sessions' = sessions + 1 /\ starts' = starts \cup {Len(wire) + 1}
    BY <1>2 DEF Connects
  <2>2. sessions' \in Nat
    BY <1>1, <2>1
  <2>3. Len(wire) + 1 \in Nat
    BY <1>1
  <2>4. starts' \subseteq Nat
    BY <1>1, <2>1, <2>3
  <2> QED
    BY <1>1, <1>2, <2>2, <2>4, StreamUntouched DEF Connects
<1>3. CASE Disconnects
  BY <1>1, <1>3, StreamUntouched DEF Disconnects
<1>4. CASE ReadEscapes
  BY <1>1, <1>4, StreamUntouched DEF ReadEscapes
<1>5. CASE \E n \in 1..MaxChunk : \E chunk \in [1..n -> Bytes] : Read(chunk)
  BY <1>5, ReadKeeps
<1>6. CASE SkipToStart
  BY <1>6, SkipKeeps
<1>7. CASE CutRecord
  BY <1>7, CutKeeps
<1>8. CASE FeedEnds
  BY <1>8, FeedEndsKeeps
<1>9. CASE Submit
  <2>1. /\ UNCHANGED <<buffer, results, wire>> /\ connected' = connected
        /\ sessions' = sessions /\ starts' = starts /\ stage = "submitting"
    BY <1>9 DEF Submit
  <2>2. decided' \in 0..Len(results) /\ stage' \in {"reading", "submitting", "escaped"}
    BY <1>1, <1>9 DEF Submit
  <2>3. stage' = "reading" => decided' = Len(results)
    BY <1>1, <1>9, <2>1 DEF Submit
  <2> QED
    BY <1>1, <2>1, <2>2, <2>3, StreamUntouched
<1>10. CASE UNCHANGED streamVars
  BY <1>1, <1>10, StreamUntouched DEF streamVars
<1> QED
  BY <1>2, <1>3, <1>4, <1>5, <1>6, <1>7, <1>8, <1>9, <1>10 DEF StreamNext

(* Type correctness, and where the buffer and the results stand on the wire, *)
(* between any two steps of the reader's loop.                               *)
THEOREM StreamInvariant == StreamSpec => []StreamInv
<1>1. StreamInit => StreamInv
  BY StreamInitOK
<1>2. StreamInv /\ [StreamNext]_streamVars => StreamInv'
  BY StreamStep
<1> QED
  BY <1>1, <1>2, PTL DEF StreamSpec

-----------------------------------------------------------------------------
(* Between two reads no terminator is left in the buffer. *)
LEMMA NoEndBehind ==
  ASSUME StreamInv, stage = "reading"
  PROVE  \A i \in Base..Len(wire) : wire[i] # ETX
<1>1. /\ Len(wire) \in Nat /\ Len(buffer) \in Nat
      /\ Base \in Nat /\ Base >= 1 /\ Base + Len(buffer) = Len(wire) + 1
      /\ \A i \in 1..Len(buffer) : buffer[i] = wire[Base + i - 1]
  BY Bounds DEF StreamInv
<1>2. ASSUME NEW i \in Base..Len(wire)
      PROVE  wire[i] # ETX
  <2>1. i - Base + 1 \in 1..Len(buffer) /\ Base + (i - Base + 1) - 1 = i
    BY <1>1
  <2>2. Len(buffer) # 0
    BY <1>1, <2>1
  <2>3. buffer # <<>>
    BY <2>2
  <2>4. buffer[1] = STX /\ \A j \in 2..Len(buffer) : buffer[j] # ETX
    BY <2>3 DEF StreamInv, AtRest, Unterminated
  <2>5. buffer[i - Base + 1] # ETX
    BY <1>1, <2>1, <2>4, StreamAssumption
  <2> QED
    BY <1>1, <2>1, <2>5
<1> QED
  BY <1>2

(* Where the reads cut the wire makes no difference, for any wire. *)
THEOREM ChunkingDoesNotMatterCorrect == StreamSpec => []ChunkingDoesNotMatter
<1>1. StreamInv => ChunkingDoesNotMatter
  <2> SUFFICES ASSUME StreamInv, stage = "reading",
                      \A k \in 1..Len(results) : results[k].kind # "excessive"
               PROVE  {Span(k) : k \in Closed} = Frames
    BY DEF ChunkingDoesNotMatter
  <2>1. Len(wire) \in Nat /\ Base \in Nat /\ Base >= 1 /\ Base <= Len(wire) + 1
    BY Bounds DEF StreamInv
  <2>2. Frames = {f \in (1..Len(wire)) \X (1..Len(wire)) : FrameIn(wire, f[1], f[2])}
    BY <2>1 DEF Frames, FrameIn, ClosedIn
  <2>3. /\ \A k \in 1..Len(results) :
             IsClosed(results, k) => FrameIn(wire, results[k].from, results[k].to)
        /\ \A s \in 1..(Base - 1), e \in 1..(Base - 1) :
             FrameIn(wire, s, e) =>
               \E k \in 1..Len(results) :
                 IsClosed(results, k) /\ results[k].from = s /\ results[k].to = e
    BY DEF StreamInv, Told, FramedIn, NothingDropped
  <2>4. ASSUME NEW k \in Closed
        PROVE  Span(k) \in Frames
    <3>1. k \in 1..Len(results) /\ IsClosed(results, k)
      BY DEF Closed, IsClosed
    <3>2. FrameIn(wire, results[k].from, results[k].to)
      BY <2>3, <3>1
    <3>3. results[k] \in Results
      BY <3>1 DEF StreamInv, StreamTypeOK
    <3>4. results[k].from \in Nat /\ results[k].to \in Nat
      BY <3>3 DEF Results
    <3>5. results[k].from \in 1..Len(wire) /\ results[k].to \in 1..Len(wire)
      BY <2>1, <3>2, <3>4 DEF FrameIn
    <3> QED
      BY <2>2, <3>2, <3>5 DEF Span
  <2>5. ASSUME NEW f \in Frames
        PROVE  \E k \in Closed : Span(k) = f
    <3>1. PICK s \in 1..Len(wire), e \in 1..Len(wire) : f = <<s, e>> /\ FrameIn(wire, s, e)
      BY <2>2
    <3>2. wire[e] = ETX /\ s < e
      BY <3>1 DEF FrameIn
    <3>3. e \notin Base..Len(wire)
      BY <3>2, NoEndBehind
    <3>4. s \in 1..(Base - 1) /\ e \in 1..(Base - 1)
      BY <2>1, <3>2, <3>3
    <3>5. PICK k \in 1..Len(results) :
            IsClosed(results, k) /\ results[k].from = s /\ results[k].to = e
      BY <2>3, <3>1, <3>4
    <3> QED
      BY <3>1, <3>5 DEF Closed, IsClosed, Span
  <2> QED
    BY <2>4, <2>5
<1> QED
  BY <1>1, StreamInvariant, PTL

(* A parsed record is one accepted piece of the wire, no byte of which is    *)
(* used twice, and no record begun before it was passed over.                *)
THEOREM ParsedIsARecordOfItsOwnCorrect == StreamSpec => []ParsedIsARecordOfItsOwn
<1>1. StreamInv => ParsedIsARecordOfItsOwn
  <2> SUFFICES ASSUME StreamInv
               PROVE  ParsedIsARecordOfItsOwn
    OBVIOUS
  <2>1. /\ \A k \in 1..Len(results) : results[k].kind = "parsed" => Piece(k) \in Records
        /\ \A k \in 1..Len(results), l \in 1..Len(results) : k < l => results[k].to < results[l].from
    BY DEF StreamInv, Told, OrderedIn, ParsedIn, Piece
  <2>2. ASSUME NEW k \in 1..Len(results), results[k].kind = "parsed",
               NEW i \in BegunBefore(results[k].from)
        PROVE  EndedBefore(i, results[k].from) \/ DroppedWhole(i)
    <3>1. NoneOpenIn(wire, results, results[k].from)
      BY <2>2 DEF StreamInv, Told, NonePassedOver
    <3> QED
      BY <3>1 DEF BegunBefore, NoneOpenIn, EndedIn, EndedBefore, DroppedIn, DroppedWhole
  <2> QED
    BY <2>1, <2>2 DEF ParsedIsARecordOfItsOwn
<1> QED
  BY <1>1, StreamInvariant, PTL

(* A good record that follows a terminator is decided, whatever was before. *)
THEOREM SyncedRecordsAreDecidedCorrect == StreamSpec => []SyncedRecordsAreDecided
<1>1. StreamInv => SyncedRecordsAreDecided
  <2> SUFFICES ASSUME StreamInv, stage = "reading"
               PROVE  /\ Len(buffer) <= MaximumBuffer
                      /\ \A i \in 1..(Len(wire) - RecordLength + 1) :
                           (InSync(i) /\ SubSeq(wire, i, i + RecordLength - 1) \in Records) =>
                             \E k \in 1..decided :
                               results[k] = [kind |-> "parsed", from |-> i, to |-> i + RecordLength - 1]
    BY DEF SyncedRecordsAreDecided
  <2>1. Len(buffer) <= MaximumBuffer /\ decided = Len(results)
    BY DEF StreamInv, AtRest
  <2>2. /\ wire \in Seq(Bytes) /\ Len(wire) \in Nat
        /\ Base \in Nat /\ Base >= 1 /\ Base <= Len(wire) + 1
        /\ RecordLength \in Nat /\ RecordLength > 1
    BY Bounds, StreamAssumption DEF StreamInv, StreamTypeOK
  <2>3. ASSUME NEW i \in 1..(Len(wire) - RecordLength + 1),
               InSync(i), SubSeq(wire, i, i + RecordLength - 1) \in Records
        PROVE  \E k \in 1..decided :
                 results[k] = [kind |-> "parsed", from |-> i, to |-> i + RecordLength - 1]
    <3>1. i \in 1..Len(wire) /\ i + RecordLength - 1 <= Len(wire)
      BY <2>2
    <3>2. wire[i + RecordLength - 1] = ETX
      BY <2>2, <2>3, <3>1, RecordShape
    <3>3. i + RecordLength - 1 \notin Base..Len(wire)
      BY <3>2, NoEndBehind
    <3>4. i + RecordLength - 1 < Base
      BY <2>2, <3>1, <3>3
    <3>5. RecordIn(wire, i)
      BY <2>3, <3>1 DEF RecordIn, SyncIn, InSync
    <3> QED
      BY <2>1, <3>1, <3>4, <3>5 DEF StreamInv, Told, CaughtIn, Good
  <2> QED
    BY <2>1, <2>3
<1> QED
  BY <1>1, StreamInvariant, PTL

=============================================================================
