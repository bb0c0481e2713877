-------------------------- MODULE DurableFileProofs --------------------------
(***************************************************************************)
(* The two files that are rewritten while others use them.                 *)
(*                                                                         *)
(* The notification queue of audit.py, for any number of workers and       *)
(* events: as long as no line is bad, what is accepted and not delivered   *)
(* is in the file, whose events stand in the order of their enqueueing; so *)
(* that the first line, which a worker takes, is older than every other    *)
(* accepted event that waits.                                              *)
(*                                                                         *)
(* The authorization file of authorization.py, for any number of           *)
(* installers and reloaders and any contents: it is valid, and the store   *)
(* is whole.                                                               *)
(***************************************************************************)
EXTENDS AuthorizationInstall, NotificationQueue, SequenceLemmas, SequenceTheorems, TLAPS

(* What a line can be. *)
Text == Events \cup {Bad}

(* A file whose lines are events in the order of their enqueueing, or bad,   *)
(* and none that is yet to come.                                             *)
InOrder(file, last) ==
  /\ \A i \in 1..Len(file) : file[i] \in 0..last
  /\ \A i \in 1..Len(file), j \in 1..Len(file) :
       (i < j /\ file[i] # Bad /\ file[j] # Bad) => file[i] < file[j]

(* The file has a line e. *)
In(file, e) == \E i \in 1..Len(file) : file[i] = e

(* No event is accepted or delivered before it was enqueued. *)
Known == accepted \subseteq 1..enqueued /\ delivered \subseteq 1..enqueued

(* While no line is bad nothing that was accepted is lost.                   *)
Keeps(file) == In(file, Bad) \/ \A e \in accepted : e \in delivered \/ In(file, e)

(* What a worker has in its hands has no accepted event before it that is    *)
(* not delivered, and is delivered itself once it was sent.                  *)
Holds(w) ==
  /\ worker[w].sent => worker[w].event \in delivered
  /\ worker[w].event # Nothing =>
       /\ worker[w].event \in 1..enqueued
       /\ \A f \in accepted : f < worker[w].event => f \in delivered

QueueInv ==
  /\ QueueTypeOK
  /\ InOrder(Lines, enqueued)
  /\ Known
  /\ Keeps(Lines)
  /\ \A w \in Workers : Holds(w)
  /\ NoneIsPassedOver

-----------------------------------------------------------------------------
(* The lines a reader sees are lines. *)
LEMMA LinesType ==
  ASSUME QueueTypeOK
  PROVE  Lines \in Seq(Text) /\ lines \in Seq(Text)
<1>1. lines \in Seq(Text) /\ tail \in Text \cup {Nothing}
  BY DEF QueueTypeOK, Text
<1>2. CASE tail = Nothing
  BY <1>1, <1>2 DEF Lines
<1>3. CASE tail # Nothing
  <2>1. tail \in Text
    BY <1>1, <1>3
  <2>2. Append(lines, tail) \in Seq(Text)
    BY <1>1, <2>1
  <2> QED
    BY <1>1, <1>3, <2>2 DEF Lines
<1> QED
  BY <1>2, <1>3

(* A file can be read while it has no bad line. *)
LEMMA ReadableIsIn ==
  ASSUME QueueTypeOK
  PROVE  /\ Readable <=> ~ In(Lines, Bad)
         /\ \A e : e \in Range(Lines) <=> In(Lines, e)
<1>1. Lines \in Seq(Text)
  BY LinesType
<1>2. DOMAIN Lines = 1..Len(Lines)
  BY <1>1
<1> QED
  BY <1>2 DEF Readable, Range, In

(* A line at the end of a file in order: a bad one, or the next event.       *)
LEMMA AppendInOrder ==
  ASSUME NEW file \in Seq(Text), NEW last \in Nat, InOrder(file, last),
         NEW x \in {Bad, last + 1}, x \in Text
  PROVE  /\ InOrder(Append(file, x), last + 1)
         /\ In(Append(file, x), x)
         /\ \A e : In(file, e) => In(Append(file, x), e)
<1>1. PICK g : g = Append(file, x)
  OBVIOUS
<1>2. /\ Len(file) \in Nat /\ Len(g) = Len(file) + 1
      /\ \A i \in 1..Len(file) : g[i] = file[i]
      /\ g[Len(file) + 1] = x
  BY <1>1
<1>3. /\ \A i \in 1..Len(g) : i \in 1..Len(file) \/ i = Len(file) + 1
      /\ \A i \in 1..Len(file) : i \in 1..Len(g)
      /\ Len(file) + 1 \in 1..Len(g)
  BY <1>2
<1>4. \A i \in 1..Len(file) : file[i] \in 0..last
  BY DEF InOrder
<1>5. ASSUME NEW i \in 1..Len(g)
      PROVE  g[i] \in 0..(last + 1)
  <2>1. CASE i \in 1..Len(file)
    <3>1. g[i] \in 0..last
      BY <1>2, <1>4, <2>1
    <3> QED
      BY <3>1
  <2>2. CASE i = Len(file) + 1
    BY <1>2, <2>2 DEF Bad
  <2> QED
    BY <1>3, <2>1, <2>2
<1>6. ASSUME NEW i \in 1..Len(g), NEW j \in 1..Len(g), i < j, g[i] # Bad, g[j] # Bad
      PROVE  g[i] < g[j]
  <2>1. i \in 1..Len(file)
    BY <1>2, <1>6
  <2>2. CASE j \in 1..Len(file)
    BY <1>2, <1>6, <2>1, <2>2 DEF InOrder
  <2>3. CASE j = Len(file) + 1
    <3>1. g[i] \in 0..last /\ g[j] = last + 1
      BY <1>2, <1>4, <1>6, <2>1, <2>3
    <3> QED
      BY <3>1
  <2> QED
    BY <1>3, <2>2, <2>3
<1>7. InOrder(g, last + 1)
  BY <1>5, <1>6 DEF InOrder
<1>8. In(g, x) /\ \A e : In(file, e) => In(g, e)
  BY <1>2, <1>3 DEF In
<1> QED
  BY <1>1, <1>7, <1>8

(* A file in order stays so when the last line is taken off or the numbers   *)
(* go on.                                                                    *)
LEMMA SameInOrder ==
  ASSUME NEW file, NEW last \in Nat, InOrder(file, last)
  PROVE  InOrder(file, last + 1)
<1>1. \A i \in 1..Len(file) : file[i] \in 0..(last + 1)
  <2>1. \A i \in 1..Len(file) : file[i] \in 0..last
    BY DEF InOrder
  <2> QED
    BY <2>1
<1> QED
  BY <1>1 DEF InOrder

(* The file without an event, which has no bad line. *)
LEMMA RewriteInOrder ==
  ASSUME NEW file \in Seq(Text), NEW last \in Nat, InOrder(file, last), NEW id
  PROVE  /\ Dropping(file, {id}) \in Seq(Text)
         /\ InOrder(Dropping(file, {id}), last)
         /\ \A e : (In(file, e) /\ e # id) => In(Dropping(file, {id}), e)
<1>1. /\ Selects(Text, file, Dropping(file, {id}))
      /\ \A k \in 1..Len(file) :
           file[k] \notin {id} =>
             \E i \in 1..Len(Dropping(file, {id})) : Dropping(file, {id})[i] = file[k]
  BY DroppingFacts
<1>2. PICK t : t = Dropping(file, {id})
  OBVIOUS
<1>3. Selects(Text, file, t)
  BY <1>1, <1>2
<1>4. InOrder(t, last)
  <2>1. \A i \in 1..Len(t) : t[i] \in 0..last
    BY <1>3 DEF Selects, InOrder
  <2>2. ASSUME NEW i \in 1..Len(t), NEW j \in 1..Len(t), i < j, t[i] # Bad, t[j] # Bad
        PROVE  t[i] < t[j]
    <3>1. PICK k \in 1..Len(file), l \in 1..Len(file) : k < l /\ t[i] = file[k] /\ t[j] = file[l]
      BY <1>3, <2>2 DEF Selects
    <3> QED
      BY <2>2, <3>1 DEF InOrder
  <2> QED
    BY <2>1, <2>2 DEF InOrder
<1>5. \A e : (In(file, e) /\ e # id) => In(t, e)
  BY <1>1, <1>2 DEF In
<1> QED
  BY <1>2, <1>3, <1>4, <1>5 DEF Selects

-----------------------------------------------------------------------------
(* An empty file is in order. *)
LEMMA QueueInitOK == QueueInit => QueueInv
<1> SUFFICES ASSUME QueueInit
             PROVE  QueueInv
  OBVIOUS
<1>1. QueueTypeOK
  BY QueueAssumption DEF QueueInit, QueueTypeOK, Idle, Nothing, Bad, Events
<1>2. Lines = <<>> /\ enqueued = 0 /\ accepted = {} /\ delivered = {}
  BY DEF QueueInit, Lines
<1>3. InOrder(Lines, enqueued) /\ Known /\ Keeps(Lines) /\ NoneIsPassedOver
  BY <1>2 DEF InOrder, Known, Keeps, NoneIsPassedOver
<1>4. \A w \in Workers : Holds(w)
  BY DEF QueueInit, Holds, Idle
<1> QED
  BY <1>1, <1>3, <1>4 DEF QueueInv

(* The file is what it was; no event is new. *)
LEMMA FileUntouched ==
  ASSUME QueueInv, UNCHANGED <<lines, tail, enqueued, accepted>>,
         delivered \subseteq delivered', delivered' \subseteq 1..enqueued
  PROVE  InOrder(Lines, enqueued)' /\ Known' /\ Keeps(Lines)'
<1>1. Lines' = Lines
  BY DEF Lines
<1> QED
  BY <1>1 DEF QueueInv, InOrder, Known, Keeps, In

(* An event comes, whatever becomes of its line. *)
LEMMA EventComes ==
  ASSUME QueueInv, enqueued' = enqueued + 1, enqueued < MaxEvents,
         accepted' \in {accepted, accepted \cup {enqueued + 1}},
         UNCHANGED <<delivered, worker>>
  PROVE  Known' /\ (\A w \in Workers : Holds(w)') /\ NoneIsPassedOver'
<1>1. enqueued \in Nat /\ accepted \subseteq 1..enqueued /\ delivered \subseteq 1..enqueued
  BY QueueAssumption DEF QueueInv, QueueTypeOK, Known
<1>2. Known'
  BY <1>1 DEF Known
<1>3. ASSUME NEW e \in 1..enqueued, NEW f \in accepted', f < e
      PROVE  f \in accepted
  BY <1>1, <1>3
<1>4. NoneIsPassedOver'
  BY <1>1, <1>3 DEF QueueInv, NoneIsPassedOver
<1>5. ASSUME NEW w \in Workers
      PROVE  Holds(w)'
  <2>1. Holds(w)
    BY DEF QueueInv
  <2>2. worker[w].event # Nothing =>
          worker[w].event \in 1..enqueued' /\ \A f \in accepted' : f < worker[w].event => f \in delivered
    BY <1>1, <1>3, <2>1 DEF Holds
  <2> QED
    BY <2>1, <2>2 DEF Holds
<1> QED
  BY <1>2, <1>4, <1>5

(* The terminated lines alone are in order too. *)
LEMMA TerminatedInOrder ==
  ASSUME QueueInv
  PROVE  InOrder(lines, enqueued)
<1>1. InOrder(Lines, enqueued) /\ lines \in Seq(Text)
  BY LinesType DEF QueueInv
<1>2. CASE tail = Nothing
  BY <1>1, <1>2 DEF Lines
<1>3. CASE tail # Nothing
  <2>1. PICK g : g = Lines
    OBVIOUS
  <2>2. g = Append(lines, tail)
    BY <1>3, <2>1 DEF Lines
  <2>3. Len(lines) \in Nat /\ Len(g) = Len(lines) + 1 /\ \A i \in 1..Len(lines) : g[i] = lines[i]
    BY <1>1, <2>2
  <2>4. \A i \in 1..Len(lines) : i \in 1..Len(g)
    BY <2>3
  <2> QED
    BY <1>1, <2>1, <2>3, <2>4 DEF InOrder
<1> QED
  BY <1>2, <1>3

(* enqueue() adds the next event, or spoils a line left unended. *)
LEMMA EnqueueKeeps ==
  ASSUME QueueInv, NEW e \in Events, Enqueue(e)
  PROVE  QueueInv'
<1>1. /\ enqueued \in Nat /\ enqueued < MaxEvents /\ e = enqueued + 1 /\ enqueued' = enqueued + 1
      /\ MaxEvents \in Nat /\ accepted' \in {accepted, accepted \cup {enqueued + 1}}
      /\ UNCHANGED <<delivered, worker>> /\ tail' = Nothing
      /\ lines' = Append(lines, Appended(e))
  BY QueueAssumption DEF Enqueue, QueueInv, QueueTypeOK
<1>2. lines \in Seq(Text) /\ Lines \in Seq(Text)
  BY LinesType DEF QueueInv
<1>3. Appended(e) \in {Bad, enqueued + 1} /\ Appended(e) \in Text
  BY <1>1 DEF Appended, Text
<1>4. QueueTypeOK'
  <2>1. lines' \in Seq(Text)
    BY <1>1, <1>2, <1>3
  <2>2. enqueued' \in 0..MaxEvents
    BY <1>1
  <2>3. accepted' \in SUBSET Events
    BY <1>1 DEF QueueInv, QueueTypeOK
  <2> QED
    BY <1>1, <2>1, <2>2, <2>3 DEF QueueInv, QueueTypeOK, Text
<1>5. Lines' = Append(lines, Appended(e))
  BY <1>1 DEF Lines
<1>6. InOrder(lines, enqueued)
  BY TerminatedInOrder
<1>7. /\ InOrder(Append(lines, Appended(e)), enqueued + 1)
      /\ In(Append(lines, Appended(e)), Appended(e))
      /\ \A f : In(lines, f) => In(Append(lines, Appended(e)), f)
  BY <1>1, <1>2, <1>3, <1>6, AppendInOrder
<1>8. Keeps(Lines)'
  <2>1. CASE tail = Nothing
    <3>1. Appended(e) = enqueued + 1 /\ Lines = lines
      BY <1>1, <2>1 DEF Appended, Lines
    <3>2. Keeps(lines)
      BY <3>1 DEF QueueInv
    <3>3. In(Append(lines, Appended(e)), enqueued + 1)
      BY <1>7, <3>1
    <3> QED
      BY <1>1, <1>5, <1>7, <3>2, <3>3 DEF Keeps
  <2>2. CASE tail # Nothing
    <3>1. Appended(e) = Bad
      BY <2>2 DEF Appended
    <3> QED
      BY <1>5, <1>7, <3>1 DEF Keeps
  <2> QED
    BY <2>1, <2>2
<1>9. Known' /\ (\A w \in Workers : Holds(w)') /\ NoneIsPassedOver'
  BY <1>1, EventComes
<1>10. InOrder(Lines, enqueued)'
  BY <1>1, <1>5, <1>7
<1> QED
  BY <1>4, <1>8, <1>9, <1>10 DEF QueueInv

(* An append that failed leaves nothing, the event without its newline, or a *)
(* bad line.                                                                 *)
LEMMA EnqueueFailsKeeps ==
  ASSUME QueueInv, NEW e \in Events, EnqueueFails(e)
  PROVE  QueueInv'
<1>1. /\ enqueued \in Nat /\ enqueued < MaxEvents /\ e = enqueued + 1 /\ enqueued' = enqueued + 1
      /\ MaxEvents \in Nat /\ accepted' = accepted
      /\ UNCHANGED <<delivered, worker>> /\ lines' = lines
      /\ tail' \in {tail, Appended(e), Bad}
  BY QueueAssumption DEF EnqueueFails, QueueInv, QueueTypeOK
<1>2. lines \in Seq(Text) /\ Lines \in Seq(Text) /\ InOrder(Lines, enqueued)
  BY LinesType DEF QueueInv
<1>3. Bad # Nothing /\ e # Nothing
  BY <1>1 DEF Bad, Nothing
<1>4. QueueTypeOK'
  <2>1. tail' \in Events \cup {Bad, Nothing}
    BY <1>1 DEF QueueInv, QueueTypeOK, Appended
  <2>2. enqueued' \in 0..MaxEvents
    BY <1>1
  <2> QED
    BY <1>1, <2>1, <2>2 DEF QueueInv, QueueTypeOK
<1>5. Known' /\ (\A w \in Workers : Holds(w)') /\ NoneIsPassedOver'
  BY <1>1, EventComes
<1>6. CASE tail' = tail
  <2>1. Lines' = Lines
    BY <1>1, <1>6 DEF Lines
  <2>2. InOrder(Lines, enqueued)'
    BY <1>1, <1>2, <2>1, SameInOrder
  <2>3. Keeps(Lines)'
    BY <1>1, <2>1 DEF QueueInv, Keeps, In
  <2> QED
    BY <1>4, <1>5, <2>2, <2>3 DEF QueueInv
<1>7. CASE tail' # tail
  <2>1. PICK x \in {Bad, enqueued + 1} : x = tail' /\ (tail # Nothing => x = Bad)
    BY <1>1, <1>7 DEF Appended
  <2>2. x \in Text /\ Lines' = Append(lines, x)
    BY <1>1, <1>3, <2>1 DEF Lines, Text
  <2>3. /\ InOrder(Append(lines, x), enqueued + 1)
        /\ In(Append(lines, x), x)
        /\ \A f : In(lines, f) => In(Append(lines, x), f)
    BY <1>1, <1>2, <2>2, TerminatedInOrder, AppendInOrder
  <2>4. Keeps(Lines)'
    <3>1. CASE x = Bad
      BY <2>2, <2>3, <3>1 DEF Keeps
    <3>2. CASE x # Bad
      <4>1. Lines = lines
        BY <2>1, <3>2 DEF Lines
      <4>2. Keeps(lines)
        BY <4>1 DEF QueueInv
      <4> QED
        BY <1>1, <2>2, <2>3, <4>2 DEF Keeps
    <3> QED
      BY <3>1, <3>2
  <2> QED
    BY <1>1, <1>4, <1>5, <2>2, <2>3, <2>4 DEF QueueInv
<1> QED
  BY <1>6, <1>7

(* The first line of a file without a bad one is the oldest event there.     *)
LEMMA TakeKeeps ==
  ASSUME QueueInv, NEW w \in Workers, Take(w)
  PROVE  QueueInv'
<1>1. /\ Readable /\ Lines # <<>> /\ UNCHANGED <<lines, tail, enqueued, accepted, delivered>>
      /\ worker' = [worker EXCEPT ![w] = [event |-> Head(Lines), sent |-> FALSE]]
  BY DEF Take
<1>2. /\ Lines \in Seq(Text) /\ InOrder(Lines, enqueued) /\ Keeps(Lines)
      /\ ~ In(Lines, Bad) /\ enqueued \in Nat
  BY <1>1, LinesType, ReadableIsIn DEF QueueInv, QueueTypeOK
<1>3. PICK file \in Seq(Text) : file = Lines
  BY <1>2
<1>4. PICK x : x = Head(file)
  OBVIOUS
<1>5. Len(file) \in Nat /\ 1 \in 1..Len(file) /\ x = file[1]
  BY <1>1, <1>3, <1>4, EmptySeq
<1>6. \A i \in 1..Len(file) : file[i] # Bad
  BY <1>2, <1>3 DEF In
<1>7. x \in 1..enqueued
  <2>1. x \in 0..enqueued /\ x # 0
    BY <1>2, <1>3, <1>5, <1>6 DEF InOrder, Bad
  <2> QED
    BY <1>2, <2>1
<1>8. ASSUME NEW f \in accepted, f < x
      PROVE  f \in delivered
  <2>1. SUFFICES ASSUME In(file, f)
                 PROVE  FALSE
    BY <1>2, <1>3 DEF Keeps
  <2>2. PICK i \in 1..Len(file) : file[i] = f
    BY <2>1 DEF In
  <2>3. i # 1
    BY <1>5, <1>7, <1>8, <2>2 DEF QueueInv, Known
  <2>4. 1 < i
    BY <2>3
  <2>5. file[1] < file[i]
    BY <1>2, <1>3, <1>5, <1>6, <2>4 DEF InOrder
  <2>6. f \in 1..enqueued
    BY DEF QueueInv, Known
  <2> QED
    BY <1>2, <1>5, <1>7, <1>8, <2>2, <2>5, <2>6
<1>9. /\ worker \in [Workers -> [event : Events \cup {Nothing}, sent : BOOLEAN]]
      /\ enqueued \in 0..MaxEvents /\ MaxEvents \in Nat
  BY QueueAssumption DEF QueueInv, QueueTypeOK
<1>10. QueueTypeOK'
  <2>1. x \in Events
    BY <1>7, <1>9 DEF Events
  <2>2. [event |-> x, sent |-> FALSE] \in [event : Events \cup {Nothing}, sent : BOOLEAN]
    BY <2>1
  <2>3. worker' \in [Workers -> [event : Events \cup {Nothing}, sent : BOOLEAN]]
    BY <1>1, <1>3, <1>4, <1>9, <2>2
  <2> QED
    BY <1>1, <2>3 DEF QueueInv, QueueTypeOK
<1>11. ASSUME NEW v \in Workers
       PROVE  Holds(v)'
  <2>1. CASE v = w
    <3>1. worker'[v] = [event |-> x, sent |-> FALSE]
      BY <1>1, <1>3, <1>4, <1>9, <2>1
    <3>2. worker'[v].event = x /\ worker'[v].sent = FALSE
      BY <3>1
    <3> QED
      BY <1>1, <1>7, <1>8, <3>2 DEF Holds
  <2>2. CASE v # w
    <3>1. worker'[v] = worker[v]
      BY <1>1, <1>9, <2>2
    <3> QED
      BY <1>1, <3>1 DEF QueueInv, Holds
  <2> QED
    BY <2>1, <2>2
<1>12. InOrder(Lines, enqueued)' /\ Known' /\ Keeps(Lines)'
  BY <1>1, FileUntouched DEF QueueInv, Known
<1>13. NoneIsPassedOver'
  BY <1>1 DEF QueueInv, NoneIsPassedOver
<1> QED
  BY <1>10, <1>11, <1>12, <1>13 DEF QueueInv

(* The endpoint is given what nothing accepted before it still waits for.    *)
LEMMA DeliverKeeps ==
  ASSUME QueueInv, NEW w \in Workers, Deliver(w)
  PROVE  QueueInv'
<1>1. /\ worker \in [Workers -> [event : Events \cup {Nothing}, sent : BOOLEAN]]
      /\ enqueued \in 0..MaxEvents /\ MaxEvents \in Nat
      /\ UNCHANGED <<lines, tail, enqueued, accepted>>
      /\ worker[w] # Idle /\ ~ worker[w].sent
  BY QueueAssumption DEF QueueInv, QueueTypeOK, Deliver
<1>2. PICK e : e = worker[w].event
  OBVIOUS
<1>3. e # Nothing
  <2>1. worker[w] \in [event : Events \cup {Nothing}, sent : BOOLEAN]
    BY <1>1
  <2>2. worker[w].event = Nothing => worker[w] = Idle
    BY <1>1, <2>1 DEF Idle
  <2> QED
    BY <1>1, <1>2, <2>2
<1>4. e \in 1..enqueued /\ \A f \in accepted : f < e => f \in delivered
  BY <1>2, <1>3 DEF QueueInv, Holds
<1>5. delivered' \in {delivered, delivered \cup {e}}
  BY <1>2 DEF Deliver
<1>6. \/ worker' = [worker EXCEPT ![w].sent = TRUE] /\ delivered' = delivered \cup {e}
      \/ worker' = [worker EXCEPT ![w] = Idle]
  BY <1>2 DEF Deliver
<1>7. QueueTypeOK'
  <2>1. Idle \in [event : Events \cup {Nothing}, sent : BOOLEAN]
    BY DEF Idle
  <2>2. worker' \in [Workers -> [event : Events \cup {Nothing}, sent : BOOLEAN]]
    <3>1. CASE worker' = [worker EXCEPT ![w].sent = TRUE]
      BY <1>1, <3>1
    <3>2. CASE worker' = [worker EXCEPT ![w] = Idle]
      BY <1>1, <2>1, <3>2
    <3> QED
      BY <1>6, <3>1, <3>2
  <2>3. e \in Events
    BY <1>1, <1>4 DEF Events
  <2>4. delivered' \in SUBSET Events
    BY <1>5, <2>3 DEF QueueInv, QueueTypeOK
  <2> QED
    BY <1>1, <2>2, <2>4 DEF QueueInv, QueueTypeOK
<1>8. ASSUME NEW v \in Workers
      PROVE  Holds(v)'
  <2>1. CASE v # w
    <3>1. worker'[v] = worker[v]
      BY <1>1, <1>6, <2>1
    <3> QED
      BY <1>1, <1>5, <3>1 DEF QueueInv, Holds
  <2>2. CASE v = w /\ worker' = [worker EXCEPT ![w].sent = TRUE] /\ delivered' = delivered \cup {e}
    <3>1. worker'[v].event = e
      BY <1>1, <1>2, <2>2
    <3> QED
      BY <1>1, <1>4, <2>2, <3>1 DEF Holds
  <2>3. CASE v = w /\ worker' = [worker EXCEPT ![w] = Idle]
    <3>1. worker'[v] = Idle
      BY <1>1, <2>3
    <3>2. worker'[v].event = Nothing /\ worker'[v].sent = FALSE
      BY <3>1 DEF Idle
    <3>3. Nothing' = Nothing
      OBVIOUS
    <3> QED
      BY <3>2 DEF Holds
  <2> QED
    BY <1>6, <2>1, <2>2, <2>3
<1>9. InOrder(Lines, enqueued)' /\ Known' /\ Keeps(Lines)'
  <2>1. delivered \subseteq delivered' /\ delivered' \subseteq 1..enqueued
    BY <1>4, <1>5 DEF QueueInv, Known
  <2> QED
    BY <1>1, <2>1, FileUntouched
<1>10. NoneIsPassedOver'
  BY <1>1, <1>4, <1>5 DEF QueueInv, NoneIsPassedOver
<1> QED
  BY <1>7, <1>8, <1>9, <1>10 DEF QueueInv

(* A worker that is idle again, whatever it held. *)
LEMMA IdleKeeps ==
  ASSUME QueueInv, UNCHANGED <<enqueued, accepted, delivered>>,
         worker' \in [Workers -> [event : Events \cup {Nothing}, sent : BOOLEAN]],
         \A v \in Workers : worker'[v] \in {worker[v], Idle}
  PROVE  \A v \in Workers : Holds(v)'
<1>1. SUFFICES ASSUME NEW v \in Workers
               PROVE  Holds(v)'
  OBVIOUS
<1>2. CASE worker'[v] = worker[v]
  BY <1>2 DEF QueueInv, Holds
<1>3. CASE worker'[v] = Idle
  <2>1. worker'[v].event = Nothing /\ worker'[v].sent = FALSE
    BY <1>3 DEF Idle
  <2> QED
    BY <2>1 DEF Holds
<1> QED
  BY <1>2, <1>3

(* Only a delivered event is taken out of the file. *)
LEMMA MarkKeeps ==
  ASSUME QueueInv, NEW w \in Workers, MarkDelivered(w)
  PROVE  QueueInv'
<1>1. /\ worker \in [Workers -> [event : Events \cup {Nothing}, sent : BOOLEAN]]
      /\ UNCHANGED <<enqueued, accepted, delivered>>
      /\ worker[w].sent /\ worker' = [worker EXCEPT ![w] = Idle]
      /\ Idle \in [event : Events \cup {Nothing}, sent : BOOLEAN]
      /\ enqueued \in Nat
  BY DEF QueueInv, QueueTypeOK, MarkDelivered, Idle
<1>2. worker' \in [Workers -> [event : Events \cup {Nothing}, sent : BOOLEAN]]
  BY <1>1
<1>3. \A v \in Workers : Holds(v)'
  <2>1. \A v \in Workers : worker'[v] \in {worker[v], Idle}
    BY <1>1
  <2> QED
    BY <1>1, <1>2, <2>1, IdleKeeps
<1>4. NoneIsPassedOver' /\ Known'
  BY <1>1 DEF QueueInv, NoneIsPassedOver, Known
<1>5. PICK id : id = worker[w].event /\ id \in delivered
  BY <1>1 DEF QueueInv, Holds
<1>6. CASE Readable /\ lines' = Remaining(id) /\ tail' = Nothing
  <2>1. Lines' = Dropping(Lines, {id})
    BY <1>6 DEF Lines, Remaining
  <2>2. /\ Lines \in Seq(Text) /\ InOrder(Lines, enqueued) /\ Keeps(Lines) /\ ~ In(Lines, Bad)
    BY <1>6, LinesType, ReadableIsIn DEF QueueInv
  <2>3. /\ Dropping(Lines, {id}) \in Seq(Text)
        /\ InOrder(Dropping(Lines, {id}), enqueued)
        /\ \A e : (In(Lines, e) /\ e # id) => In(Dropping(Lines, {id}), e)
    BY <1>1, <2>2, RewriteInOrder
  <2>4. Keeps(Lines)'
    <3>1. \A e \in accepted : e \in delivered \/ In(Dropping(Lines, {id}), e)
      BY <1>5, <2>2, <2>3 DEF Keeps
    <3> QED
      BY <1>1, <2>1, <3>1 DEF Keeps
  <2>5. QueueTypeOK'
    <3>1. lines' \in Seq(Text)
      BY <1>6, <2>3 DEF Remaining
    <3> QED
      BY <1>1, <1>2, <1>6, <3>1 DEF QueueInv, QueueTypeOK, Text
  <2> QED
    BY <1>1, <1>3, <1>4, <2>1, <2>3, <2>4, <2>5 DEF QueueInv
<1>7. CASE UNCHANGED <<lines, tail>>
  <2>1. InOrder(Lines, enqueued)' /\ Keeps(Lines)'
    BY <1>1, <1>7, FileUntouched DEF QueueInv, Known
  <2>2. QueueTypeOK'
    BY <1>1, <1>2, <1>7 DEF QueueInv, QueueTypeOK
  <2> QED
    BY <1>3, <1>4, <2>1, <2>2 DEF QueueInv
<1> QED
  BY <1>5, <1>6, <1>7 DEF MarkDelivered

(* A restart forgets what the workers hold. *)
LEMMA RestartKeeps ==
  ASSUME QueueInv, Restart \/ UNCHANGED queueVars
  PROVE  QueueInv'
<1>1. /\ UNCHANGED <<lines, tail, enqueued, accepted, delivered>>
      /\ worker' \in [Workers -> [event : Events \cup {Nothing}, sent : BOOLEAN]]
      /\ \A v \in Workers : worker'[v] \in {worker[v], Idle}
  <2>1. worker \in [Workers -> [event : Events \cup {Nothing}, sent : BOOLEAN]]
    BY DEF QueueInv, QueueTypeOK
  <2>2. Idle \in [event : Events \cup {Nothing}, sent : BOOLEAN]
    BY DEF Idle
  <2>3. UNCHANGED <<lines, tail, enqueued, accepted, delivered>>
    BY DEF Restart, queueVars
  <2>4. worker' \in {worker, [v \in Workers |-> Idle]}
    BY DEF Restart, queueVars
  <2> QED
    BY <2>1, <2>2, <2>3, <2>4
<1>2. InOrder(Lines, enqueued)' /\ Known' /\ Keeps(Lines)'
  BY <1>1, FileUntouched DEF QueueInv, Known
<1>3. QueueTypeOK' /\ NoneIsPassedOver'
  BY <1>1 DEF QueueInv, QueueTypeOK, NoneIsPassedOver
<1>4. \A v \in Workers : Holds(v)'
  BY <1>1, IdleKeeps
<1> QED
  BY <1>2, <1>3, <1>4 DEF QueueInv

(* QueueInv is inductive. *)
LEMMA QueueStep == QueueInv /\ [QueueNext]_queueVars => QueueInv'
BY EnqueueKeeps, EnqueueFailsKeeps, TakeKeeps, DeliverKeeps, MarkKeeps, RestartKeeps
DEF QueueNext

(* The file is in order, and what is accepted and not delivered is in it,    *)
(* for any number of workers and events.                                     *)
THEOREM QueueInvariant == QueueSpec => []QueueInv
<1> QED
  BY QueueInitOK, QueueStep, PTL DEF QueueSpec

(* No failed write, restart or second worker loses an accepted event while   *)
(* no append has been torn.                                                  *)
THEOREM UntornIsKeptCorrect == QueueSpec => []UntornIsKept
<1>1. QueueInv => UntornIsKept
  BY ReadableIsIn DEF QueueInv, Keeps, UntornIsKept, AcceptedIsKept
<1> QED
  BY <1>1, QueueInvariant, PTL

(* The endpoint never has an event and not an accepted one before it.        *)
THEOREM NoneIsPassedOverCorrect == QueueSpec => []NoneIsPassedOver
<1>1. QueueInv => NoneIsPassedOver
  BY DEF QueueInv
<1> QED
  BY <1>1, QueueInvariant, PTL

(* The file holds each event once and in the order of their enqueueing, also *)
(* after every rewrite (audit.py:229, 248).                                  *)
THEOREM FileIsInOrderCorrect == QueueSpec => []FileIsInOrder
<1>1. QueueInv => FileIsInOrder
  <2> SUFFICES ASSUME QueueInv
               PROVE  FileIsInOrder
    OBVIOUS
  <2>1. DOMAIN Lines = 1..Len(Lines)
    BY LinesType DEF QueueInv
  <2> QED
    BY <2>1 DEF QueueInv, InOrder, FileIsInOrder
<1> QED
  BY <1>1, QueueInvariant, PTL

-----------------------------------------------------------------------------
(* A file is replaced only by one that was validated after its copy, and     *)
(* what a reload holds was live and valid when it was read.                  *)
ValidatedIsValid ==
  \A i \in Installers : pc[i] = "validated" => temp[i] \in Valid \cup {Absent}

LoadedWasLive ==
  \A r \in Reloaders : loaded[r] \in (installed \cap Valid) \cup {Absent}

StoredWasLive == store.records \in (installed \cap Valid) \cup {Absent}

InstallInv ==
  /\ TypeOK
  /\ DestinationIsValid
  /\ destination \in installed
  /\ ValidatedIsValid
  /\ LoadedWasLive
  /\ StoredWasLive

USE DEF TypeOK, DestinationIsValid, ValidatedIsValid, LoadedWasLive, StoredWasLive

-----------------------------------------------------------------------------
(* The invariant holds at the start (authorization.py:90). *)
LEMMA InstallInitOK == Init => InstallInv
  BY InstallAssumption DEF Init, InstallInv, Stages

(* No stage of an installer breaks it (authorization.py:129-197). *)
LEMMA InstallKeeps ==
  ASSUME InstallInv, NEW i \in Installers, Install(i)
  PROVE  InstallInv'
<1> USE DEF Goes, Stages
<1>1. CASE ValidateCandidate(i)
  BY <1>1 DEF InstallInv, ValidateCandidate
<1>2. CASE CleanAbandoned(i)
  BY <1>2 DEF InstallInv, CleanAbandoned
<1>3. CASE CopyCandidate(i)
  BY <1>3 DEF InstallInv, CopyCandidate
<1>4. CASE ValidateTemporary(i)
  BY <1>4 DEF InstallInv, ValidateTemporary
<1>5. CASE Replace(i)
  BY <1>5, InstallAssumption DEF InstallInv, Replace
<1>6. CASE InstallFails(i)
  BY <1>6 DEF InstallInv, InstallFails
<1> QED
  BY <1>1, <1>2, <1>3, <1>4, <1>5, <1>6 DEF Install

(* No step of a reload does (authorization.py:102-108). *)
LEMMA ReloadKeeps ==
  ASSUME InstallInv, NEW r \in Reloaders, Reload(r)
  PROVE  InstallInv'
<1>1. CASE LoadDestination(r)
  BY <1>1 DEF InstallInv, LoadDestination
<1>2. CASE PublishLoaded(r)
  BY <1>2 DEF InstallInv, PublishLoaded
<1>3. CASE ReloadFails(r)
  BY <1>3 DEF InstallInv, ReloadFails
<1> QED
  BY <1>1, <1>2, <1>3 DEF Reload

(* InstallInv is inductive. *)
LEMMA InstallStep == InstallInv /\ [Next]_vars => InstallInv'
<1> SUFFICES ASSUME InstallInv, [Next]_vars PROVE InstallInv'
  OBVIOUS
<1>1. CASE \E i \in Installers : Install(i)
  BY <1>1, InstallKeeps
<1>2. CASE \E r \in Reloaders : Reload(r)
  BY <1>2, ReloadKeeps
<1>3. CASE NewCandidate
  BY <1>3 DEF InstallInv, NewCandidate
<1>4. CASE UNCHANGED vars
  BY <1>4 DEF InstallInv, vars
<1> QED
  BY <1>1, <1>2, <1>3, <1>4 DEF Next

(* The strengthened invariant holds in every reachable state. *)
THEOREM InstallInvariant == Spec => []InstallInv
<1> QED BY InstallInitOK, InstallStep, PTL DEF Spec

(* FR-016, AC-016: the live authorization file is always one the parser      *)
(* accepts (authorization.py:183).                                           *)
THEOREM DestinationIsValidCorrect == Spec => []DestinationIsValid
<1>1. InstallInv => DestinationIsValid
  BY DEF InstallInv
<1> QED BY <1>1, InstallInvariant, PTL

(* What one step may do to the store (authorization.py:102-108). *)
LEMMA StoreStep ==
  ASSUME InstallInv, [Next]_vars
  PROVE  \/ UNCHANGED store
         \/ /\ store'.records \in installed \cap Valid
            /\ store'.records # Absent
<1>1. CASE \E i \in Installers : Install(i)
  BY <1>1 DEF Install, ValidateCandidate, CleanAbandoned, CopyCandidate,
     ValidateTemporary, Replace, InstallFails
<1>2. CASE \E r \in Reloaders : Reload(r)
  BY <1>2 DEF Reload, LoadDestination, PublishLoaded, ReloadFails, InstallInv
<1>3. CASE NewCandidate
  BY <1>3 DEF NewCandidate
<1>4. CASE UNCHANGED vars
  BY <1>4 DEF vars
<1> QED
  BY <1>1, <1>2, <1>3, <1>4 DEF Next

(* AC-016: the store only ever holds what was live as a whole, and is never  *)
(* emptied by a reload that fails (authorization.py:102-108).                *)
THEOREM StoreIsWholeCorrect == Spec => StoreIsWhole
<1>1. InstallInv /\ [Next]_vars =>
        [/\ store'.records \in (installed \cap Valid) \cup {Absent}
         /\ store.records # Absent => store'.records # Absent]_vars
  BY StoreStep DEF InstallInv
<1> QED BY <1>1, InstallInvariant, PTL DEF Spec, StoreIsWhole

=============================================================================
