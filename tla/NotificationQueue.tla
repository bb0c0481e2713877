-------------------------- MODULE NotificationQueue --------------------------
(***************************************************************************)
(* DurableNotificationQueue and NotificationWorker of audit.py: one file,  *)
(* a JSON object per line, appended to by the controller and rewritten     *)
(* when a worker has delivered its first event.  The queue's lock makes    *)
(* each operation one step; a write may fail and the process may be killed *)
(* in the middle of one.  A worker's reading, delivering and marking are   *)
(* three steps: it holds no lock between them.                             *)
(***************************************************************************)
EXTENDS Filtering, SequencesExt

CONSTANTS
  Workers,     \* threads that call deliver_one()
  MaxEvents    \* bound: events 1..MaxEvents are enqueued, in this order

ASSUME QueueAssumption == MaxEvents \in Nat

Events  == 1..MaxEvents
Bad     == 0               \* a line that is not JSON
Nothing == MaxEvents + 1   \* the file ends with a newline; no event

VARIABLES
  lines,      \* the terminated lines of the file
  tail,       \* what follows the last newline
  enqueued,   \* the events enqueue() was called with: 1..enqueued
  accepted,   \* those for which it returned
  delivered,  \* those the endpoint took
  worker      \* per worker: the event in its hands, and whether it is delivered

queueVars == <<lines, tail, enqueued, accepted, delivered, worker>>

Idle == [event |-> Nothing, sent |-> FALSE]

QueueInit ==
  /\ lines = <<>>
  /\ tail = Nothing
  /\ enqueued = 0
  /\ accepted = {}
  /\ delivered = {}
  /\ worker = [w \in Workers |-> Idle]

-----------------------------------------------------------------------------
(* What a reader of the file sees: splitlines() does not mind a last line    *)
(* without its newline.                                                      *)
Lines == IF tail = Nothing THEN lines ELSE Append(lines, tail)

(* json.loads accepts every line; otherwise pending() raises. *)
Readable == Bad \notin Range(Lines)

(* Text is appended at the end of the file, be that in the middle of a line. *)
Appended(text) == IF tail = Nothing THEN text ELSE Bad

-----------------------------------------------------------------------------
(* enqueue(): the line is there and the call returns, or its fsync raises.   *)
Enqueue(e) ==
  /\ enqueued < MaxEvents /\ e = enqueued + 1
  /\ enqueued' = e
  /\ lines' = Append(lines, Appended(e))
  /\ tail' = Nothing
  /\ \/ accepted' = accepted \cup {e}
     \/ UNCHANGED accepted
  /\ UNCHANGED <<delivered, worker>>

(* enqueue() that raised, having written nothing, or all but the newline, or *)
(* a part of its line.                                                       *)
EnqueueFails(e) ==
  /\ enqueued < MaxEvents /\ e = enqueued + 1
  /\ enqueued' = e
  /\ \/ UNCHANGED tail
     \/ tail' \in {Appended(e), Bad}
  /\ UNCHANGED <<lines, accepted, delivered, worker>>

-----------------------------------------------------------------------------
(* Mutant: the newest event is taken first. *)
MutTake(w) ==
  /\ worker[w] = Idle
  /\ Readable /\ Lines # <<>>
  /\ worker' = [worker EXCEPT ![w] = [event |-> Last(Lines), sent |-> FALSE]]
  /\ UNCHANGED <<lines, tail, enqueued, accepted, delivered>>

(* deliver_one(): event = pending[0]. *)
Take(w) ==
  /\ worker[w] = Idle
  /\ Readable /\ Lines # <<>>
  /\ worker' = [worker EXCEPT ![w] = [event |-> Head(Lines), sent |-> FALSE]]
  /\ UNCHANGED <<lines, tail, enqueued, accepted, delivered>>

(* The endpoint takes it, or raises, perhaps having taken it. *)
Deliver(w) ==
  /\ worker[w] # Idle /\ ~ worker[w].sent
  /\ \/ /\ delivered' = delivered \cup {worker[w].event}
        /\ worker' = [worker EXCEPT ![w].sent = TRUE]
     \/ /\ delivered' \in {delivered, delivered \cup {worker[w].event}}
        /\ worker' = [worker EXCEPT ![w] = Idle]
  /\ UNCHANGED <<lines, tail, enqueued, accepted>>

(* Mutant: the first line is dropped, whatever it is. *)
MutRemaining(id) == IF Lines = <<>> THEN <<>> ELSE Tail(Lines)

Remaining(id) == Dropping(Lines, {id})

(* mark_delivered(): the file is replaced by one without the event; or the   *)
(* read, the write or the replacement raises and it stays as it is.          *)
MarkDelivered(w) ==
  /\ worker[w].sent
  /\ \/ /\ Readable
        /\ lines' = Remaining(worker[w].event)
        /\ tail' = Nothing
     \/ UNCHANGED <<lines, tail>>
  /\ worker' = [worker EXCEPT ![w] = Idle]
  /\ UNCHANGED <<enqueued, accepted, delivered>>

(* The process is killed and started again.  Killed in an append it leaves   *)
(* what EnqueueFails leaves; killed in a rewrite, the file as it was.        *)
Restart ==
  /\ worker' = [w \in Workers |-> Idle]
  /\ UNCHANGED <<lines, tail, enqueued, accepted, delivered>>

QueueNext ==
  \/ \E e \in Events : Enqueue(e) \/ EnqueueFails(e)
  \/ \E w \in Workers : Take(w) \/ Deliver(w) \/ MarkDelivered(w)
  \/ Restart

QueueSpec == QueueInit /\ [][QueueNext]_queueVars

-----------------------------------------------------------------------------
QueueTypeOK ==
  /\ lines \in Seq(Events \cup {Bad})
  /\ tail \in Events \cup {Bad, Nothing}
  /\ enqueued \in 0..MaxEvents
  /\ accepted \in SUBSET Events
  /\ delivered \in SUBSET Events
  /\ worker \in [Workers -> [event : Events \cup {Nothing}, sent : BOOLEAN]]

(* FR-018: an event whose enqueue() returned can be read from the file until *)
(* the endpoint has taken it, whatever fails and whenever the process is     *)
(* restarted.                                                                *)
AcceptedIsKept ==
  \A e \in accepted : e \in delivered \/ e \in Range(Lines)

(* The same while no append has been torn: then no failure of another write, *)
(* no restart and no second worker loses it.                                 *)
UntornIsKept == Readable => AcceptedIsKept

(* FR-018: delivery does not advance past an event that failed: what the     *)
(* endpoint has taken has no accepted event before it that it has not.       *)
NoneIsPassedOver ==
  \A e \in delivered : \A f \in accepted : f < e => f \in delivered

(* The file holds each event once, in the order of their enqueueing, and so  *)
(* does it after every rewrite (audit.py:229, 248).                          *)
FileIsInOrder ==
  \A i, j \in DOMAIN Lines :
    i < j /\ Lines[i] # Bad /\ Lines[j] # Bad => Lines[i] < Lines[j]

=============================================================================
