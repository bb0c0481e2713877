----------------------- MODULE HardwareServiceProofs -----------------------
(***************************************************************************)
(* Theorems about the controller, the control thread that drives it and    *)
(* what the thread publishes, for every policy, release time, backoff and  *)
(* batch the code accepts.                                                 *)
(*                                                                         *)
(* The controller: a call on the relay port moves the pin only as          *)
(* commanded, and can succeed only on a channel that is set up and not     *)
(* given back (CommandFacts, CleanupFacts); an ended method leaves at      *)
(* least what it appended in the audit database (EndsFacts); and the       *)
(* safety invariants together, with what the states say of the channel     *)
(* (RelayShape), are inductive (IInv).                                     *)
(*                                                                         *)
(* The thread: every step of it is a call of the controller, which keeps   *)
(* IInv (StepKeepsIInv), or leaves the controller alone; a call that does  *)
(* not raise has lost no audit event, so that the loop is only ever in a   *)
(* state in which none was lost; and a call that blocks uses up what is    *)
(* left of the time between two ticks (Timely, in HostInv).                *)
(***************************************************************************)
EXTENDS StatusSnapshot, EscalationTrackerProofs

-----------------------------------------------------------------------------
(* The controller.                                                           *)

(* An outcome is the one success or one of the failures. *)
LEMMA OutcomeCases ==
  ASSUME NEW good, NEW bad,
         NEW c \in {[ok |-> TRUE, relay |-> good]} \cup [ok : {FALSE}, relay : bad]
  PROVE  \/ c.ok = TRUE /\ c.relay = good
         \/ c.ok = FALSE /\ c.relay \in bad
<1>1. CASE c = [ok |-> TRUE, relay |-> good]
  BY <1>1
<1>2. CASE c \in [ok : {FALSE}, relay : bad]
  <2>1. c.ok = FALSE /\ c.relay \in bad
    BY <1>2
  <2> QED
    BY <2>1
<1> QED
  BY <1>1, <1>2

(* command(): the channel is not touched, the pin goes nowhere but to the    *)
(* commanded level, and success means it is there and could be driven.       *)
LEMMA CommandFacts ==
  ASSUME NEW r \in Relays, NEW level \in {"low", "high"},
         NEW c \in CommandOutcomes(r, level)
  PROVE  /\ c.ok \in BOOLEAN
         /\ c.relay \in Relays
         /\ c.relay.channel = r.channel /\ c.relay.closed = r.closed
         /\ c.relay.pin \in {r.pin, level}
         /\ c.ok => Usable(r) /\ c.relay.pin = level
         /\ ~ Usable(r) => c.relay = r
<1> DEFINE driven == [r EXCEPT !.pin = level]
<1>1. /\ driven \in Relays
      /\ driven.pin = level /\ driven.channel = r.channel /\ driven.closed = r.closed
  BY DEF Relays, Pins
<1>2. CASE ~ Usable(r)
  <2>1. c.ok = FALSE /\ c.relay = r
    BY <1>2 DEF CommandOutcomes
  <2> QED
    BY <1>2, <2>1
<1>3. CASE Usable(r)
  <2>1. c \in {[ok |-> TRUE, relay |-> driven]} \cup [ok : {FALSE}, relay : {r, driven}]
    BY <1>3 DEF CommandOutcomes
  <2> HIDE DEF driven
  <2>2. \/ c.ok = TRUE /\ c.relay = driven
        \/ c.ok = FALSE /\ c.relay \in {r, driven}
    BY <2>1, OutcomeCases
  <2> QED
    BY <1>1, <1>3, <2>2
<1> QED
  BY <1>2, <1>3

(* cleanup(): never drives the pin HIGH; on a channel in use, success means  *)
(* that it was given back.                                                   *)
LEMMA CleanupFacts ==
  ASSUME NEW r \in Relays, NEW c \in CleanupOutcomes(r), r.closed => r.pin = "input"
  PROVE  /\ c.ok \in BOOLEAN
         /\ c.relay \in Relays
         /\ c.relay.channel = r.channel
         /\ c.relay.pin \in {r.pin, "low", "input"}
         /\ r.closed => c.relay = r
         /\ c.relay.closed => c.relay.pin = "input" /\ (r.closed \/ Usable(r))
         /\ c.ok /\ Usable(r) => c.relay.closed /\ c.relay.pin = "input"
<1> DEFINE done    == [r EXCEPT !.pin = "input", !.closed = TRUE]
           at(p)   == [r EXCEPT !.pin = p]
           kept    == {at(p) : p \in {r.pin, "low", "input"}}
<1>1. /\ done \in Relays
      /\ done.pin = "input" /\ done.channel = r.channel /\ done.closed = TRUE
  BY DEF Relays, Pins
<1>2. \A q \in kept :
         /\ q \in Relays
         /\ q.pin \in {r.pin, "low", "input"} /\ q.channel = r.channel /\ q.closed = r.closed
  BY DEF Relays, Pins
<1>3. CASE ~ Usable(r)
  <2>1. c.ok = TRUE /\ c.relay = r
    BY <1>3 DEF CleanupOutcomes
  <2> QED
    BY <1>3, <2>1 DEF Relays
<1>4. CASE Usable(r)
  <2>1. c \in {[ok |-> TRUE, relay |-> done], [ok |-> FALSE, relay |-> done]}
              \cup [ok : {FALSE}, relay : kept]
    BY <1>4 DEF CleanupOutcomes
  <2> HIDE DEF done, kept
  <2>2. \/ c = [ok |-> TRUE, relay |-> done]
        \/ c = [ok |-> FALSE, relay |-> done]
        \/ c \in [ok : {FALSE}, relay : kept]
    BY <2>1
  <2>3. r.closed = FALSE
    BY <1>4 DEF Usable, Relays
  <2>4. CASE c \in {[ok |-> TRUE, relay |-> done], [ok |-> FALSE, relay |-> done]}
    <3>1. c.ok \in BOOLEAN /\ c.relay = done
      <4>1. CASE c = [ok |-> TRUE, relay |-> done]
        BY <4>1
      <4>2. CASE c = [ok |-> FALSE, relay |-> done]
        BY <4>2
      <4> QED
        BY <2>4, <4>1, <4>2
    <3> QED
      BY <1>1, <1>4, <2>3, <3>1
  <2>5. CASE c \in [ok : {FALSE}, relay : kept]
    <3>1. c.ok = FALSE /\ c.relay \in kept
      BY <2>5
    <3> QED
      BY <1>2, <1>4, <2>3, <3>1
  <2> QED
    BY <2>2, <2>4, <2>5
<1> QED
  BY <1>3, <1>4

(* setup() of an adapter never set up: success leaves a usable LOW channel,  *)
(* failure does not leave the pin HIGH.                                      *)
LEMMA SetupFacts ==
  ASSUME NEW s \in SetupOutcomes(NewRelay)
  PROVE  /\ s.ok \in BOOLEAN
         /\ s.relay \in Relays
         /\ s.relay.pin # "high" /\ ~ s.relay.closed
         /\ s.ok => Usable(s.relay)
         /\ ~ s.ok => ~ s.relay.channel
<1> DEFINE ready == [pin |-> "low", channel |-> TRUE, closed |-> FALSE]
           low   == [NewRelay EXCEPT !.pin = "low"]
<1>1. s \in {[ok |-> TRUE, relay |-> ready]} \cup [ok : {FALSE}, relay : {NewRelay, low}]
  BY DEF SetupOutcomes, NewRelay
<1>2. /\ NewRelay \in Relays /\ NewRelay.pin = "input"
      /\ NewRelay.channel = FALSE /\ NewRelay.closed = FALSE
  BY DEF NewRelay, Relays, Pins
<1>3. low \in Relays /\ low.pin = "low" /\ low.channel = FALSE /\ low.closed = FALSE
  BY DEF NewRelay, Relays, Pins
<1>4. /\ ready \in Relays /\ ready.pin = "low"
      /\ ready.channel = TRUE /\ ready.closed = FALSE
  BY DEF Relays, Pins
<1> HIDE DEF ready, low
<1>5. \/ s.ok = TRUE /\ s.relay = ready
      \/ s.ok = FALSE /\ s.relay \in {NewRelay, low}
  BY <1>1, OutcomeCases
<1> QED
  BY <1>2, <1>3, <1>4, <1>5 DEF Usable

(* Appending keeps what a sequence has, and adds the new event to it. *)
LEMMA HasAppend ==
  ASSUME NEW s \in Seq(EventTypes), NEW e \in EventTypes
  PROVE  /\ Append(s, e) \in Seq(EventTypes)
         /\ Has(Append(s, e), e)
         /\ \A f : Has(s, f) => Has(Append(s, e), f)
<1>1. /\ Append(s, e) \in Seq(EventTypes)
      /\ Len(Append(s, e)) = Len(s) + 1
      /\ \A i \in 1..Len(s) : Append(s, e)[i] = s[i]
      /\ Append(s, e)[Len(s) + 1] = e
  BY AppendProperties
<1>2. DOMAIN s = 1..Len(s) /\ DOMAIN Append(s, e) = 1..(Len(s) + 1) /\ Len(s) \in Nat
  BY <1>1
<1> QED
  BY <1>1, <1>2 DEF Has

(* What the caller sees is well-formed and the audit database forgets nothing. *)
Remembers ==
  /\ call' \in Calls /\ past' \in Pasts
  /\ past.auditLost => past'.auditLost
  /\ past.faultRecorded => past'.faultRecorded

(* However a method ends, the audit database forgets nothing, and gains the  *)
(* events of the method.                                                     *)
LEMMA EndsFacts ==
  ASSUME past \in Pasts, NEW audited \in Seq(EventTypes), NEW how, Ends(audited, how)
  PROVE  /\ Remembers
         /\ call'.audited = audited
         /\ how = "append_raises" => past'.auditLost
         /\ Has(audited, "relay_control_error") => past'.faultRecorded
BY DEF Ends, Calls, Pasts, Remembers

(* The same of a method that ends with one more audit event. *)
LEMMA AuditThenEndsFacts ==
  ASSUME past \in Pasts, NEW audited \in Seq(EventTypes), NEW event \in EventTypes,
         NEW how, AuditThenEnds(audited, event, how)
  PROVE  /\ Remembers
         /\ call'.audited \in {audited, Append(audited, event)}
         /\ event = "relay_control_error" => past'.faultRecorded \/ past'.auditLost
         /\ Has(audited, "relay_control_error") => past'.faultRecorded
<1>1. Append(audited, event) \in Seq(EventTypes) /\ Has(Append(audited, event), event)
  BY HasAppend
<1>2. \A f : Has(audited, f) => Has(Append(audited, event), f)
  BY HasAppend
<1>3. CASE Ends(audited, "append_raises")
  BY <1>3, EndsFacts
<1>4. CASE Ends(Append(audited, event), how)
  BY <1>1, <1>2, <1>4, EndsFacts
<1> QED
  BY <1>3, <1>4 DEF AuditThenEnds

-----------------------------------------------------------------------------
(* What the states say of the channel: before start() nothing has touched    *)
(* it, a channel that was never set up or was given back is not HIGH.        *)
RelayShape ==
  /\ state = "initializing" => relay = NewRelay
  /\ relay.closed => relay.pin = "input"
  /\ relay.pin = "high" => relay.channel

(* Each safety invariant leans on the others: a HIGH pin in READY is         *)
(* accounted for only because ReleasedIsTimed says how RELEASED was entered, *)
(* STOPPED is truthful only because a successful LOW needed a usable channel. *)
IInv ==
  /\ TypeOK
  /\ RelayShape
  /\ HighIsAccountedFor
  /\ ReleasedIsTimed
  /\ ClaimsAreTrue
  /\ FaultIsRecorded
  /\ CriticalIsNotSilent

(* The events the methods write are event types. *)
LEMMA EventsAreTyped ==
  /\ <<>> \in Seq(EventTypes)
  /\ \A e \in EventTypes : <<e>> \in Seq(EventTypes)
  /\ \A e, f \in EventTypes : <<e, f>> \in Seq(EventTypes)
  /\ {"service_started", "service_shutdown", "credential_authorized",
      "relay_asserted", "relay_restored", "relay_control_error",
      "escalation_warning", "escalation_critical",
      "notification_delivery_failed"} \subseteq EventTypes
  /\ SuspiciousKinds \subseteq EventTypes
BY DEF EventTypes

(* IInv holds of a new controller (controller.py:54-79). *)
LEMMA InitIsInductive == Init => IInv
<1> SUFFICES ASSUME Init PROVE IInv
  OBVIOUS
<1>1. NewTracker \in Trackers /\ NewTracker.level # CRITICAL
  <2>1. <<>> \in Seq(Nat) /\ NONE \in Levels /\ NONE # CRITICAL
    BY DEF Levels, NONE, CRITICAL
  <2> QED
    BY <2>1 DEF NewTracker, Trackers
<1>2. NewRelay \in Relays /\ NewRelay.pin = "input" /\ NewRelay.closed = FALSE
  BY DEF NewRelay, Relays, Pins
<1>3. call \in Calls /\ past \in Pasts /\ notified \in Notices
  BY EventsAreTyped DEF Init, Calls, Pasts, Notices, NoNotices
<1> QED
  BY <1>1, <1>2, <1>3, ControllerAssumption
  DEF Init, IInv, TypeOK, RelayShape, HighIsAccountedFor, ReleasedIsTimed, ClaimsAreTrue,
      FaultIsRecorded, CriticalIsNotSilent, NoNotices, ControllerStates

(* A refused call changes nothing but what the caller sees. *)
LEMMA RefusedStep ==
  ASSUME IInv, NEW how, Ends(<<>>, how),
         UNCHANGED <<now, state, release_deadline, last_command, relay, tracker, notified>>
  PROVE  IInv'
<1>1. past \in Pasts
  BY DEF IInv, TypeOK
<1>2. Remembers
  BY <1>1, EventsAreTyped, EndsFacts
<1> QED
  BY <1>2
  DEF IInv, TypeOK, RelayShape, HighIsAccountedFor, ReleasedIsTimed, ClaimsAreTrue,
      FaultIsRecorded, CriticalIsNotSilent, Usable, Remembers

(* start() keeps it (controller.py:103-124). *)
LEMMA StartStep == IInv /\ Start => IInv'
<1> SUFFICES ASSUME IInv, Start PROVE IInv'
  OBVIOUS
<1>1. CASE StartRefused
  BY <1>1, RefusedStep DEF StartRefused
<1>2. CASE StartInitializing
  <2>1. relay = NewRelay /\ past \in Pasts
    BY <1>2 DEF StartInitializing, IInv, RelayShape, TypeOK
  <2>2. PICK s \in SetupOutcomes(NewRelay) :
          \/ /\ ~ s.ok
             /\ state' = "faulted"
             /\ relay' = s.relay
             /\ UNCHANGED last_command
             /\ AuditThenEnds(<<>>, "relay_control_error", "raises")
          \/ /\ s.ok
             /\ \E c \in CommandOutcomes(s.relay, "low") :
                  /\ relay' = c.relay
                  /\ \/ /\ ~ c.ok
                        /\ state' = "faulted"
                        /\ UNCHANGED last_command
                        /\ AuditThenEnds(<<>>, "relay_control_error", "raises")
                     \/ /\ c.ok
                        /\ state' = "ready"
                        /\ last_command' = "low"
                        /\ AuditThenEnds(<<>>, "service_started", "returns")
    BY <1>2, <2>1 DEF StartInitializing
  <2>3. /\ s.relay \in Relays
        /\ s.relay.pin # "high" /\ ~ s.relay.closed
        /\ s.ok => Usable(s.relay)
    BY SetupFacts
  <2>4. /\ relay' \in Relays /\ relay'.pin # "high"
        /\ ~ relay'.closed
        /\ state' \in {"faulted", "ready"}
        /\ state' = "ready" => Usable(relay')
        /\ last_command' \in {"none", "low", "high"}
    <3>1. CASE s.ok
      <4>1. PICK c \in CommandOutcomes(s.relay, "low") :
              /\ relay' = c.relay
              /\ \/ ~ c.ok /\ state' = "faulted" /\ UNCHANGED last_command
                 \/ c.ok /\ state' = "ready" /\ last_command' = "low"
        BY <2>2, <3>1
      <4> QED
        BY <2>3, <3>1, <4>1, CommandFacts DEF IInv, TypeOK, Usable
    <3>2. CASE ~ s.ok
      BY <2>2, <2>3, <3>2 DEF IInv, TypeOK
    <3> QED
      BY <3>1, <3>2
  <2>5. /\ Remembers
        /\ state' = "faulted" => past'.faultRecorded \/ past'.auditLost
    <3>1. \/ AuditThenEnds(<<>>, "relay_control_error", "raises")
          \/ state' = "ready" /\ AuditThenEnds(<<>>, "service_started", "returns")
      BY <2>2
    <3>2. CASE AuditThenEnds(<<>>, "relay_control_error", "raises")
      BY <2>1, <3>2, EventsAreTyped, AuditThenEndsFacts
    <3>3. CASE state' = "ready" /\ AuditThenEnds(<<>>, "service_started", "returns")
      BY <2>1, <3>3, EventsAreTyped, AuditThenEndsFacts
    <3> QED
      BY <3>1, <3>2, <3>3
  <2>6. UNCHANGED <<now, release_deadline, tracker, notified>> /\ release_deadline = NoTime
    BY <1>2 DEF StartInitializing, IInv, ReleasedIsTimed
  <2> QED
    BY <2>4, <2>5, <2>6
    DEF IInv, TypeOK, RelayShape, HighIsAccountedFor, ReleasedIsTimed, ClaimsAreTrue,
        FaultIsRecorded, CriticalIsNotSilent, ControllerStates, Usable, Remembers
<1> QED
  BY <1>1, <1>2 DEF Start

-----------------------------------------------------------------------------
(* A suspicious event was taken, and the notifications tell its level. *)
Advanced ==
  /\ Remembers
  /\ tracker' \in Trackers
  /\ notified' \in Notices
  /\ CriticalIsNotSilent'

(* What the cycle had notified before the event tells the level it had. *)
LEMMA BeforeFacts ==
  ASSUME tracker \in Trackers, notified \in Notices, CriticalIsNotSilent
  PROVE  /\ NotifiedBefore \in Notices
         /\ NotifiedBefore.queued + NotifiedBefore.lost + NotifiedBefore.raised =
              IF Kept(tracker, now).level = CRITICAL THEN 1 ELSE 0
<1>1. CASE Quiet(tracker, now)
  <2>1. NotifiedBefore = NoNotices /\ Kept(tracker, now).level = NONE
    BY <1>1 DEF NotifiedBefore, Kept, Trackers
  <2> QED
    BY <2>1 DEF NoNotices, Notices, NONE, CRITICAL
<1>2. CASE ~ Quiet(tracker, now)
  BY <1>2 DEF NotifiedBefore, Kept, CriticalIsNotSilent
<1> QED
  BY <1>1, <1>2

(* One notification more than before the event. *)
LEMMA OneMore ==
  ASSUME NEW n \in Notices, n.queued + n.lost + n.raised = 0,
         NEW m, m \in {[n EXCEPT !.raised = @ + 1], [n EXCEPT !.queued = @ + 1],
                       [n EXCEPT !.lost = @ + 1]}
  PROVE  m \in Notices /\ m.queued + m.lost + m.raised = 1
<1>1. n = [queued |-> 0, lost |-> 0, raised |-> 0]
  BY DEF Notices
<1> QED
  BY <1>1 DEF Notices

(* A call that moves only the tracker and the notifications. *)
LEMMA SuspiciousStep ==
  ASSUME IInv, NEW kind \in SuspiciousKinds, ProcessSuspicious(kind)
  PROVE  IInv'
<1>1. /\ past \in Pasts /\ tracker \in Trackers /\ notified \in Notices /\ now \in Nat
      /\ CriticalIsNotSilent
      /\ UNCHANGED <<now, state, release_deadline, last_command, relay>>
  BY ControllerAssumption DEF IInv, TypeOK, ProcessSuspicious
<1>2. /\ Recorded(tracker, now) \in Trackers
      /\ Notice(tracker, now) = CRITICAL <=>
           Recorded(tracker, now).level = CRITICAL /\ Kept(tracker, now).level # CRITICAL
      /\ Kept(tracker, now).level = CRITICAL => Recorded(tracker, now).level = CRITICAL
  BY <1>1, PolicyAssumption, RecordedType, CriticalIsAnswered
<1>3. /\ NotifiedBefore \in Notices
      /\ NotifiedBefore.queued + NotifiedBefore.lost + NotifiedBefore.raised =
           IF Kept(tracker, now).level = CRITICAL THEN 1 ELSE 0
  BY <1>1, BeforeFacts
<1>4. /\ <<kind>> \in Seq(EventTypes)
      /\ <<kind, "escalation_critical">> \in Seq(EventTypes)
      /\ <<kind, "escalation_critical", "notification_delivery_failed">> \in Seq(EventTypes)
      /\ "escalation_warning" \in EventTypes
  BY EventsAreTyped DEF EventTypes
<1> SUFFICES Advanced
  BY <1>1
  DEF Advanced, IInv, TypeOK, RelayShape, HighIsAccountedFor, ReleasedIsTimed, ClaimsAreTrue,
      FaultIsRecorded, CriticalIsNotSilent, Usable, Remembers
<1>5. CASE Ends(<<>>, "append_raises") /\ UNCHANGED <<tracker, notified>>
  <2>1. Remembers
    BY <1>1, <1>5, EventsAreTyped, EndsFacts
  <2> QED
    BY <1>1, <1>5, <2>1 DEF Advanced, CriticalIsNotSilent
<1>6. CASE RecordSuspicious(kind)
  <2>1. tracker' = Recorded(tracker, now)
    BY <1>6 DEF RecordSuspicious
  <2>2. Remembers
    BY <1>1, <1>4, <1>6, EndsFacts, AuditThenEndsFacts DEF RecordSuspicious
  <2>3. CASE Notice(tracker, now) # CRITICAL /\ notified' = NotifiedBefore
    BY <1>2, <1>3, <2>1, <2>2, <2>3 DEF Advanced, CriticalIsNotSilent
  <2>4. CASE /\ Notice(tracker, now) = CRITICAL
             /\ notified' \in {[NotifiedBefore EXCEPT !.raised = @ + 1],
                               [NotifiedBefore EXCEPT !.queued = @ + 1],
                               [NotifiedBefore EXCEPT !.lost = @ + 1]}
    <3>1. NotifiedBefore.queued + NotifiedBefore.lost + NotifiedBefore.raised = 0
      BY <1>2, <1>3, <2>4
    <3>2. notified' \in Notices /\ notified'.queued + notified'.lost + notified'.raised = 1
      BY <1>3, <2>4, <3>1, OneMore
    <3> QED
      BY <1>2, <2>1, <2>2, <2>4, <3>2 DEF Advanced, CriticalIsNotSilent
  <2> QED
    BY <1>6, <2>3, <2>4 DEF RecordSuspicious, NONE, WARNING, CRITICAL
<1> QED
  BY <1>5, <1>6 DEF ProcessSuspicious

(* A credential while the door is open changes nothing (controller.py:165). *)
LEMMA AlreadyReleasedStep == IInv /\ ProcessAlreadyReleased => IInv'
<1> SUFFICES ASSUME IInv, ProcessAlreadyReleased PROVE IInv'
  OBVIOUS
<1>1. past \in Pasts
  BY DEF IInv, TypeOK
<1>2. Remembers
  BY <1>1, EventsAreTyped, AuditThenEndsFacts DEF ProcessAlreadyReleased
<1> QED
  BY <1>2
  DEF IInv, TypeOK, RelayShape, HighIsAccountedFor, ReleasedIsTimed, ClaimsAreTrue,
      FaultIsRecorded, CriticalIsNotSilent, Usable, Remembers, ProcessAlreadyReleased

-----------------------------------------------------------------------------
(* A grant whose HIGH failed: RELEASED is not entered, and either the fault  *)
(* is on record or the audit database refused an event.                      *)
LEMMA HighFailedFacts ==
  ASSUME IInv, state = "ready",
         NEW r \in Relays, Usable(r), HighFailed(r)
  PROVE  /\ Remembers
         /\ relay' \in Relays /\ Usable(relay')
         /\ last_command' \in {"none", "low", "high"}
         /\ state' \in {"ready", "faulted"}
         /\ past'.auditLost \/ (past'.faultRecorded /\ state' = "faulted")
         /\ UNCHANGED release_deadline
<1>1. past \in Pasts /\ last_command \in {"none", "low", "high"}
  BY DEF IInv, TypeOK
<1>2. {"credential_authorized", "relay_control_error"} \subseteq EventTypes
  BY EventsAreTyped
<1> DEFINE audited == <<"credential_authorized", "relay_control_error">>
           more    == Append(audited, "relay_control_error")
<1>3. audited \in Seq(EventTypes) /\ <<"credential_authorized">> \in Seq(EventTypes)
  BY <1>2, EventsAreTyped
<1>4. Has(audited, "relay_control_error")
  BY DEF Has
<1>5. more \in Seq(EventTypes) /\ Has(more, "relay_control_error")
  BY <1>2, <1>3, HasAppend
<1> HIDE DEF audited, more
<1>6. CASE /\ Ends(<<"credential_authorized">>, "append_raises")
           /\ relay' = r
           /\ UNCHANGED <<state, last_command, release_deadline>>
  <2>1. Remembers /\ past'.auditLost
    BY <1>1, <1>3, <1>6, EndsFacts
  <2> QED
    BY <1>1, <1>6, <2>1
<1>7. ASSUME NEW low \in CommandOutcomes(r, "low"),
             relay' = low.relay,
             last_command' = IF low.ok THEN "low" ELSE last_command,
             UNCHANGED release_deadline,
             \/ state' = "faulted" /\ Ends(audited, "returns")
             \/ state' = "faulted" /\ Ends(more, "returns")
             \/ UNCHANGED state /\ Ends(audited, "append_raises")
      PROVE  /\ Remembers
             /\ relay' \in Relays /\ Usable(relay')
             /\ last_command' \in {"none", "low", "high"}
             /\ state' \in {"ready", "faulted"}
             /\ past'.auditLost \/ (past'.faultRecorded /\ state' = "faulted")
             /\ UNCHANGED release_deadline
  <2>1. relay' \in Relays /\ Usable(relay')
    BY <1>7, CommandFacts DEF Usable
  <2>2. CASE state' = "faulted" /\ Ends(audited, "returns")
    <3>1. Remembers /\ past'.faultRecorded
      BY <1>1, <1>3, <1>4, <2>2, EndsFacts
    <3> QED
      BY <1>1, <1>7, <2>1, <2>2, <3>1
  <2>3. CASE state' = "faulted" /\ Ends(more, "returns")
    <3>1. Remembers /\ past'.faultRecorded
      BY <1>1, <1>5, <2>3, EndsFacts
    <3> QED
      BY <1>1, <1>7, <2>1, <2>3, <3>1
  <2>4. CASE UNCHANGED state /\ Ends(audited, "append_raises")
    <3>1. Remembers /\ past'.auditLost
      BY <1>1, <1>3, <2>4, EndsFacts
    <3> QED
      BY <1>1, <1>7, <2>1, <2>4, <3>1
  <2> QED
    BY <1>7, <2>2, <2>3, <2>4
<1> QED
  BY <1>6, <1>7 DEF HighFailed, audited, more

(* A grant keeps it, whichever of its calls fails (controller.py:165-183).  *)
LEMMA GrantStep == IInv /\ ProcessGrant => IInv'
<1> SUFFICES ASSUME IInv, ProcessGrant PROVE IInv'
  OBVIOUS
<1>1. /\ state = "ready" /\ relay \in Relays /\ Usable(relay) /\ release_deadline = NoTime
      /\ past \in Pasts /\ now \in Nat /\ now + ReleaseSeconds <= MaxTime
      /\ UNCHANGED <<now, tracker, notified>>
  BY ControllerAssumption DEF IInv, TypeOK, ReleasedIsTimed, ClaimsAreTrue, ProcessGrant
<1>2. CASE Ends(<<>>, "append_raises") /\ UNCHANGED <<state, release_deadline, last_command, relay>>
  BY <1>1, <1>2, RefusedStep
<1>3. ASSUME NEW high \in CommandOutcomes(relay, "high"), ~ high.ok, HighFailed(high.relay)
      PROVE  IInv'
  <2>1. high.relay \in Relays /\ Usable(high.relay)
    BY <1>1, CommandFacts DEF Usable
  <2>2. /\ Remembers
        /\ relay' \in Relays /\ Usable(relay')
        /\ last_command' \in {"none", "low", "high"}
        /\ state' \in {"ready", "faulted"}
        /\ past'.auditLost \/ (past'.faultRecorded /\ state' = "faulted")
        /\ UNCHANGED release_deadline
    BY <1>1, <1>3, <2>1, HighFailedFacts
  <2> QED
    BY <1>1, <2>2
    DEF IInv, TypeOK, RelayShape, HighIsAccountedFor, ReleasedIsTimed, ClaimsAreTrue,
        FaultIsRecorded, CriticalIsNotSilent, ControllerStates, Usable, Remembers
<1>4. ASSUME NEW high \in CommandOutcomes(relay, "high"), high.ok, HighSucceeded(high.relay)
      PROVE  IInv'
  <2>1. relay' \in Relays /\ Usable(relay') /\ relay'.pin = "high"
    BY <1>1, <1>4, CommandFacts DEF Usable, HighSucceeded
  <2>2. Remembers
    BY <1>1, <1>4, EventsAreTyped, AuditThenEndsFacts DEF HighSucceeded
  <2>3. state' = "released" /\ release_deadline' = now + ReleaseSeconds /\ last_command' = "high"
    BY <1>4 DEF HighSucceeded
  <2>4. release_deadline' \in 0..MaxTime /\ release_deadline' # NoTime
    BY <1>1, <2>3, ControllerAssumption DEF NoTime
  <2> QED
    BY <1>1, <2>1, <2>2, <2>3, <2>4
    DEF IInv, TypeOK, RelayShape, HighIsAccountedFor, ReleasedIsTimed, ClaimsAreTrue,
        FaultIsRecorded, CriticalIsNotSilent, ControllerStates, Usable, Remembers
<1> QED
  BY <1>2, <1>3, <1>4 DEF ProcessGrant

(* process() keeps it (controller.py:126-183). *)
LEMMA ProcessStep == IInv /\ Process => IInv'
<1>1. ASSUME IInv, ProcessRefused PROVE IInv'
  BY <1>1, RefusedStep DEF ProcessRefused
<1> QED
  BY <1>1, SuspiciousStep, AlreadyReleasedStep, GrantStep DEF Process

-----------------------------------------------------------------------------
(* tick() keeps it (controller.py:185-204). *)
LEMMA TickStep == IInv /\ Tick => IInv'
<1> SUFFICES ASSUME IInv, Tick PROVE IInv'
  OBVIOUS
<1>1. /\ state = "released" /\ relay \in Relays /\ Usable(relay)
      /\ past \in Pasts /\ UNCHANGED <<now, tracker, notified>>
  BY DEF IInv, TypeOK, ReleasedIsTimed, Tick, TickDue
<1>2. PICK low \in CommandOutcomes(relay, "low") :
        /\ relay' = low.relay
        /\ \/ ~ low.ok /\ RestoreFailed
           \/ low.ok /\ Restored
  BY DEF Tick
<1>3. relay' \in Relays /\ Usable(relay')
  BY <1>1, <1>2, CommandFacts DEF Usable
<1>4. CASE RestoreFailed
  <2>1. Remembers /\ (past'.faultRecorded \/ past'.auditLost)
    BY <1>1, <1>4, EventsAreTyped, AuditThenEndsFacts DEF RestoreFailed
  <2> QED
    BY <1>1, <1>3, <1>4, <2>1
    DEF RestoreFailed, IInv, TypeOK, RelayShape, HighIsAccountedFor, ReleasedIsTimed,
        ClaimsAreTrue, FaultIsRecorded, CriticalIsNotSilent, ControllerStates, Usable, Remembers
<1>5. CASE low.ok /\ Restored
  <2>1. relay'.pin = "low"
    BY <1>1, <1>2, <1>5, CommandFacts
  <2>2. Remembers
    BY <1>1, <1>5, EventsAreTyped, AuditThenEndsFacts DEF Restored
  <2> QED
    BY <1>1, <1>3, <1>5, <2>1, <2>2
    DEF Restored, IInv, TypeOK, RelayShape, HighIsAccountedFor, ReleasedIsTimed,
        ClaimsAreTrue, FaultIsRecorded, CriticalIsNotSilent, ControllerStates, Usable, Remembers
<1> QED
  BY <1>2, <1>4, <1>5

(* recoverable_failure() keeps it (controller.py:206-210). *)
LEMMA RecoverableFailureStep == IInv /\ RecoverableFailure => IInv'
<1> SUFFICES ASSUME IInv, RecoverableFailure PROVE IInv'
  OBVIOUS
<1>1. /\ relay \in Relays /\ past \in Pasts /\ last_command \in {"none", "low", "high"}
      /\ UNCHANGED <<now, tracker, notified>>
  BY DEF IInv, TypeOK, RecoverableFailure
<1>2. PICK low \in CommandOutcomes(relay, "low") :
        /\ relay' = low.relay
        /\ last_command' = IF low.ok THEN "low" ELSE last_command
        /\ \/ /\ ~ low.ok
              /\ Ends(<<>>, "append_raises")
              /\ UNCHANGED <<state, release_deadline>>
           \/ /\ state' = "faulted"
              /\ release_deadline' = NoTime
              /\ AuditThenEnds(IF low.ok THEN <<>> ELSE <<"relay_control_error">>,
                               "relay_control_error", "returns")
  BY DEF RecoverableFailure
<1>3. /\ relay' \in Relays
      /\ relay'.channel = relay.channel /\ relay'.closed = relay.closed
      /\ relay'.pin \in {relay.pin, "low"}
      /\ ~ Usable(relay) => relay' = relay
      /\ low.ok => Usable(relay) /\ relay'.pin = "low"
  BY <1>1, <1>2, CommandFacts
<1>4. last_command' \in {"none", "low", "high"}
  BY <1>1, <1>2
<1>5. CASE ~ low.ok /\ Ends(<<>>, "append_raises") /\ UNCHANGED <<state, release_deadline>>
  <2>1. Remembers /\ past'.auditLost
    BY <1>1, <1>5, EventsAreTyped, EndsFacts
  <2>2. UNCHANGED last_command
    BY <1>2, <1>5
  <2>3. state \in {"initializing", "stopped"} => relay' = relay
    BY <1>3 DEF IInv, RelayShape, ClaimsAreTrue, NewRelay, Usable
  <2> QED
    BY <1>1, <1>3, <1>5, <2>1, <2>2, <2>3
    DEF IInv, TypeOK, RelayShape, HighIsAccountedFor, ReleasedIsTimed, ClaimsAreTrue,
        FaultIsRecorded, CriticalIsNotSilent, ControllerStates, Usable, Remembers
<1>6. CASE /\ state' = "faulted"
           /\ release_deadline' = NoTime
           /\ AuditThenEnds(IF low.ok THEN <<>> ELSE <<"relay_control_error">>,
                            "relay_control_error", "returns")
  <2>1. (IF low.ok THEN <<>> ELSE <<"relay_control_error">>) \in Seq(EventTypes)
    BY EventsAreTyped
  <2>2. Remembers /\ (past'.faultRecorded \/ past'.auditLost)
    BY <1>1, <1>6, <2>1, EventsAreTyped, AuditThenEndsFacts
  <2> QED
    BY <1>1, <1>3, <1>4, <1>6, <2>2
    DEF IInv, TypeOK, RelayShape, HighIsAccountedFor, ReleasedIsTimed, ClaimsAreTrue,
        FaultIsRecorded, CriticalIsNotSilent, ControllerStates, Usable, Remembers
<1> QED
  BY <1>2, <1>5, <1>6

(* What shutdown() leaves behind once LOW was attempted with result `safe'.  *)
LEMMA CleanUpFacts ==
  ASSUME IInv, NEW r \in Relays, r.closed => r.pin = "input", NEW safe \in BOOLEAN,
         safe => Usable(r), NEW audited \in Seq(EventTypes),
         ~ safe => Has(audited, "relay_control_error"),
         CleanUp(r, safe, audited)
  PROVE  /\ Remembers
         /\ relay' \in Relays /\ relay'.channel = r.channel
         /\ relay'.closed => relay'.pin = "input"
         /\ relay'.pin \in {r.pin, "low", "input"}
         /\ state' \in {"stopped", "faulted", "shutting_down"}
         /\ state' = "stopped" => safe /\ relay'.closed
         /\ state' = "faulted" => past'.faultRecorded \/ past'.auditLost
         /\ ~ safe => past'.faultRecorded \/ past'.auditLost
         /\ release_deadline' = NoTime
<1>1. past \in Pasts
  BY DEF IInv, TypeOK
<1>2. PICK c \in CleanupOutcomes(r) :
        /\ relay' = c.relay
        /\ \/ /\ c.ok /\ safe
              /\ state' = "stopped"
              /\ AuditThenEnds(audited, "service_shutdown", "returns")
           \/ /\ c.ok /\ ~ safe
              /\ state' = "faulted"
              /\ Ends(audited, "returns")
           \/ /\ ~ c.ok
              /\ state' = "faulted"
              /\ Ends(Append(audited, "relay_control_error"), "returns")
           \/ /\ ~ c.ok
              /\ state' = "shutting_down"
              /\ Ends(audited, "append_raises")
  BY DEF CleanUp
<1>3. release_deadline' = NoTime
  BY DEF CleanUp
<1>4. /\ relay' \in Relays /\ relay'.channel = r.channel
      /\ relay'.closed => relay'.pin = "input"
      /\ relay'.pin \in {r.pin, "low", "input"}
      /\ c.ok /\ Usable(r) => relay'.closed
  BY <1>2, CleanupFacts
<1>5. CASE c.ok /\ safe /\ state' = "stopped" /\ AuditThenEnds(audited, "service_shutdown", "returns")
  <2>1. Remembers
    BY <1>1, <1>5, EventsAreTyped, AuditThenEndsFacts
  <2> QED
    BY <1>3, <1>4, <1>5, <2>1
<1>6. CASE c.ok /\ ~ safe /\ state' = "faulted" /\ Ends(audited, "returns")
  <2>1. Remembers /\ past'.faultRecorded
    BY <1>1, <1>6, EndsFacts
  <2> QED
    BY <1>3, <1>4, <1>6, <2>1
<1>7. CASE state' = "faulted" /\ Ends(Append(audited, "relay_control_error"), "returns")
  <2>1. /\ Append(audited, "relay_control_error") \in Seq(EventTypes)
        /\ Has(Append(audited, "relay_control_error"), "relay_control_error")
    BY EventsAreTyped, HasAppend
  <2>2. Remembers /\ past'.faultRecorded
    BY <1>1, <1>7, <2>1, EndsFacts
  <2> QED
    BY <1>3, <1>4, <1>7, <2>2
<1>8. CASE state' = "shutting_down" /\ Ends(audited, "append_raises")
  <2>1. Remembers /\ past'.auditLost
    BY <1>1, <1>8, EndsFacts
  <2> QED
    BY <1>3, <1>4, <1>8, <2>1
<1> QED
  BY <1>2, <1>5, <1>6, <1>7, <1>8

(* shutdown() keeps it, whatever fails in it (controller.py:212-241).       *)
LEMMA ShutdownStep == IInv /\ Shutdown => IInv'
<1> SUFFICES ASSUME IInv, Shutdown PROVE IInv'
  OBVIOUS
<1>1. CASE ShutdownStopped
  BY <1>1, RefusedStep DEF ShutdownStopped
<1>2. CASE ShutdownRunning
  <2>1. /\ relay \in Relays /\ past \in Pasts /\ last_command \in {"none", "low", "high"}
        /\ relay.closed => relay.pin = "input"
        /\ relay.pin = "high" => relay.channel
        /\ UNCHANGED <<now, tracker, notified>>
    BY <1>2 DEF IInv, TypeOK, RelayShape, ShutdownRunning
  <2>2. PICK low \in CommandOutcomes(relay, "low") :
          /\ last_command' = IF low.ok THEN "low" ELSE last_command
          /\ \/ low.ok /\ CleanUp(low.relay, TRUE, <<>>)
             \/ ~ low.ok /\ CleanUp(low.relay, FALSE, <<"relay_control_error">>)
             \/ /\ ~ low.ok
                /\ state' = "shutting_down"
                /\ relay' = low.relay
                /\ UNCHANGED release_deadline
                /\ Ends(<<>>, "append_raises")
    BY <1>2 DEF ShutdownRunning
  <2>3. /\ low.ok \in BOOLEAN /\ low.relay \in Relays
        /\ low.relay.channel = relay.channel /\ low.relay.closed = relay.closed
        /\ low.relay.pin \in {relay.pin, "low"}
        /\ low.ok => Usable(relay) /\ low.relay.pin = "low"
        /\ ~ Usable(relay) => low.relay = relay
    BY <2>1, CommandFacts
  <2>4. /\ low.relay.closed => low.relay.pin = "input"
        /\ low.relay.pin = "high" => low.relay.channel
        /\ low.ok => Usable(low.relay)
    BY <2>1, <2>3 DEF Usable
  <2>5. last_command' \in {"none", "low", "high"}
    BY <2>1, <2>2
  <2>6. CASE low.ok /\ CleanUp(low.relay, TRUE, <<>>)
    <3>1. /\ Remembers
          /\ relay' \in Relays
          /\ relay'.closed => relay'.pin = "input"
          /\ relay'.pin \in {low.relay.pin, "low", "input"}
          /\ state' \in {"stopped", "faulted", "shutting_down"}
          /\ state' = "stopped" => relay'.closed
          /\ state' = "faulted" => past'.faultRecorded \/ past'.auditLost
          /\ release_deadline' = NoTime
      BY <2>3, <2>4, <2>6, EventsAreTyped, CleanUpFacts
    <3>2. relay'.pin # "high" /\ last_command' = "low"
      BY <2>2, <2>3, <2>6, <3>1
    <3> QED
      BY <2>1, <3>1, <3>2
      DEF IInv, TypeOK, RelayShape, HighIsAccountedFor, ReleasedIsTimed, ClaimsAreTrue,
          FaultIsRecorded, CriticalIsNotSilent, ControllerStates, Usable, Remembers
  <2>7. CASE ~ low.ok /\ CleanUp(low.relay, FALSE, <<"relay_control_error">>)
    <3>1. Has(<<"relay_control_error">>, "relay_control_error")
      BY DEF Has
    <3>2. <<"relay_control_error">> \in Seq(EventTypes)
      BY EventsAreTyped
    <3>3. /\ Remembers
          /\ relay' \in Relays /\ relay'.channel = low.relay.channel
          /\ relay'.closed => relay'.pin = "input"
          /\ relay'.pin \in {low.relay.pin, "low", "input"}
          /\ state' \in {"faulted", "shutting_down"}
          /\ past'.faultRecorded \/ past'.auditLost
          /\ release_deadline' = NoTime
      BY <2>3, <2>4, <2>7, <3>1, <3>2, CleanUpFacts
    <3>4. relay'.pin = "high" => relay'.channel
      BY <2>4, <3>3
    <3> QED
      BY <2>1, <2>5, <3>3, <3>4
      DEF IInv, TypeOK, RelayShape, HighIsAccountedFor, ReleasedIsTimed, ClaimsAreTrue,
          FaultIsRecorded, CriticalIsNotSilent, ControllerStates, Usable, Remembers
  <2>8. CASE /\ state' = "shutting_down"
             /\ relay' = low.relay
             /\ UNCHANGED release_deadline
             /\ Ends(<<>>, "append_raises")
    <3>1. Remembers /\ past'.auditLost
      BY <2>1, <2>8, EventsAreTyped, EndsFacts
    <3> QED
      BY <2>1, <2>3, <2>4, <2>5, <2>8, <3>1
      DEF IInv, TypeOK, RelayShape, HighIsAccountedFor, ReleasedIsTimed, ClaimsAreTrue,
          FaultIsRecorded, CriticalIsNotSilent, ControllerStates, Usable, Remembers
  <2> QED
    BY <2>2, <2>6, <2>7, <2>8
<1> QED
  BY <1>1, <1>2 DEF Shutdown

(* A deadline is no further ahead when time has passed. *)
LEMMA Later ==
  ASSUME NEW deadline \in Int, NEW t \in Int, NEW u \in Int, NEW d \in Int,
         t <= u, deadline <= t + d
  PROVE  deadline <= u + d
OBVIOUS

(* Time keeps it. *)
LEMMA StutterStep == IInv /\ (Advance \/ UNCHANGED vars) => IInv'
<1> SUFFICES ASSUME IInv, Advance \/ UNCHANGED vars PROVE IInv'
  OBVIOUS
<1>1. now \in Nat /\ now' \in Nat /\ now' \in 0..MaxTime /\ now' >= now
  BY ControllerAssumption DEF IInv, TypeOK, Advance, vars
<1>2. UNCHANGED <<state, release_deadline, last_command, relay, tracker, notified, call, past>>
  BY DEF Advance, vars
<1>3. ReleasedIsTimed'
  <2>1. release_deadline \in Int /\ ReleaseSeconds \in Int
    BY ControllerAssumption DEF IInv, TypeOK, NoTime
  <2>2. release_deadline <= now + ReleaseSeconds => release_deadline <= now' + ReleaseSeconds
    <3>1. now \in Int /\ now' \in Int /\ now <= now'
      BY <1>1
    <3> QED
      BY <2>1, <3>1, Later
  <2>3. release_deadline' = release_deadline /\ state' = state
    BY <1>2
  <2> QED
    BY <1>2, <2>2, <2>3 DEF IInv, ReleasedIsTimed, Usable
<1> QED
  BY <1>1, <1>2, <1>3
  DEF IInv, TypeOK, RelayShape, HighIsAccountedFor, ClaimsAreTrue,
      FaultIsRecorded, CriticalIsNotSilent, Usable

(* IInv is inductive. *)
LEMMA NextStep == IInv /\ [Next]_vars => IInv'
BY StartStep, ProcessStep, TickStep, RecoverableFailureStep, ShutdownStep, StutterStep DEF Next

(* The inductive invariant holds of every behaviour of the controller. *)
THEOREM Inductive == Spec => []IInv
BY InitIsInductive, NextStep, PTL DEF Spec

-----------------------------------------------------------------------------
(* The parameters and fields keep their types under every interleaving of    *)
(* calls, and no deadline exceeds the clock's bound.                         *)
THEOREM TypeCorrect == Spec => []TypeOK
BY Inductive, PTL DEF IInv

(* AC-015: no relay failure, and no exception out of an audit append, at any *)
(* point of any method, leaves the pin HIGH without a release being timed or *)
(* the failure being on record.                                              *)
THEOREM HighIsAccountedForCorrect == Spec => []HighIsAccountedFor
BY Inductive, PTL DEF IInv

(* RELEASED always has a deadline and a relay that can still be driven LOW.  *)
THEOREM ReleasedIsTimedCorrect == Spec => []ReleasedIsTimed
BY Inductive, PTL DEF IInv

(* AC-014: STOPPED and READY tell the truth about the channel.               *)
THEOREM ClaimsAreTrueCorrect == Spec => []ClaimsAreTrue
BY Inductive, PTL DEF IInv

(* FAULTED is never entered without a durable record, unless the audit       *)
(* database itself refused one.                                              *)
THEOREM FaultIsRecordedCorrect == Spec => []FaultIsRecorded
BY Inductive, PTL DEF IInv

(* FR-009: every cycle that reaches CRITICAL has one notification queued, or *)
(* its loss audited, or an append of that call raised; and no other has one. *)
THEOREM CriticalIsNotSilentCorrect == Spec => []CriticalIsNotSilent
BY Inductive, PTL DEF IInv

-----------------------------------------------------------------------------
(* Where shutdown() leads, whatever fails in it. *)
LEMMA ShutdownFacts ==
  ASSUME IInv, Shutdown
  PROVE  /\ state' \in Halted
         /\ relay'.pin = "high" => relay.pin = "high"
         /\ state = "stopped" => state' = "stopped" /\ relay' = relay
         /\ UNCHANGED now
<1>1. CASE ShutdownStopped
  BY <1>1 DEF ShutdownStopped, Halted
<1>2. CASE ShutdownRunning
  <2>1. state # "stopped" /\ UNCHANGED now
    BY <1>2 DEF ShutdownRunning
  <2>2. PICK low \in CommandOutcomes(relay, "low") :
          \/ low.ok /\ CleanUp(low.relay, TRUE, <<>>)
          \/ ~ low.ok /\ CleanUp(low.relay, FALSE, <<"relay_control_error">>)
          \/ state' = "shutting_down" /\ relay' = low.relay
    BY <1>2 DEF ShutdownRunning
  <2>3. low.relay.pin \in {relay.pin, "low"}
    BY CommandFacts DEF IInv, TypeOK
  <2>4. ASSUME NEW safe, NEW audited, CleanUp(low.relay, safe, audited)
        PROVE  state' \in {"stopped", "faulted", "shutting_down"}
               /\ relay'.pin \in {low.relay.pin, "low", "input"}
    <3>1. PICK c \in CleanupOutcomes(low.relay) :
            relay' = c.relay /\ state' \in {"stopped", "faulted", "shutting_down"}
      BY <2>4 DEF CleanUp
    <3>2. low.relay \in Relays /\ (low.relay.closed => low.relay.pin = "input")
      BY <2>3, CommandFacts DEF IInv, TypeOK, RelayShape, Usable
    <3> QED
      BY <3>1, <3>2, CleanupFacts
  <2> QED
    BY <2>1, <2>2, <2>3, <2>4 DEF Halted
<1> QED
  BY <1>1, <1>2 DEF Shutdown

(* Where a recoverable failure leads. *)
LEMMA RecoverableFacts ==
  ASSUME IInv, RecoverableFailure
  PROVE  /\ \/ state' = "faulted"
            \/ UNCHANGED <<state, release_deadline>>
         /\ relay'.pin \in {relay.pin, "low"}
         /\ UNCHANGED now
BY CommandFacts DEF RecoverableFailure, IInv, TypeOK

(* Once halted the controller stays halted and never drives the pin HIGH,    *)
(* whatever is called on it, for ever.                                       *)
THEOREM HaltIsFinalCorrect == Spec => HaltIsFinal
<1>1. ASSUME IInv, [Next]_vars, state \in Halted
      PROVE  state' \in Halted /\ (relay'.pin = "high" => relay.pin = "high")
  <2> USE <1>1
  <2>1. CASE Start
    BY <2>1 DEF Start, StartInitializing, StartRefused, Halted
  <2>2. CASE Process
    BY <2>2 DEF Process, ProcessRefused, ProcessSuspicious, Accepting,
                ProcessAlreadyReleased, ProcessGrant, Halted
  <2>3. CASE Tick
    BY <2>3 DEF Tick, TickDue, Halted
  <2>4. CASE RecoverableFailure
    BY <2>4, RecoverableFacts DEF Halted
  <2>5. CASE Shutdown
    BY <2>5, ShutdownFacts
  <2>6. CASE Advance \/ UNCHANGED vars
    BY <2>6 DEF Advance, vars
  <2> QED
    BY <2>1, <2>2, <2>3, <2>4, <2>5, <2>6 DEF Next
<1> QED
  BY <1>1, Inductive, PTL DEF Spec, HaltIsFinal

(* FR-008: only an expired release returns to READY, and nothing moves a     *)
(* running release's deadline: no further credential, no failure.            *)
THEOREM ReleaseRunsItsCourseCorrect == Spec => ReleaseRunsItsCourse
<1>1. ASSUME IInv, [Next]_vars, state = "released"
      PROVE  /\ state' = "released" => release_deadline' = release_deadline
             /\ state' # "released" /\ state' \notin Halted =>
                  state' = "ready" /\ now >= release_deadline /\ relay'.pin = "low"
  <2> USE <1>1
  <2>1. CASE Start
    BY <2>1 DEF Start, StartInitializing, StartRefused
  <2>2. CASE Process
    BY <2>2 DEF Process, ProcessRefused, ProcessSuspicious, ProcessAlreadyReleased, ProcessGrant
  <2>3. CASE Tick
    BY <2>3, CommandFacts DEF Tick, TickDue, RestoreFailed, Restored, Halted, IInv, TypeOK
  <2>4. CASE RecoverableFailure
    BY <2>4, RecoverableFacts DEF Halted
  <2>5. CASE Shutdown
    BY <2>5, ShutdownFacts DEF Halted
  <2>6. CASE Advance \/ UNCHANGED vars
    BY <2>6 DEF Advance, vars
  <2> QED
    BY <2>1, <2>2, <2>3, <2>4, <2>5, <2>6 DEF Next
<1> QED
  BY <1>1, Inductive, PTL DEF Spec, ReleaseRunsItsCourse

(* Whatever fails in start(), it does not drive the pin HIGH. *)
LEMMA StartFacts ==
  ASSUME IInv, StartInitializing
  PROVE  relay'.pin # "high"
<1>1. PICK s \in SetupOutcomes(NewRelay) :
        \/ relay' = s.relay
        \/ \E c \in CommandOutcomes(s.relay, "low") : relay' = c.relay
  BY DEF StartInitializing, IInv, RelayShape
<1>2. s.relay \in Relays /\ s.relay.pin # "high"
  BY SetupFacts
<1>3. ASSUME NEW c \in CommandOutcomes(s.relay, "low")
      PROVE  c.relay.pin # "high"
  BY <1>2, CommandFacts
<1> QED
  BY <1>1, <1>2, <1>3

(* Every way a grant ends after HIGH was commanded has the grant as the      *)
(* first durable event of the call.                                          *)
LEMMA GrantFacts ==
  ASSUME IInv, NEW r, HighFailed(r) \/ HighSucceeded(r)
  PROVE  Len(call'.audited) > 0 /\ call'.audited[1] = "credential_authorized"
<1> DEFINE grant == "credential_authorized"
           fault == "relay_control_error"
<1>1. past \in Pasts /\ {grant, fault, "relay_asserted"} \subseteq EventTypes
  BY EventsAreTyped DEF IInv, TypeOK
<1>2. PICK audited \in {<<grant>>, <<grant, fault>>, Append(<<grant, fault>>, fault),
                         Append(<<grant>>, "relay_asserted")} :
        call'.audited = audited
  <2>1. CASE HighFailed(r)
    <3>1. \E how : \/ Ends(<<grant>>, how)
                   \/ Ends(<<grant, fault>>, how)
                   \/ Ends(Append(<<grant, fault>>, fault), how)
      BY <2>1 DEF HighFailed
    <3> QED
      BY <3>1 DEF Ends
  <2>2. CASE HighSucceeded(r)
    <3>1. \E how : \/ Ends(<<grant>>, how)
                   \/ Ends(Append(<<grant>>, "relay_asserted"), how)
      BY <2>2 DEF HighSucceeded, AuditThenEnds
    <3> QED
      BY <3>1 DEF Ends
  <2> QED
    BY <2>1, <2>2
<1> QED
  BY <1>2

(* FR-012, AC-002: the pin goes HIGH only out of READY, and only in a call   *)
(* whose first durable event is the grant.                                   *)
THEOREM HighOnlyAfterGrantCorrect == Spec => HighOnlyAfterGrant
<1>1. ASSUME IInv, [Next]_vars, relay.pin # "high", relay'.pin = "high"
      PROVE  /\ state = "ready"
             /\ Len(call'.audited) > 0
             /\ call'.audited[1] = "credential_authorized"
  <2> USE <1>1
  <2>1. ~ Start
    BY StartFacts DEF Start, StartRefused
  <2>2. ~ (ProcessRefused \/ ProcessAlreadyReleased \/ \E kind \in SuspiciousKinds : ProcessSuspicious(kind))
    BY DEF ProcessRefused, ProcessAlreadyReleased, ProcessSuspicious
  <2>3. ~ Tick
    BY CommandFacts DEF Tick, IInv, TypeOK
  <2>4. ~ RecoverableFailure /\ ~ Shutdown
    BY RecoverableFacts, ShutdownFacts
  <2>5. ~ (Advance \/ UNCHANGED vars)
    BY DEF Advance, vars
  <2>6. ProcessGrant
    BY <2>1, <2>2, <2>3, <2>4, <2>5 DEF Next, Process
  <2>7. state = "ready" /\ \E r : HighFailed(r) \/ HighSucceeded(r)
    BY <2>6 DEF ProcessGrant
  <2> QED
    BY <2>7, GrantFacts
<1> QED
  BY <1>1, Inductive, PTL DEF Spec, HighOnlyAfterGrant

-----------------------------------------------------------------------------
(* A grant from READY opens the release, leaves READY as it was, or faults.  *)
LEMMA GrantRefines ==
  ASSUME IInv, ProcessGrant
  PROVE  \/ state' = "released" /\ release_deadline' = now + ReleaseSeconds
         \/ UNCHANGED state
         \/ state' = "faulted"
BY DEF ProcessGrant, HighFailed, HighSucceeded

(* Every step of the controller is one of the contract's, or none.          *)
LEMMA StepRefines == IInv /\ [Next]_vars => [Contract!Next]_(Contract!contractVars)
<1> SUFFICES ASSUME IInv, [Next]_vars PROVE [Contract!Next]_(Contract!contractVars)
  OBVIOUS
<1> USE DEF Contract!Next, Contract!contractVars, Contract!NoDeadline, NoTime, Phase, Until, Halted
<1>1. CASE Start
  BY <1>1 DEF Start, StartInitializing, StartRefused, Contract!End, Halted
<1>2. CASE ProcessGrant
  BY <1>2, GrantRefines DEF ProcessGrant, Contract!Grant, Contract!End
<1>3. CASE ProcessRefused \/ ProcessAlreadyReleased \/ \E kind \in SuspiciousKinds : ProcessSuspicious(kind)
  BY <1>3 DEF ProcessRefused, ProcessAlreadyReleased, ProcessSuspicious
<1>4. CASE Tick
  BY <1>4 DEF Tick, TickDue, RestoreFailed, Restored, Contract!Expire, Contract!End
<1>5. CASE RecoverableFailure
  BY <1>5, RecoverableFacts DEF Contract!End
<1>6. CASE Shutdown
  BY <1>6, ShutdownFacts DEF Contract!End
<1>7. CASE Advance
  BY <1>7 DEF Advance, Contract!Advance
<1>8. CASE UNCHANGED vars
  BY <1>8 DEF vars
<1> QED
  BY <1>1, <1>2, <1>3, <1>4, <1>5, <1>6, <1>7, <1>8 DEF Next, Process

(* The controller implements the release contract: granted for exactly       *)
(* ReleaseSeconds, never prolonged, never cut short but by a fault or a      *)
(* shutdown, and nothing granted after the end.                              *)
THEOREM Refinement == Spec => ContractHolds
<1>1. Init => Contract!Init
  BY DEF Init, Contract!Init, Contract!NoDeadline, NoTime, Phase, Until, Halted
<1> QED
  BY <1>1, StepRefines, Inductive, PTL DEF Spec, ContractHolds, Contract!SafeSpec

-----------------------------------------------------------------------------
(* What a call in the loop does, as far as the thread depends on it.         *)

(* A call that does not raise has lost no audit event. *)
NothingLost == call'.raised \/ past'.auditLost = past.auditLost

(* A method that does not raise has lost no event ... *)
LEMMA EndsQuiet ==
  ASSUME past \in Pasts, NEW audited, NEW how, Ends(audited, how)
  PROVE  NothingLost
BY DEF Ends, Pasts, NothingLost

(* ... nor has one that ends with an audit event. *)
LEMMA AuditThenEndsQuiet ==
  ASSUME past \in Pasts, NEW audited, NEW event, NEW how, AuditThenEnds(audited, event, how)
  PROVE  NothingLost
BY EndsQuiet DEF AuditThenEnds

(* start() leaves the controller ready or faulted. *)
LEMMA StartCall ==
  ASSUME IInv, StartInitializing
  PROVE  NothingLost /\ state' \in {"ready", "faulted"} /\ UNCHANGED now
<1>1. past \in Pasts
  BY DEF IInv, TypeOK
<1>2. \/ AuditThenEnds(<<>>, "relay_control_error", "raises")
      \/ AuditThenEnds(<<>>, "service_started", "returns")
  BY DEF StartInitializing
<1> QED
  BY <1>1, <1>2, AuditThenEndsQuiet DEF StartInitializing

(* So does a tick that finds a release due. *)
LEMMA TickCallFacts ==
  ASSUME IInv, Tick
  PROVE  NothingLost /\ state' \in {"ready", "faulted"} /\ UNCHANGED now
<1>1. past \in Pasts
  BY DEF IInv, TypeOK
<1>2. \/ AuditThenEnds(<<>>, "relay_control_error", "returns")
      \/ AuditThenEnds(<<>>, "relay_restored", "returns")
  BY DEF Tick, RestoreFailed, Restored
<1> QED
  BY <1>1, <1>2, AuditThenEndsQuiet DEF Tick, RestoreFailed, Restored

(* process() leaves a running release alone, or starts one, or faults.       *)
LEMMA ProcessCall ==
  ASSUME IInv, Process
  PROVE  /\ NothingLost /\ UNCHANGED now
         /\ \/ UNCHANGED <<state, release_deadline>>
            \/ state = "ready" /\ state' = "faulted"
            \/ state = "ready" /\ state' = "released" /\ release_deadline' = now + ReleaseSeconds
<1>1. past \in Pasts
  BY DEF IInv, TypeOK
<1>2. CASE ProcessRefused
  BY <1>1, <1>2, EndsQuiet DEF ProcessRefused
<1>3. CASE \E kind \in SuspiciousKinds : ProcessSuspicious(kind)
  <2>1. PICK kind \in SuspiciousKinds : ProcessSuspicious(kind)
    BY <1>3
  <2>2. \/ \E audited, how : Ends(audited, how)
        \/ \E audited, event, how : AuditThenEnds(audited, event, how)
    BY <2>1 DEF ProcessSuspicious, RecordSuspicious
  <2> QED
    BY <1>1, <2>1, <2>2, EndsQuiet, AuditThenEndsQuiet DEF ProcessSuspicious
<1>4. CASE ProcessAlreadyReleased
  BY <1>1, <1>4, AuditThenEndsQuiet DEF ProcessAlreadyReleased
<1>5. CASE ProcessGrant
  <2>1. \/ /\ Ends(<<>>, "append_raises")
           /\ UNCHANGED <<state, release_deadline>>
        \/ \E r : HighFailed(r)
        \/ \E r : HighSucceeded(r)
    BY <1>5 DEF ProcessGrant
  <2>2. state = "ready" /\ UNCHANGED now
    BY <1>5 DEF ProcessGrant
  <2>3. ASSUME NEW r, HighFailed(r)
        PROVE  NothingLost /\ (state' = "faulted" \/ UNCHANGED <<state, release_deadline>>)
    <3>1. \E audited, how : Ends(audited, how)
      BY <2>3 DEF HighFailed
    <3> QED
      BY <1>1, <2>3, <3>1, EndsQuiet DEF HighFailed
  <2>4. ASSUME NEW r, HighSucceeded(r)
        PROVE  NothingLost /\ state' = "released" /\ release_deadline' = now + ReleaseSeconds
    BY <1>1, <2>4, AuditThenEndsQuiet DEF HighSucceeded
  <2> QED
    BY <1>1, <2>1, <2>2, <2>3, <2>4, EndsQuiet
<1> QED
  BY <1>2, <1>3, <1>4, <1>5 DEF Process

-----------------------------------------------------------------------------
(* What the loop relies on: no append has failed in it, and its controller   *)
(* has not been shut down.                                                   *)
Unharmed == pc \in Running => ~ past.auditLost /\ state \notin {"shutting_down", "stopped"}

(* The time that the records of a read, and the tick after them, may take.   *)
Records(b) == (b + 1) * WriteTicks

(* The time that the call p may begin before the next tick, and its calls    *)
(* after it, may take together.                                              *)
Left(p, b) ==
  CASE p = "ready_health"               -> 3 * WriteTicks
    [] p \in {"announcing", "waiting"}  -> 2 * WriteTicks
    [] p = "loop"                       -> WriteTicks
    [] p = "records"                    -> Records(b)
    [] OTHER                            -> LongestStretch

(* A call blocks no longer than it can. *)
Clocked == spent \in Nat /\ spent <= LongestCall /\ batch \in 0..MaxBatch

(* A release ends within the longest stretch without a tick: when a call of  *)
(* the loop begins, at now - spent, what is left of the stretch ends in time. *)
Timely ==
  /\ pc \in {"start", "start_health", "hosting"} => state # "released"
  /\ state = "released" /\ pc \in Running =>
       now - spent + Left(pc, batch) < release_deadline + LongestStretch

(* After the controller's shutdown.                                          *)
ShutDown ==
  /\ pc \in {"close_reader", "stopped_health", "fallback", "done"} => state \in Halted
  /\ (pc \in {"fallback", "done"} /\ ~ failed) => health = "stopped"

HostInv ==
  /\ IInv
  /\ pc \in Running \cup Exiting
  /\ Unharmed
  /\ Clocked
  /\ Timely
  /\ ShutDown
  /\ ExitIsSafe

(* What the longest stretch and the longest pass have room for. *)
LEMMA Times ==
  /\ WriteTicks \in Nat /\ DiscoveryTicks \in Nat /\ HostingTicks \in Nat
  /\ LongestStretch \in Nat /\ LongestPass \in Nat
  /\ DiscoveryTicks + 4 * WriteTicks <= LongestStretch
  /\ 1 + 3 * WriteTicks <= LongestStretch
  /\ HostingTicks + DiscoveryTicks + 4 * WriteTicks <= LongestPass
  /\ HostingTicks + 1 + 4 * WriteTicks <= LongestPass
  /\ Records(0) = WriteTicks
  /\ \A b \in 0..MaxBatch :
       /\ Records(b) \in Nat /\ WriteTicks <= Records(b)
       /\ 1 + WriteTicks + Records(b) <= LongestStretch
       /\ HostingTicks + 1 + 3 * WriteTicks + Records(b) <= LongestPass
       /\ b # 0 => b - 1 \in 0..MaxBatch /\ Records(b) = Records(b - 1) + WriteTicks
<1>1. /\ WriteTicks \in Nat /\ DiscoveryTicks \in Nat /\ HostingTicks \in Nat
      /\ MaxBatch \in Nat /\ 1 <= MaxBatch
  BY ServiceAssumption
<1>2. ASSUME NEW b \in Nat
      PROVE  b * WriteTicks \in Nat /\ Records(b) = b * WriteTicks + WriteTicks
  BY <1>1 DEF Records
<1>3. ASSUME NEW a \in Nat, NEW b \in Nat, a <= b
      PROVE  a * WriteTicks <= b * WriteTicks
  <2>1. PICK d \in Nat : b = a + d
    <3>1. b - a \in Nat /\ b = a + (b - a)
      BY <1>3
    <3> QED
      BY <3>1
  <2>2. d * WriteTicks \in Nat /\ a * WriteTicks \in Nat
    BY <1>1
  <2>3. b * WriteTicks = a * WriteTicks + d * WriteTicks
    BY <1>1, <2>1
  <2> QED
    BY <2>2, <2>3
<1>4. PICK all \in Nat : all = MaxBatch * WriteTicks
  BY <1>1, <1>2
<1>5. /\ LongestStretch = Longer(DiscoveryTicks + 4 * WriteTicks, 1 + (all + 2 * WriteTicks))
      /\ LongestPass = HostingTicks + Longer(DiscoveryTicks, 1 + all) + 4 * WriteTicks
  <2>1. (MaxBatch + 2) * WriteTicks = MaxBatch * WriteTicks + 2 * WriteTicks
    BY <1>1
  <2> QED
    BY <1>4, <2>1 DEF LongestStretch, LongestPass
<1>6. 1 * WriteTicks <= all /\ 1 * WriteTicks = WriteTicks /\ 0 * WriteTicks = 0
  BY <1>1, <1>3, <1>4
<1>7. /\ LongestStretch \in Nat /\ LongestPass \in Nat
      /\ DiscoveryTicks + 4 * WriteTicks <= LongestStretch
      /\ 1 + all + 2 * WriteTicks <= LongestStretch
      /\ HostingTicks + DiscoveryTicks + 4 * WriteTicks <= LongestPass
      /\ HostingTicks + 1 + all + 4 * WriteTicks <= LongestPass
  BY <1>1, <1>4, <1>5 DEF Longer
<1>8. ASSUME NEW b \in 0..MaxBatch
      PROVE  /\ Records(b) \in Nat /\ WriteTicks <= Records(b)
             /\ Records(b) <= all + WriteTicks
             /\ b # 0 => b - 1 \in 0..MaxBatch /\ Records(b) = Records(b - 1) + WriteTicks
  <2>1. b \in Nat /\ b <= MaxBatch
    BY <1>1
  <2>2. b * WriteTicks <= all
    BY <1>1, <1>3, <1>4, <2>1
  <2>3. /\ Records(b) \in Nat /\ WriteTicks <= Records(b)
        /\ Records(b) <= all + WriteTicks
    BY <1>1, <1>2, <1>4, <2>1, <2>2
  <2>4. ASSUME b # 0 PROVE b - 1 \in 0..MaxBatch /\ Records(b) = Records(b - 1) + WriteTicks
    <3>1. b - 1 \in Nat /\ b - 1 \in 0..MaxBatch /\ b = (b - 1) + 1
      BY <1>1, <2>1, <2>4
    <3>2. b * WriteTicks = (b - 1) * WriteTicks + WriteTicks
      BY <1>1, <3>1
    <3> QED
      BY <1>2, <2>1, <3>1, <3>2
  <2> QED
    BY <2>3, <2>4
<1>9. Records(0) = WriteTicks
  BY <1>1, <1>2, <1>6
<1> QED
  BY <1>1, <1>4, <1>6, <1>7, <1>8, <1>9

(* How long each call may block. *)
LEMMA CallTimes ==
  /\ LongestCall \in Nat
  /\ pc = "reader" /\ ~ session => LongestCall = WriteTicks + DiscoveryTicks
  /\ pc = "reader" /\ session => LongestCall = WriteTicks + 1
  /\ pc = "sleeping" => LongestCall = WriteTicks + 1
  /\ pc = "hosting" => LongestCall = WriteTicks + HostingTicks
  /\ pc \notin {"reader", "sleeping", "hosting"} => LongestCall = WriteTicks
<1>1. WriteTicks \in Nat /\ DiscoveryTicks \in Nat /\ HostingTicks \in Nat
  BY ServiceAssumption
<1>2. CASE pc = "reader" /\ ~ session
  BY <1>1, <1>2 DEF LongestCall
<1>3. CASE pc = "reader" /\ session
  BY <1>1, <1>3 DEF LongestCall
<1>4. CASE pc = "sleeping"
  BY <1>1, <1>4 DEF LongestCall
<1>5. CASE pc = "hosting"
  BY <1>1, <1>5 DEF LongestCall
<1>6. CASE pc \notin {"reader", "sleeping", "hosting"}
  BY <1>1, <1>6 DEF LongestCall
<1> QED
  BY <1>2, <1>3, <1>4, <1>5, <1>6

(* What is left when each call begins. *)
LEMMA LeftFacts ==
  ASSUME NEW b
  PROVE  /\ Left("ready_health", b) = 3 * WriteTicks
         /\ \A p \in {"announcing", "waiting"} : Left(p, b) = 2 * WriteTicks
         /\ Left("loop", b) = WriteTicks
         /\ Left("records", b) = Records(b)
         /\ \A p \in {"reader", "sleeping"} : Left(p, b) = LongestStretch
BY DEF Left

(* The thread's invariant holds at the start. *)
LEMMA HostInitially == HostInit => HostInv
<1> SUFFICES ASSUME HostInit PROVE HostInv
  OBVIOUS
<1>1. IInv
  BY InitIsInductive DEF HostInit
<1>2. pc = "start" /\ state = "initializing" /\ past.auditLost = FALSE
  BY DEF HostInit, Init
<1>3. Clocked
  <2>1. spent = 0 /\ batch = 0 /\ MaxBatch \in Nat /\ LongestCall \in Nat
    BY CallTimes, ServiceAssumption DEF HostInit
  <2> QED
    BY <2>1 DEF Clocked
<1> QED
  BY <1>1, <1>2, <1>3 DEF HostInv, Unharmed, Timely, ShutDown, ExitIsSafe, Running, Exiting

(* The host's own cleanup of the relay, beside the controller, keeps what    *)
(* the controller says of it.                                                *)
LEMMA FallbackStep ==
  ASSUME HostInv, Fallback
  PROVE  /\ IInv' /\ (~ failed' => ~ failed)
         /\ UNCHANGED <<now, state, release_deadline, past, health>>
         /\ relay'.pin = "high" => relay.pin = "high"
         /\ ~ failed' => relay'.pin # "high" /\ (relay'.channel => relay'.closed)
<1>1. PICK c \in CleanupOutcomes(relay) :
        relay' = c.relay /\ failed' \in {failed \/ ~ c.ok, TRUE}
  BY DEF Fallback
<1>2. relay \in Relays /\ (relay.closed => relay.pin = "input")
  BY DEF HostInv, IInv, TypeOK, RelayShape
<1>3. /\ c.ok \in BOOLEAN
      /\ c.relay \in Relays
      /\ c.relay.channel = relay.channel
      /\ c.relay.pin \in {relay.pin, "low", "input"}
      /\ relay.closed => c.relay = relay
      /\ c.relay.closed => c.relay.pin = "input"
      /\ c.ok /\ Usable(relay) => c.relay.closed /\ c.relay.pin = "input"
  BY <1>2, CleanupFacts
<1>4. UNCHANGED <<now, state, release_deadline, last_command, tracker, notified, call, past, health>>
  BY DEF Fallback
<1>5. state \in Halted
  BY DEF HostInv, ShutDown, Fallback
<1>6. IInv'
  <2>1. TypeOK'
    BY <1>1, <1>3, <1>4 DEF HostInv, IInv, TypeOK
  <2>2. RelayShape'
    BY <1>1, <1>3, <1>4, <1>5 DEF HostInv, IInv, RelayShape, Halted
  <2>3. HighIsAccountedFor' /\ ReleasedIsTimed' /\ ClaimsAreTrue'
    BY <1>1, <1>3, <1>4, <1>5
    DEF HostInv, IInv, HighIsAccountedFor, ReleasedIsTimed, ClaimsAreTrue, Halted
  <2>4. FaultIsRecorded' /\ CriticalIsNotSilent'
    BY <1>4 DEF HostInv, IInv, FaultIsRecorded, CriticalIsNotSilent
  <2> QED
    BY <2>1, <2>2, <2>3, <2>4 DEF IInv
<1>7. ~ failed' => relay'.pin # "high" /\ (relay'.channel => relay'.closed)
  BY <1>1, <1>2, <1>3 DEF HostInv, IInv, RelayShape, Usable
<1>8. ~ failed' => ~ failed
  BY <1>1
<1> QED
  BY <1>1, <1>3, <1>4, <1>6, <1>7, <1>8

(* The thread calls the controller, cleans up beside it or leaves it alone.  *)
LEMMA ThreadCalls ==
  ASSUME Thread
  PROVE  \/ Fallback \/ UNCHANGED vars
         \/ Start \/ Process \/ Tick \/ RecoverableFailure \/ Shutdown
<1>1. CASE StartService \/ LoopHead \/ WaitInterval \/ EndIteration
  BY <1>1 DEF StartService, LoopHead, WaitInterval, EndIteration, TickCall, Start, controller
<1>2. CASE StartReport \/ HostingEnds \/ ConnectReader \/ ReadyReport \/ Announce
  BY <1>2 DEF StartReport, HostingEnds, ConnectReader, ReadyReport, Announce, controller
<1>3. CASE FaultReport \/ CloseReader \/ StoppedReport \/ WaitSleep \/ ReadReader
  BY <1>3 DEF FaultReport, CloseReader, StoppedReport, WaitSleep, ReadReader, controller
<1>4. CASE SubmitRecord \/ FailSecure \/ ShutdownAccess
  BY <1>4 DEF SubmitRecord, FailSecure, ShutdownAccess
<1> QED
  BY <1>1, <1>2, <1>3, <1>4 DEF Thread, Steps

(* Every step but the host's cleanup is a step of the controller or leaves   *)
(* it alone.                                                                 *)
LEMMA StepIsControllers ==
  ASSUME [HostNext]_allVars
  PROVE  Fallback \/ [Next]_vars
<1>1. CASE Thread
  BY <1>1, ThreadCalls DEF Next
<1>2. CASE Elapses
  BY <1>2 DEF Elapses, Next
<1>3. CASE RequestShutdown \/ UNCHANGED allVars
  BY <1>3 DEF RequestShutdown, controller, allVars
<1> QED
  BY <1>1, <1>2, <1>3 DEF HostNext

(* Whatever the thread does keeps the controller's invariant. *)
LEMMA StepKeepsIInv == HostInv /\ [HostNext]_allVars => IInv'
BY StepIsControllers, NextStep, FallbackStep DEF HostInv

-----------------------------------------------------------------------------
(* After a tick no release is due. *)
LEMMA Ticked ==
  ASSUME HostInv, NEW next, TickCall(next)
  PROVE  /\ UNCHANGED now
         /\ call'.raised \/ past'.auditLost = past.auditLost \/ UNCHANGED past
         /\ \/ UNCHANGED <<state, release_deadline>>
            \/ state = "released" /\ state' \in {"ready", "faulted"}
         /\ state' = "released" => now < release_deadline'
         /\ \/ pc' = next /\ past'.auditLost = past.auditLost
            \/ pc' = "fault_health"
<1>1. /\ now \in Nat /\ release_deadline \in Nat \cup {NoTime} /\ NoTime = -1
      /\ state = "released" => release_deadline # NoTime
  BY ControllerAssumption DEF HostInv, IInv, TypeOK, ReleasedIsTimed, NoTime
<1>2. CASE Tick /\ After(next)
  <2>1. NothingLost /\ state' \in {"ready", "faulted"} /\ UNCHANGED now /\ state = "released"
    BY <1>2, TickCallFacts DEF HostInv, Tick, TickDue
  <2> QED
    BY <1>2, <2>1 DEF After, Escape, NothingLost
<1>3. CASE ~ TickDue /\ pc' = next /\ UNCHANGED <<controller, failed>>
  BY <1>1, <1>3 DEF TickDue, controller, vars
<1> QED
  BY <1>2, <1>3 DEF TickCall

(* A step of the thread takes no time: its call has.                         *)
LEMMA Instant ==
  ASSUME HostInv, Thread
  PROVE  UNCHANGED now /\ spent' = 0
<1>1. UNCHANGED now
  <2>1. CASE Start
    BY <2>1 DEF Start, StartInitializing, StartRefused
  <2>2. CASE Process
    BY <2>2, ProcessCall DEF HostInv
  <2>3. CASE Tick \/ RecoverableFailure
    BY <2>3 DEF Tick, RecoverableFailure
  <2>4. CASE Shutdown
    BY <2>4, ShutdownFacts DEF HostInv
  <2>5. CASE Fallback \/ UNCHANGED vars
    BY <2>5 DEF Fallback, vars
  <2> QED
    BY <2>1, <2>2, <2>3, <2>4, <2>5, ThreadCalls
<1> QED
  BY <1>1 DEF Thread

(* The clock of the calls. *)
LEMMA ClockedStep ==
  ASSUME HostInv, [HostNext]_allVars
  PROVE  Clocked'
<1>1. spent \in Nat /\ spent <= LongestCall /\ batch \in 0..MaxBatch /\ MaxBatch \in Nat
  BY ServiceAssumption DEF HostInv, Clocked
<1>2. CASE Thread
  <2>1. spent' = 0
    BY <1>2 DEF Thread
  <2>2. LongestCall' \in Nat
    BY ServiceAssumption DEF LongestCall
  <2>3. batch' = batch \/ batch' \in 0..MaxBatch \/ (batch' = batch - 1 /\ batch > 0)
    <3>1. CASE ReadReader \/ SubmitRecord
      BY <1>1, <3>1 DEF ReadReader, SubmitRecord
    <3>2. CASE StartService \/ StartReport \/ HostingEnds \/ LoopHead \/ ConnectReader \/ ReadyReport
      BY <3>2 DEF StartService, StartReport, HostingEnds, LoopHead, ConnectReader, ReadyReport
    <3>3. CASE Announce \/ WaitInterval \/ WaitSleep \/ EndIteration \/ FaultReport \/ FailSecure
      BY <3>3 DEF Announce, WaitInterval, WaitSleep, EndIteration, FaultReport, FailSecure
    <3>4. CASE ShutdownAccess \/ CloseReader \/ StoppedReport \/ Fallback
      BY <3>4 DEF ShutdownAccess, CloseReader, StoppedReport, Fallback
    <3> QED
      BY <1>2, <3>1, <3>2, <3>3, <3>4 DEF Thread, Steps
  <2>4. batch' \in 0..MaxBatch
    BY <1>1, <2>3
  <2> QED
    BY <2>1, <2>2, <2>4 DEF Clocked
<1>3. CASE Elapses
  <2>1. UNCHANGED <<pc, session, batch>> /\ spent' = spent + 1 /\ spent < LongestCall
    BY <1>3 DEF Elapses
  <2>2. LongestCall' = LongestCall
    BY <2>1 DEF LongestCall
  <2>3. LongestCall \in Nat
    BY CallTimes
  <2> QED
    BY <1>1, <2>1, <2>2, <2>3 DEF Clocked
<1>4. CASE RequestShutdown \/ UNCHANGED allVars
  <2>1. UNCHANGED <<pc, session, batch, spent>>
    BY <1>4 DEF RequestShutdown, allVars, host
  <2>2. LongestCall' = LongestCall
    BY <2>1 DEF LongestCall
  <2> QED
    BY <1>1, <2>1, <2>2 DEF Clocked
<1> QED
  BY <1>2, <1>3, <1>4 DEF HostNext

(* When the call of the loop that a release is in can end, at the latest.    *)
LEMMA Late ==
  ASSUME HostInv, state = "released", pc \in Running
  PROVE  /\ now \in Nat /\ release_deadline \in Nat
         /\ pc = "reader" /\ ~ session => now < release_deadline + DiscoveryTicks + WriteTicks
         /\ pc = "reader" /\ session => now < release_deadline + 1 + WriteTicks
         /\ pc = "sleeping" => now < release_deadline + 1 + WriteTicks
         /\ pc = "ready_health" => now + 2 * WriteTicks < release_deadline + LongestStretch
         /\ pc \in {"announcing", "waiting"} => now + WriteTicks < release_deadline + LongestStretch
         /\ pc = "loop" => now < release_deadline + LongestStretch
         /\ pc = "records" => now + Records(batch) < release_deadline + LongestStretch + WriteTicks
         /\ now < release_deadline + LongestStretch
<1>1. /\ now \in Nat /\ release_deadline \in Nat
      /\ spent \in Nat /\ spent <= LongestCall /\ batch \in 0..MaxBatch
      /\ pc \notin {"start", "start_health", "hosting"}
      /\ now - spent + Left(pc, batch) < release_deadline + LongestStretch
  BY ControllerAssumption DEF HostInv, IInv, TypeOK, ReleasedIsTimed, NoTime, Clocked, Timely
<1>2. /\ WriteTicks \in Nat /\ DiscoveryTicks \in Nat /\ LongestStretch \in Nat
      /\ DiscoveryTicks + 4 * WriteTicks <= LongestStretch
      /\ 1 + 3 * WriteTicks <= LongestStretch
      /\ Records(batch) \in Nat /\ WriteTicks <= Records(batch)
  BY <1>1, Times
<1>3. CASE pc = "reader" /\ ~ session
  <2>1. LongestCall = WriteTicks + DiscoveryTicks /\ Left(pc, batch) = LongestStretch
    BY <1>3, CallTimes, LeftFacts
  <2> QED
    BY <1>1, <1>2, <1>3, <2>1
<1>4. CASE (pc = "reader" /\ session) \/ pc = "sleeping"
  <2>1. LongestCall = WriteTicks + 1 /\ Left(pc, batch) = LongestStretch
    BY <1>4, CallTimes, LeftFacts
  <2> QED
    BY <1>1, <1>2, <1>4, <2>1
<1>5. CASE pc = "ready_health"
  <2>1. LongestCall = WriteTicks /\ Left(pc, batch) = 3 * WriteTicks
    BY <1>5, CallTimes, LeftFacts
  <2> QED
    BY <1>1, <1>2, <1>5, <2>1
<1>6. CASE pc \in {"announcing", "waiting"}
  <2>1. LongestCall = WriteTicks /\ Left(pc, batch) = 2 * WriteTicks
    BY <1>6, CallTimes, LeftFacts
  <2> QED
    BY <1>1, <1>2, <1>6, <2>1
<1>7. CASE pc = "loop"
  <2>1. LongestCall = WriteTicks /\ Left(pc, batch) = WriteTicks
    BY <1>7, CallTimes, LeftFacts
  <2> QED
    BY <1>1, <1>2, <1>7, <2>1
<1>8. CASE pc = "records"
  <2>1. LongestCall = WriteTicks /\ Left(pc, batch) = Records(batch)
    BY <1>8, CallTimes, LeftFacts
  <2> QED
    BY <1>1, <1>2, <1>8, <2>1
<1> QED
  BY <1>1, <1>3, <1>4, <1>5, <1>6, <1>7, <1>8 DEF Running

(* The next call begins in time for the tick after it. *)
NextInTime ==
  state' = "released" /\ pc' \in Running =>
    /\ pc' \notin {"start", "start_health", "hosting"}
    /\ now + Left(pc', batch') < release_deadline' + LongestStretch

(* A call that leaves the controller alone is followed in time. *)
LEMMA GoesOnInTime ==
  ASSUME HostInv, Thread, pc \in Running, UNCHANGED controller,
         StartReport \/ HostingEnds \/ ReadyReport \/ Announce \/ ConnectReader \/ WaitSleep \/ ReadReader
           \/ (LoopHead /\ pc' = "shutdown") \/ (WaitInterval /\ pc' = "loop")
  PROVE  /\ NextInTime
         /\ pc' \in Running \cup {"shutdown", "fault_health"}
<1>1. UNCHANGED <<state, release_deadline>>
  BY DEF controller, vars
<1>2. /\ WriteTicks \in Nat /\ DiscoveryTicks \in Nat /\ LongestStretch \in Nat
      /\ DiscoveryTicks + 4 * WriteTicks <= LongestStretch
      /\ 1 + 3 * WriteTicks <= LongestStretch
      /\ \A b \in 0..MaxBatch : Records(b) \in Nat /\ 1 + WriteTicks + Records(b) <= LongestStretch
  BY Times
<1>3. CASE StartReport \/ HostingEnds
  <2>1. state # "released"
    BY <1>3 DEF HostInv, Timely, StartReport, HostingEnds
  <2> QED
    BY <1>1, <1>3, <2>1 DEF NextInTime, StartReport, HostingEnds, Report, Escape, Running
<1>4. CASE ReadyReport
  <2>1. pc = "ready_health" /\ pc' \in {"announcing", "fault_health"}
    BY <1>4 DEF ReadyReport, Report, Escape
  <2>2. state = "released" => now + 2 * WriteTicks < release_deadline + LongestStretch
    BY <2>1, Late
  <2> QED
    BY <1>1, <2>1, <2>2, LeftFacts DEF NextInTime, Running
<1>5. CASE Announce \/ (WaitInterval /\ pc' = "loop")
  <2>1. pc \in {"announcing", "waiting"} /\ pc' \in {"loop", "fault_health"}
    BY <1>5 DEF Announce, WaitInterval, Report, Escape
  <2>2. state = "released" => now + WriteTicks < release_deadline + LongestStretch
    BY <2>1, Late
  <2> QED
    BY <1>1, <2>1, <2>2, LeftFacts DEF NextInTime, Running
<1>6. CASE LoopHead /\ pc' = "shutdown"
  BY <1>6 DEF NextInTime, Running
<1>7. CASE ConnectReader
  <2>1. pc = "reader" /\ ~ session /\ pc' \in {"ready_health", "waiting", "fault_health"}
    BY <1>7 DEF ConnectReader, Escape
  <2>2. state = "released" => /\ now \in Nat /\ release_deadline \in Nat
                              /\ now < release_deadline + DiscoveryTicks + WriteTicks
    BY <2>1, Late
  <2>3. state = "released" => /\ now + 3 * WriteTicks < release_deadline + LongestStretch
                              /\ now + 2 * WriteTicks < release_deadline + LongestStretch
    BY <1>2, <2>2
  <2> QED
    BY <1>1, <2>1, <2>3, LeftFacts DEF NextInTime, Running
<1>8. CASE WaitSleep
  <2>1. pc = "sleeping" /\ pc' \in {"loop", "waiting"}
    BY <1>8 DEF WaitSleep
  <2>2. state = "released" => /\ now \in Nat /\ release_deadline \in Nat
                              /\ now < release_deadline + 1 + WriteTicks
    BY <2>1, Late
  <2>3. state = "released" => /\ now + WriteTicks < release_deadline + LongestStretch
                              /\ now + 2 * WriteTicks < release_deadline + LongestStretch
    BY <1>2, <2>2
  <2> QED
    BY <1>1, <2>1, <2>3, LeftFacts DEF NextInTime, Running
<1>9. CASE ReadReader
  <2>1. pc = "reader" /\ session /\ pc' \in {"records", "fault_health"}
    BY <1>9 DEF ReadReader, Escape
  <2>2. batch' \in 0..MaxBatch
    BY ClockedStep DEF HostNext, Clocked
  <2>3. state = "released" => /\ now \in Nat /\ release_deadline \in Nat
                              /\ now < release_deadline + 1 + WriteTicks
    BY <2>1, Late
  <2>4. PICK r \in Nat : r = Records(batch') /\ 1 + WriteTicks + r <= LongestStretch
    BY <1>2, <2>2
  <2>5. state = "released" => now + r < release_deadline + LongestStretch
    BY <1>2, <2>3, <2>4
  <2> QED
    BY <1>1, <2>1, <2>4, <2>5, LeftFacts DEF NextInTime, Running
<1> QED
  BY <1>3, <1>4, <1>5, <1>6, <1>7, <1>8, <1>9

(* So is one that ticks: no release is due when it begins. *)
LEMMA TicksInTime ==
  ASSUME HostInv, NEW next \in {"reader", "sleeping", "loop"}, TickCall(next),
         HostInv => IInv'
  PROVE  NextInTime /\ pc' \in {next, "fault_health"}
<1>1. /\ state' = "released" => now < release_deadline'
      /\ pc' \in {next, "fault_health"}
  BY Ticked
<1>2. /\ now \in Nat /\ WriteTicks \in Nat /\ LongestStretch \in Nat
      /\ 1 + 3 * WriteTicks <= LongestStretch
  BY Times, ControllerAssumption DEF HostInv, IInv, TypeOK
<1>3. state' = "released" => release_deadline' \in Nat
  BY ControllerAssumption DEF IInv, TypeOK, ReleasedIsTimed, NoTime
<1>4. state' = "released" => /\ now + LongestStretch < release_deadline' + LongestStretch
                             /\ now + WriteTicks < release_deadline' + LongestStretch
  BY <1>1, <1>2, <1>3
<1> QED
  BY <1>1, <1>4, LeftFacts DEF NextInTime, Running

(* So is a record. *)
LEMMA RecordInTime ==
  ASSUME HostInv, SubmitRecord
  PROVE  NextInTime /\ pc' \in {"records", "fault_health"}
<1>1. /\ pc = "records" /\ batch > 0
      /\ \/ pc' = "fault_health"
         \/ pc' = "records" /\ batch' = batch - 1
      /\ \/ UNCHANGED <<state, release_deadline>>
         \/ state' = "faulted"
         \/ state' = "released" /\ release_deadline' = now + ReleaseSeconds
  BY ProcessCall DEF HostInv, SubmitRecord, After, Escape
<1>2. batch \in 0..MaxBatch /\ batch # 0
  BY <1>1 DEF HostInv, Clocked
<1>3. /\ WriteTicks \in Nat /\ LongestStretch \in Nat
      /\ 1 + 3 * WriteTicks <= LongestStretch
      /\ Records(batch - 1) \in Nat /\ 1 + WriteTicks + Records(batch - 1) <= LongestStretch
      /\ Records(batch) = Records(batch - 1) + WriteTicks
  BY <1>2, Times
<1>4. now \in Nat /\ ReleaseSeconds \in Nat
  BY ControllerAssumption DEF HostInv, IInv, TypeOK
<1>5. state = "released" =>
        release_deadline \in Nat /\ now + Records(batch) < release_deadline + LongestStretch + WriteTicks
  BY <1>1, Late DEF Running
<1>6. PICK r \in Nat : r = Records(batch - 1)
  BY <1>3
<1>7. state = "released" => now + r < release_deadline + LongestStretch
  BY <1>3, <1>4, <1>5, <1>6
<1>8. now + r < (now + ReleaseSeconds) + LongestStretch
  BY <1>3, <1>4, <1>6
<1> QED
  BY <1>1, <1>6, <1>7, <1>8, LeftFacts DEF NextInTime, Running

(* The steps of the loop. *)
LEMMA RunningStep ==
  ASSUME HostInv, [HostNext]_allVars, pc \in Running
  PROVE  /\ pc' \in Running \cup Exiting /\ pc' \notin {"close_reader", "stopped_health", "fallback", "done"}
         /\ Unharmed' /\ Timely'
<1>1. ~ past.auditLost /\ state \notin {"shutting_down", "stopped"}
  BY DEF HostInv, Unharmed
<1>2. {"shutdown", "fault_health"} \subseteq Exiting \ Running
  BY DEF Running, Exiting
<1>3. ASSUME Thread, NextInTime
      PROVE  Timely' \/ (state' = "released" /\ pc' \in {"start", "start_health", "hosting"})
  <2>1. spent' = 0 /\ now' = now /\ now \in Nat
    BY <1>3, Instant, ControllerAssumption DEF HostInv, IInv, TypeOK
  <2>2. now' - spent' = now
    BY <2>1
  <2> QED
    BY <1>3, <2>2 DEF Timely, NextInTime
<1>4. ASSUME NextInTime
      PROVE  ~ (state' = "released" /\ pc' \in {"start", "start_health", "hosting"})
  BY <1>4 DEF NextInTime, Running
<1>5. CASE StartService /\ Thread
  <2>1. NothingLost /\ state' \in {"ready", "faulted"} /\ pc' \in {"start_health", "fault_health"}
        /\ (pc' = "fault_health" \/ ~ call'.raised)
    BY <1>5, StartCall DEF HostInv, StartService, After, Escape
  <2> QED
    BY <1>1, <1>2, <2>1 DEF Unharmed, Timely, NothingLost, Running
<1>6. CASE Thread /\ UNCHANGED controller /\ NextInTime /\ pc' \in Running \cup {"shutdown", "fault_health"}
  <2>1. UNCHANGED <<past, state>>
    BY <1>6 DEF controller, vars
  <2> QED
    BY <1>1, <1>2, <1>3, <1>4, <1>6, <2>1 DEF Unharmed, Running, Exiting
<1>7. CASE Thread /\ \E next \in {"reader", "sleeping", "loop"} : TickCall(next)
  <2>1. PICK next \in {"reader", "sleeping", "loop"} : TickCall(next)
    BY <1>7
  <2>2. NextInTime /\ pc' \in {next, "fault_health"}
    BY <2>1, StepKeepsIInv, TicksInTime
  <2>3. /\ state' = state \/ state' \in {"ready", "faulted"}
        /\ pc' = "fault_health" \/ past'.auditLost = past.auditLost
    BY <2>1, Ticked
  <2> QED
    BY <1>1, <1>2, <1>3, <1>4, <1>7, <2>2, <2>3 DEF Unharmed, Running, Exiting
<1>8. CASE SubmitRecord /\ Thread
  <2>1. NextInTime /\ pc' \in {"records", "fault_health"}
    BY <1>8, RecordInTime
  <2>2. /\ state' = state \/ state' \in {"released", "faulted"}
        /\ pc' = "fault_health" \/ past'.auditLost = past.auditLost
    BY <1>8, ProcessCall DEF HostInv, SubmitRecord, After, Escape, NothingLost
  <2> QED
    BY <1>1, <1>2, <1>3, <1>4, <1>8, <2>1, <2>2 DEF Unharmed, Running, Exiting
<1>9. CASE Elapses
  <2>1. /\ UNCHANGED <<pc, batch, state, release_deadline, past>>
        /\ now' = now + 1 /\ spent' = spent + 1
    BY <1>9 DEF Elapses, Advance
  <2>2. now' - spent' = now - spent
    BY <2>1, ControllerAssumption DEF HostInv, Clocked, IInv, TypeOK
  <2> QED
    BY <1>1, <2>1, <2>2 DEF HostInv, Unharmed, Timely, Running
<1>10. CASE RequestShutdown \/ UNCHANGED allVars
  BY <1>1, <1>10 DEF HostInv, Timely, Unharmed, RequestShutdown, controller, vars, host, allVars, Running
<1>11. CASE Thread
  <2>1. ~ (FaultReport \/ FailSecure \/ ShutdownAccess \/ CloseReader \/ StoppedReport \/ Fallback)
    BY DEF FaultReport, FailSecure, ShutdownAccess, CloseReader, StoppedReport, Fallback, Running
  <2>2. CASE LoopHead \/ WaitInterval \/ EndIteration
    <3>1. \/ \E next \in {"reader", "sleeping", "loop"} : TickCall(next)
          \/ LoopHead /\ pc' = "shutdown" /\ UNCHANGED controller
          \/ WaitInterval /\ pc' = "loop" /\ UNCHANGED controller
      BY <2>2 DEF LoopHead, WaitInterval, EndIteration
    <3> QED
      BY <1>6, <1>7, <1>11, <3>1, GoesOnInTime
  <2>3. CASE StartReport \/ HostingEnds \/ ReadyReport \/ Announce \/ ConnectReader \/ WaitSleep \/ ReadReader
    <3>1. UNCHANGED controller
      BY <2>3 DEF StartReport, HostingEnds, ReadyReport, Announce, ConnectReader, WaitSleep, ReadReader
    <3> QED
      BY <1>6, <1>11, <2>3, <3>1, GoesOnInTime
  <2> QED
    BY <1>5, <1>8, <1>11, <2>1, <2>2, <2>3 DEF Thread, Steps
<1> QED
  BY <1>9, <1>10, <1>11 DEF HostNext

(* The steps after the loop: none makes the relay or the controller's state  *)
(* worse, and each is followed by a step of the exit.                        *)
LEMMA ExitingStep ==
  ASSUME HostInv, [HostNext]_allVars, pc \in Exiting
  PROVE  /\ pc' \in Exiting /\ ShutDown' /\ ExitIsSafe'
         /\ relay'.pin = "high" => relay.pin = "high"
         /\ state' \in {"ready", "released"} => state' = state
<1> USE DEF ShutDown, ExitIsSafe, Exiting
<1>1. /\ ShutDown /\ ExitIsSafe
      /\ relay.pin \in Pins
  BY DEF HostInv, IInv, TypeOK, Relays
<1>2. CASE FaultReport
  BY <1>1, <1>2 DEF FaultReport, Report, controller, vars
<1>3. CASE FailSecure
  BY <1>1, <1>3, RecoverableFacts DEF FailSecure, HostInv
<1>4. CASE ShutdownAccess
  BY <1>1, <1>4, ShutdownFacts DEF ShutdownAccess, HostInv, Halted
<1>5. CASE CloseReader
  BY <1>1, <1>5 DEF CloseReader, controller, vars
<1>6. CASE StoppedReport
  BY <1>1, <1>6 DEF StoppedReport, controller, vars
<1>7. CASE Fallback
  <2>1. /\ pc = "fallback" /\ pc' = "done"
    BY <1>7 DEF Fallback
  <2> QED
    BY <1>1, <1>7, <2>1, FallbackStep
<1>8. CASE RequestShutdown \/ UNCHANGED allVars
  BY <1>1, <1>8 DEF RequestShutdown, controller, vars, host, allVars
<1>9. pc \notin Running
  BY DEF Running
<1>10. ~ (StartService \/ StartReport \/ HostingEnds \/ LoopHead \/ ConnectReader \/ ReadyReport
          \/ Announce \/ WaitInterval \/ WaitSleep \/ ReadReader \/ SubmitRecord \/ EndIteration
          \/ Elapses)
  BY <1>9 DEF Running, StartService, StartReport, HostingEnds, LoopHead, ConnectReader, ReadyReport,
              Announce, WaitInterval, WaitSleep, ReadReader, SubmitRecord, EndIteration, Elapses
<1> QED
  BY <1>2, <1>3, <1>4, <1>5, <1>6, <1>7, <1>8, <1>10 DEF HostNext, Thread, Steps

(* HostInv is inductive. *)
LEMMA HostStep == HostInv /\ [HostNext]_allVars => HostInv'
<1> SUFFICES ASSUME HostInv, [HostNext]_allVars PROVE HostInv'
  OBVIOUS
<1>1. IInv'
  BY StepKeepsIInv
<1>2. CASE pc \in Running
  <2>1. ShutDown' /\ ExitIsSafe'
    BY <1>2, RunningStep DEF ShutDown, ExitIsSafe
  <2> QED
    BY <1>1, <1>2, <2>1, RunningStep, ClockedStep DEF HostInv
<1>3. CASE pc \in Exiting
  <2>1. pc' \notin Running /\ pc' \in Exiting
    BY <1>3, ExitingStep DEF Running, Exiting
  <2>2. Unharmed' /\ Timely'
    BY <2>1 DEF Unharmed, Timely, Running
  <2> QED
    BY <1>1, <1>3, <2>1, <2>2, ExitingStep, ClockedStep DEF HostInv
<1> QED
  BY <1>2, <1>3 DEF HostInv

(* The invariant of the control thread holds of every behaviour of it. *)
THEOREM HostInductive == HostSpec => []HostInv
BY HostInitially, HostStep, PTL DEF HostSpec

-----------------------------------------------------------------------------
(* FR-013: whatever raised on the way, a process that set the relay up does  *)
(* not end normally with the pin HIGH or the channel still claimed.          *)
THEOREM ExitIsSafeCorrect == HostSpec => []ExitIsSafe
BY HostInductive, PTL DEF HostInv

(* FR-007: in the loop a release outlasts its deadline by less than the      *)
(* longest stretch without a tick, whatever discovery and writes take.       *)
THEOREM ReleaseEndsOnTimeCorrect == HostSpec => []ReleaseEndsOnTime
<1>1. HostInv => ReleaseEndsOnTime
  BY Late DEF ReleaseEndsOnTime
<1> QED
  BY <1>1, HostInductive, PTL

(* AC-015: an unattended HIGH pin never stays in the loop unrecorded.        *)
THEOREM LoopNeverHidesAHighPinCorrect == HostSpec => []LoopNeverHidesAHighPin
<1>1. HostInv => LoopNeverHidesAHighPin
  <2> SUFFICES ASSUME HostInv, relay.pin = "high", pc \in Running, state # "released"
               PROVE  state = "faulted" /\ past.faultRecorded
    BY DEF LoopNeverHidesAHighPin
  <2>1. past.faultRecorded /\ state \notin {"shutting_down", "stopped", "ready"}
    BY DEF HostInv, Unharmed, IInv, HighIsAccountedFor, ClaimsAreTrue
  <2>2. state # "initializing"
    BY DEF HostInv, IInv, RelayShape, NewRelay
  <2> QED
    BY <2>1, <2>2 DEF HostInv, IInv, TypeOK, ControllerStates
<1> QED
  BY <1>1, HostInductive, PTL

(* Once the loop is left nothing drives the pin HIGH or makes the controller *)
(* accept credentials again, although some may be waiting in the batch.      *)
THEOREM NoReleaseWhileExitingCorrect == HostSpec => NoReleaseWhileExiting
BY HostInductive, ExitingStep, PTL DEF HostSpec, NoReleaseWhileExiting

-----------------------------------------------------------------------------
(* What the API is shown of the thread.                                      *)

(* The ways through the loop. *)
Path ==
  \/ pc = "start" /\ pc' = "start_health"
  \/ pc = "start_health" /\ pc' = "hosting"
  \/ pc = "hosting" /\ pc' = "loop"
  \/ pc = "loop" /\ pc' = "reader"
  \/ pc = "reader" /\ ~ session /\ pc' \in {"ready_health", "waiting"}
  \/ pc = "reader" /\ session /\ pc' = "records"
  \/ pc = "ready_health" /\ pc' = "announcing"
  \/ pc = "announcing" /\ pc' = "loop"
  \/ pc = "waiting" /\ pc' \in {"sleeping", "loop"}
  \/ pc = "sleeping" /\ pc' \in {"waiting", "loop"}
  \/ pc = "records" /\ batch > 0 /\ batch' = batch - 1 /\ pc' = "records"
  \/ pc = "records" /\ pc' = "loop"

(* On the way a release ends only when it is due, and nothing changes where  *)
(* the host itself acts.                                                     *)
LEMMA Passing ==
  ASSUME HostInv, Thread, pc' \in Running
  PROVE  /\ Path
         /\ state = "released" =>
              UNCHANGED <<state, release_deadline>> \/ now >= release_deadline
         /\ pc \in {"hosting", "announcing"} => UNCHANGED <<state, release_deadline, session>>
<1> USE DEF Path
<1>1. [HostNext]_allVars
  BY DEF HostNext
<1>2. pc \in Running
  BY <1>1, ExitingStep DEF HostInv, Running, Exiting
<1>3. CASE StartService
  BY <1>3, StartCall DEF HostInv, StartService, StartInitializing, After, Escape, Running
<1>4. CASE StartReport \/ HostingEnds \/ ReadyReport \/ Announce
  BY <1>4 DEF StartReport, HostingEnds, ReadyReport, Announce, Report, Escape, controller, vars, Running
<1>5. CASE LoopHead \/ WaitInterval \/ EndIteration
  <2>1. ASSUME NEW next, TickCall(next)
        PROVE  /\ pc' \in {next, "fault_health"}
               /\ state = "released" =>
                    UNCHANGED <<state, release_deadline>> \/ now >= release_deadline
    BY <2>1, Ticked DEF TickCall, Tick, TickDue, After, Escape, controller, vars
  <2>2. \/ pc = "loop" /\ (TickCall("reader") \/ (pc' = "shutdown" /\ UNCHANGED controller))
        \/ pc = "waiting" /\ (TickCall("sleeping") \/ (pc' = "loop" /\ UNCHANGED controller))
        \/ pc = "records" /\ TickCall("loop")
    BY <1>5 DEF LoopHead, WaitInterval, EndIteration
  <2> QED
    BY <2>1, <2>2 DEF controller, vars, Running
<1>6. CASE ConnectReader
  BY <1>6 DEF ConnectReader, Escape, controller, vars, Running
<1>7. CASE WaitSleep
  BY <1>7 DEF WaitSleep, controller, vars, Running
<1>8. CASE ReadReader
  BY <1>8 DEF ReadReader, Escape, controller, vars, Running
<1>9. CASE SubmitRecord
  BY <1>9, ProcessCall DEF HostInv, SubmitRecord, After, Escape, Running
<1>10. ~ (FaultReport \/ FailSecure \/ ShutdownAccess \/ CloseReader \/ StoppedReport \/ Fallback)
  BY <1>2 DEF FaultReport, FailSecure, ShutdownAccess, CloseReader, StoppedReport, Fallback, Running
<1> QED
  BY <1>3, <1>4, <1>5, <1>6, <1>7, <1>8, <1>9, <1>10 DEF Thread, Steps

(* A snapshot says what is at the moment it is taken.                        *)
LEMMA SnapshotFacts ==
  ASSUME NEW st \in ControllerStates, NEW deadline \in Nat \cup {NoTime},
         NEW connected, NEW at \in Nat
  PROVE  LET p == Snapshot(st, deadline, connected, at)
         IN  /\ p # Nothing
             /\ p.state = st /\ p.connected = connected /\ p.at = at
             /\ p.remaining \in Nat \cup {NoRemaining}
             /\ deadline # NoTime =>
                  \/ deadline > at /\ p.at + p.remaining = deadline
                  \/ deadline <= at /\ p.remaining = 0
<1> DEFINE p == Snapshot(st, deadline, connected, at)
<1>1. /\ p.state = st /\ p.connected = connected /\ p.at = at
      /\ p.remaining = IF deadline = NoTime THEN NoRemaining
                       ELSE IF deadline > at THEN deadline - at ELSE 0
  BY DEF Snapshot
<1>2. Nothing.state = "none" /\ st # "none"
  BY DEF Nothing, ControllerStates
<1> HIDE DEF p
<1>3. p # Nothing
  BY <1>1, <1>2
<1>4. /\ p.remaining \in Nat \cup {NoRemaining}
      /\ deadline # NoTime =>
           \/ deadline > at /\ p.at + p.remaining = deadline
           \/ deadline <= at /\ p.remaining = 0
  BY <1>1 DEF NoTime, NoRemaining
<1> QED
  BY <1>1, <1>3, <1>4 DEF p

(* How old the snapshot may be when the call p begins. *)
Passed(p, b) ==
  CASE p \in {"hosting", "announcing", "sleeping"} -> 0
    [] p = "loop"                                  -> HostingTicks + WriteTicks
    [] p = "reader"                                -> HostingTicks + 2 * WriteTicks
    [] p = "records"                               -> LongestPass - Records(b)
    [] OTHER                                       -> LongestPass - WriteTicks

(* The snapshot is never from the future; when a call of the loop begins, at *)
(* now - spent, it is as old as the calls since may have taken.              *)
Recent ==
  /\ pc \in {"start", "start_health"} => published = Nothing
  /\ pc \in Running \ {"start", "start_health"} => published # Nothing
  /\ published # Nothing =>
       /\ published.at \in Nat /\ published.at <= now
       /\ published.remaining \in Nat \cup {NoRemaining}
       /\ pc \in Running => now - spent <= published.at + Passed(pc, batch)

(* What may have passed since the snapshot, by the call. *)
LEMMA PassedFacts ==
  ASSUME NEW b
  PROVE  /\ \A p \in {"hosting", "announcing", "sleeping"} : Passed(p, b) = 0
         /\ Passed("loop", b) = HostingTicks + WriteTicks
         /\ Passed("reader", b) = HostingTicks + 2 * WriteTicks
         /\ Passed("records", b) = LongestPass - Records(b)
         /\ \A p \in {"ready_health", "waiting"} : Passed(p, b) = LongestPass - WriteTicks
         /\ \A p \in {"start", "start_health"} : Passed(p, b) = LongestPass - WriteTicks
BY DEF Passed

(* How old it may be when the call ends. *)
LEMMA Aged ==
  ASSUME HostInv, Recent, pc \in Running, published # Nothing
  PROVE  /\ now \in Nat /\ published.at \in Nat
         /\ pc = "hosting" => now <= published.at + HostingTicks + WriteTicks
         /\ pc = "announcing" => now <= published.at + WriteTicks
         /\ pc = "sleeping" => now <= published.at + 1 + WriteTicks
         /\ pc = "loop" => now <= published.at + HostingTicks + 2 * WriteTicks
         /\ pc = "reader" /\ ~ session =>
              now <= published.at + HostingTicks + DiscoveryTicks + 3 * WriteTicks
         /\ pc = "reader" /\ session => now <= published.at + HostingTicks + 1 + 3 * WriteTicks
         /\ pc = "records" => now + Records(batch) <= published.at + LongestPass + WriteTicks
         /\ now <= published.at + LongestPass
<1>1. /\ now \in Nat /\ published.at \in Nat
      /\ spent \in Nat /\ spent <= LongestCall /\ batch \in 0..MaxBatch
      /\ pc \notin {"start", "start_health"}
      /\ now - spent <= published.at + Passed(pc, batch)
  BY ControllerAssumption DEF HostInv, IInv, TypeOK, Clocked, Recent
<1>2. /\ WriteTicks \in Nat /\ DiscoveryTicks \in Nat /\ HostingTicks \in Nat /\ LongestPass \in Nat
      /\ HostingTicks + DiscoveryTicks + 4 * WriteTicks <= LongestPass
      /\ HostingTicks + 1 + 4 * WriteTicks <= LongestPass
      /\ Records(batch) \in Nat /\ WriteTicks <= Records(batch)
  BY <1>1, Times
<1>3. CASE pc = "hosting"
  <2>1. LongestCall = WriteTicks + HostingTicks /\ Passed(pc, batch) = 0
    BY <1>3, CallTimes, PassedFacts
  <2> QED
    BY <1>1, <1>2, <1>3, <2>1
<1>4. CASE pc = "announcing"
  <2>1. LongestCall = WriteTicks /\ Passed(pc, batch) = 0
    BY <1>4, CallTimes, PassedFacts
  <2> QED
    BY <1>1, <1>2, <1>4, <2>1
<1>5. CASE pc = "sleeping"
  <2>1. LongestCall = WriteTicks + 1 /\ Passed(pc, batch) = 0
    BY <1>5, CallTimes, PassedFacts
  <2> QED
    BY <1>1, <1>2, <1>5, <2>1
<1>6. CASE pc = "loop"
  <2>1. LongestCall = WriteTicks /\ Passed(pc, batch) = HostingTicks + WriteTicks
    BY <1>6, CallTimes, PassedFacts
  <2> QED
    BY <1>1, <1>2, <1>6, <2>1
<1>7. CASE pc = "reader" /\ ~ session
  <2>1. LongestCall = WriteTicks + DiscoveryTicks /\ Passed(pc, batch) = HostingTicks + 2 * WriteTicks
    BY <1>7, CallTimes, PassedFacts
  <2> QED
    BY <1>1, <1>2, <1>7, <2>1
<1>8. CASE pc = "reader" /\ session
  <2>1. LongestCall = WriteTicks + 1 /\ Passed(pc, batch) = HostingTicks + 2 * WriteTicks
    BY <1>8, CallTimes, PassedFacts
  <2> QED
    BY <1>1, <1>2, <1>8, <2>1
<1>9. CASE pc = "records"
  <2>1. LongestCall = WriteTicks /\ Passed(pc, batch) = LongestPass - Records(batch)
    BY <1>9, CallTimes, PassedFacts
  <2> QED
    BY <1>1, <1>2, <1>9, <2>1
<1>10. CASE pc \in {"ready_health", "waiting"}
  <2>1. LongestCall = WriteTicks /\ Passed(pc, batch) = LongestPass - WriteTicks
    BY <1>10, CallTimes, PassedFacts
  <2> QED
    BY <1>1, <1>2, <1>10, <2>1
<1> QED
  BY <1>1, <1>3, <1>4, <1>5, <1>6, <1>7, <1>8, <1>9, <1>10 DEF Running

(* A release of which the snapshot leaves more than its age is still on.     *)
StillOpen ==
  (published # Nothing /\ pc \in Running /\ published.state = "released"
    /\ now < published.at + published.remaining) =>
       state = "released" /\ release_deadline = published.at + published.remaining

LastWord == pc \in {"fallback", "done"} => published # Nothing /\ published.state = state

StatusInv ==
  /\ HostInv
  /\ Recent
  /\ StillOpen
  /\ PublishedIsCurrent
  /\ LastWord

(* The invariant of the publications holds at the start. *)
LEMMA StatusInitially == StatusInit => StatusInv
<1> SUFFICES ASSUME StatusInit PROVE StatusInv
  OBVIOUS
<1>1. HostInv /\ pc = "start" /\ published = Nothing
  BY HostInitially DEF StatusInit, HostInit
<1> QED
  BY <1>1 DEF StatusInv, Recent, StillOpen, PublishedIsCurrent, LastWord, Running

(* The thread that publishes takes the steps of the thread. *)
LEMMA StatusIsHost == [StatusNext]_statusVars => [HostNext]_allVars
BY DEF StatusNext, PublishingThread, HostNext, statusVars

(* What is published now is recent, whatever call follows. *)
LEMMA NowIsRecent ==
  ASSUME NEW p, NEW b \in 0..MaxBatch, NEW t \in Nat, NEW at, at = t, NEW s, s = 0
  PROVE  /\ at \in Nat /\ at <= t
         /\ p \in Running => t - s <= at + Passed(p, b)
<1>1. /\ WriteTicks \in Nat /\ HostingTicks \in Nat /\ LongestPass \in Nat /\ DiscoveryTicks \in Nat
      /\ HostingTicks + DiscoveryTicks + 4 * WriteTicks <= LongestPass
      /\ Records(b) \in Nat /\ HostingTicks + 1 + 3 * WriteTicks + Records(b) <= LongestPass
  BY Times
<1>2. p \in Running =>
        Passed(p, b) \in {0, HostingTicks + WriteTicks, HostingTicks + 2 * WriteTicks,
                         LongestPass - Records(b), LongestPass - WriteTicks}
  BY PassedFacts DEF Running
<1> QED
  BY <1>1, <1>2

(* A step that publishes. *)
LEMMA PublishedStep ==
  ASSUME StatusInv, Thread, HostInv',
         published' = Snapshot(state', release_deadline', session', now'),
         pc # "start"
  PROVE  Recent' /\ StillOpen' /\ PublishedIsCurrent' /\ LastWord'
<1>1. /\ state' \in ControllerStates
      /\ release_deadline' \in Nat \cup {NoTime}
      /\ now' \in Nat
      /\ state' = "released" => release_deadline' # NoTime
  <2>1. TypeOK' /\ ReleasedIsTimed'
    BY DEF HostInv, IInv
  <2>2. state' \in ControllerStates /\ (state' = "released" => release_deadline' # NoTime)
    BY <2>1 DEF TypeOK, ReleasedIsTimed
  <2>3. now' \in 0..MaxTime /\ release_deadline' \in 0..MaxTime \cup {NoTime}
    BY <2>1 DEF TypeOK
  <2>4. 0..MaxTime \subseteq Nat
    BY ControllerAssumption
  <2> QED
    BY <2>2, <2>3, <2>4
<1>2. /\ published' # Nothing
      /\ published'.state = state' /\ published'.connected = session' /\ published'.at = now'
      /\ published'.remaining \in Nat \cup {NoRemaining}
      /\ release_deadline' # NoTime =>
           \/ release_deadline' > now' /\ published'.at + published'.remaining = release_deadline'
           \/ release_deadline' <= now' /\ published'.remaining = 0
  BY <1>1, SnapshotFacts
<1>3. pc' \notin {"start", "start_health"}
  BY Passing DEF StatusInv, Path, Running
<1>4. Recent'
  <2>1. published'.at = now' /\ now' \in Nat /\ spent' = 0 /\ batch' \in 0..MaxBatch
    BY <1>1, <1>2 DEF Thread, HostInv, Clocked
  <2>2. /\ published'.at \in Nat /\ published'.at <= now'
        /\ pc' \in Running => now' - spent' <= published'.at + Passed(pc', batch')
    BY <2>1, NowIsRecent
  <2> QED
    BY <1>2, <1>3, <2>2 DEF Recent
<1>5. StillOpen'
  BY <1>1, <1>2 DEF StillOpen
<1>6. PublishedIsCurrent'
  BY <1>1, <1>2 DEF PublishedIsCurrent
<1>7. LastWord'
  BY <1>2 DEF LastWord
<1> QED
  BY <1>4, <1>5, <1>6, <1>7

(* The exit ends with the report and the host's own cleanup. *)
LEMMA LastSteps ==
  ASSUME HostInv, Thread, pc' \in {"fallback", "done"}
  PROVE  \/ pc = "stopped_health"
         \/ pc = "fallback" /\ UNCHANGED state
<1>1. [HostNext]_allVars
  BY DEF HostNext
<1>2. pc \in Exiting
  BY <1>1, RunningStep DEF HostInv
<1> QED
  BY <1>2 DEF Thread, Steps, Exiting, StartService, StartReport, HostingEnds, LoopHead,
              ConnectReader, ReadyReport, Announce, WaitInterval, WaitSleep, ReadReader,
              SubmitRecord, EndIteration, FaultReport, Report, FailSecure, ShutdownAccess,
              CloseReader, StoppedReport, Fallback

(* A call that does not publish leaves room for what follows. *)
LEMMA OnTheWay ==
  ASSUME HostInv, Recent, Thread, pc \in Running \ {"waiting", "start_health", "ready_health", "start"},
         published # Nothing, Path, pc' = "loop" => pc \in {"hosting", "announcing"}
  PROVE  now <= published.at + Passed(pc', batch')
<1>1. now \in Nat /\ published.at \in Nat /\ batch \in 0..MaxBatch /\ batch' \in 0..MaxBatch
  BY Aged, ClockedStep DEF HostNext, HostInv, Clocked
<1>2. /\ WriteTicks \in Nat /\ DiscoveryTicks \in Nat /\ HostingTicks \in Nat /\ LongestPass \in Nat
      /\ HostingTicks + DiscoveryTicks + 4 * WriteTicks <= LongestPass
      /\ HostingTicks + 1 + 4 * WriteTicks <= LongestPass
  BY Times
<1>3. PICK r \in Nat : /\ r = Records(batch')
                       /\ HostingTicks + 1 + 3 * WriteTicks + r <= LongestPass
  BY <1>1, Times
<1>4. CASE pc' = "loop"
  <2>1. now <= published.at + HostingTicks + WriteTicks
    BY <1>1, <1>2, <1>4, Aged
  <2> QED
    BY <1>1, <1>2, <1>4, <2>1, PassedFacts
<1>5. CASE pc = "loop"
  <2>1. now <= published.at + HostingTicks + 2 * WriteTicks /\ pc' = "reader"
    BY <1>5, Aged DEF Path
  <2> QED
    BY <1>1, <1>2, <2>1, PassedFacts
<1>6. CASE pc = "reader" /\ ~ session
  <2>1. /\ now <= published.at + HostingTicks + DiscoveryTicks + 3 * WriteTicks
        /\ pc' \in {"ready_health", "waiting"}
    BY <1>6, Aged DEF Path
  <2>2. now <= published.at + (LongestPass - WriteTicks)
    BY <1>1, <1>2, <2>1
  <2> QED
    BY <2>1, <2>2, PassedFacts
<1>7. CASE pc = "reader" /\ session
  <2>1. now <= published.at + HostingTicks + 1 + 3 * WriteTicks /\ pc' = "records"
    BY <1>7, Aged DEF Path
  <2>2. now <= published.at + (LongestPass - r)
    BY <1>1, <1>2, <1>3, <2>1
  <2> QED
    BY <1>3, <2>1, <2>2, PassedFacts
<1>8. CASE pc = "sleeping" /\ pc' # "loop"
  <2>1. now <= published.at + 1 + WriteTicks /\ pc' = "waiting"
    BY <1>8, Aged DEF Path
  <2>2. now <= published.at + (LongestPass - WriteTicks)
    BY <1>1, <1>2, <2>1
  <2> QED
    BY <2>1, <2>2, PassedFacts
<1>9. CASE pc = "records" /\ pc' # "loop"
  <2>1. /\ now + Records(batch) <= published.at + LongestPass + WriteTicks
        /\ batch > 0 /\ batch' = batch - 1 /\ pc' = "records"
    BY <1>9, Aged DEF Path
  <2>2. Records(batch) = Records(batch - 1) + WriteTicks
    BY <1>1, <2>1, Times
  <2>3. Records(batch) = r + WriteTicks
    BY <1>3, <2>1, <2>2
  <2>4. now <= published.at + (LongestPass - r)
    BY <1>1, <1>2, <1>3, <2>1, <2>3
  <2> QED
    BY <1>3, <2>1, <2>4, PassedFacts
<1> QED
  BY <1>4, <1>5, <1>6, <1>7, <1>8, <1>9 DEF Path

(* A step that does not publish. *)
LEMMA UnpublishedStep ==
  ASSUME StatusInv, Thread, ~ Publishes, UNCHANGED published
  PROVE  Recent' /\ StillOpen' /\ PublishedIsCurrent' /\ LastWord'
<1>1. now \in Nat /\ now' = now /\ spent' = 0
  BY Instant, ControllerAssumption DEF StatusInv, HostInv, IInv, TypeOK
<1>2. ASSUME pc' \in Running
      PROVE  /\ Path
             /\ pc' = "loop" => pc \in {"hosting", "announcing"}
             /\ pc \in Running \ {"waiting", "start_health", "ready_health"}
             /\ published # Nothing \/ pc = "start"
             /\ state = "released" =>
                  UNCHANGED <<state, release_deadline>> \/ now >= release_deadline
             /\ pc \in {"hosting", "announcing"} => UNCHANGED <<state, release_deadline, session>>
  <2>1. Path
    BY <1>2, Passing DEF StatusInv
  <2>2. ~ PublishesStart /\ ~ PublishesIteration /\ ~ PublishesWait
    BY DEF Publishes
  <2>3. /\ pc' = "loop" => pc \in {"hosting", "announcing"}
        /\ pc \notin {"waiting", "start_health", "ready_health"}
    BY <2>1, <2>2 DEF Path, PublishesStart, PublishesIteration, PublishesWait
  <2>4. pc \in Running /\ (published # Nothing \/ pc = "start")
    BY <2>1, <2>3 DEF Path, Running, StatusInv, Recent
  <2> QED
    BY <1>2, <2>1, <2>3, <2>4, Passing DEF StatusInv
<1>3. Recent'
  <2>1. CASE pc' \in Running
    <3>1. CASE pc = "start"
      BY <1>2, <2>1, <3>1 DEF Path, StatusInv, Recent
    <3>2. CASE pc # "start"
      <4>1. published # Nothing /\ pc' \notin {"start", "start_health"}
        BY <1>2, <2>1, <3>2 DEF Path
      <4>2. /\ published.at \in Nat /\ published.at <= now
            /\ published.remaining \in Nat \cup {NoRemaining}
        BY <4>1 DEF StatusInv, Recent
      <4>3. now <= published.at + Passed(pc', batch')
        BY <1>2, <2>1, <3>2, <4>1, OnTheWay DEF StatusInv
      <4>4. now' - spent' = now
        BY <1>1
      <4> QED
        BY <1>1, <4>1, <4>2, <4>3, <4>4 DEF Recent
    <3> QED
      BY <3>1, <3>2
  <2>2. CASE pc' \notin Running
    BY <1>1, <2>2 DEF StatusInv, Recent, Running
  <2> QED
    BY <2>1, <2>2
<1>4. StillOpen'
  <2> SUFFICES ASSUME published # Nothing, pc' \in Running, published.state = "released",
                      now' < published.at + published.remaining
               PROVE  state' = "released" /\ release_deadline' = published.at + published.remaining
    BY DEF StillOpen
  <2>1. published.at \in Nat /\ published.remaining \in Int
    BY DEF StatusInv, Recent, NoRemaining
  <2>2. now < published.at + published.remaining
    BY <1>1, <2>1
  <2>3. state = "released" /\ release_deadline = published.at + published.remaining
    BY <1>2, <2>2 DEF StatusInv, StillOpen
  <2>4. ~ (now >= release_deadline)
    BY <1>1, <2>1, <2>2, <2>3
  <2> QED
    BY <1>2, <2>3, <2>4
<1>5. PublishedIsCurrent'
  <2>1. pc' \in {"hosting", "announcing", "loop"} =>
          pc \in {"hosting", "announcing"} /\ UNCHANGED <<state, release_deadline, session, published>>
    BY <1>2 DEF Path, Running
  <2> QED
    BY <2>1 DEF StatusInv, PublishedIsCurrent
<1>6. LastWord'
  BY LastSteps DEF StatusInv, LastWord, Publishes, PublishesExit
<1> QED
  BY <1>3, <1>4, <1>5, <1>6

(* StatusInv is inductive. *)
LEMMA StatusStep == StatusInv /\ [StatusNext]_statusVars => StatusInv'
<1> SUFFICES ASSUME StatusInv, [StatusNext]_statusVars PROVE StatusInv'
  OBVIOUS
<1>1. HostInv'
  BY StatusIsHost, HostStep DEF StatusInv
<1>2. CASE PublishingThread
  <2>1. CASE Publishes
    BY <1>1, <1>2, <2>1, PublishedStep
    DEF PublishingThread, StatusInv, Publishes, PublishesStart, PublishesIteration, PublishesWait,
        PublishesExit
  <2>2. CASE ~ Publishes
    BY <1>1, <1>2, <2>2, UnpublishedStep DEF PublishingThread, StatusInv
  <2> QED
    BY <2>1, <2>2
<1>3. CASE (RequestShutdown /\ UNCHANGED published) \/ UNCHANGED statusVars
  <2>1. UNCHANGED <<pc, spent, session, batch, now, state, release_deadline, published>>
    BY <1>3 DEF RequestShutdown, controller, vars, host, allVars, statusVars
  <2> QED
    BY <1>1, <2>1 DEF StatusInv, Recent, StillOpen, PublishedIsCurrent, LastWord
<1>4. CASE Elapses /\ UNCHANGED published
  <2>1. /\ UNCHANGED <<pc, session, batch, state, release_deadline, published>>
        /\ now' = now + 1 /\ spent' = spent + 1
    BY <1>4 DEF Elapses, Advance
  <2>2. now \in Nat /\ spent \in Nat
    BY ControllerAssumption DEF StatusInv, HostInv, Clocked, IInv, TypeOK
  <2>3. now' - spent' = now - spent
    BY <2>1, <2>2
  <2>4. Recent'
    BY <2>1, <2>2, <2>3 DEF StatusInv, Recent
  <2>5. StillOpen'
    <3>1. published # Nothing => published.at \in Nat /\ published.remaining \in Int
      BY DEF StatusInv, Recent, NoRemaining
    <3>2. published # Nothing /\ now' < published.at + published.remaining =>
            now < published.at + published.remaining
      BY <2>1, <2>2, <3>1
    <3> QED
      BY <2>1, <3>2 DEF StatusInv, StillOpen
  <2> QED
    BY <1>1, <2>1, <2>4, <2>5 DEF StatusInv, PublishedIsCurrent, LastWord
<1> QED
  BY <1>2, <1>3, <1>4 DEF StatusNext

(* What the thread publishes, and how it relates to what is, for ever.       *)
THEOREM StatusInductive == StatusSpec => []StatusInv
BY StatusInitially, StatusStep, PTL DEF StatusSpec

(* The composition is a control thread: what holds of HardwareService alone  *)
(* holds with the publications.                                              *)
THEOREM StatusImplementsHost == StatusSpec => HostSpec
<1>1. StatusInit => HostInit
  BY DEF StatusInit
<1> QED
  BY <1>1, StatusIsHost, PTL DEF StatusSpec, HostSpec

(* read-only-api.md: at the head of the loop, and while the host acts after  *)
(* start() and a reconnect, what is published is what is.                    *)
THEOREM PublishedIsCurrentCorrect == StatusSpec => []PublishedIsCurrent
BY StatusInductive, PTL DEF StatusInv

(* The deadline the API estimates, less the snapshot's age, is that of a     *)
(* release which is on, for every release time and every wait.               *)
THEOREM ActiveReleaseIsRealCorrect == StatusSpec => []ActiveReleaseIsReal
<1>1. StatusInv => ActiveReleaseIsReal
  <2> SUFFICES ASSUME StatusInv, published # Nothing, pc \in Running,
                      Answer(published, now).release_active,
                      Answer(published, now).snapshot_age < Answer(published, now).release_remaining
               PROVE  /\ relay.pin = "high" /\ state = "released"
                      /\ release_deadline = Answer(published, now).release_deadline_at
                                              - Answer(published, now).snapshot_age
    BY DEF ActiveReleaseIsReal
  <2> DEFINE age == IF now > published.at THEN now - published.at ELSE 0
  <2>1. /\ published.at \in Nat /\ now \in Nat /\ published.at <= now
        /\ published.remaining \in Nat \cup {NoRemaining}
    BY ControllerAssumption DEF StatusInv, Recent, HostInv, IInv, TypeOK
  <2>2. /\ published.state = "released" /\ age < published.remaining
        /\ Answer(published, now).snapshot_age = age
        /\ Answer(published, now).release_deadline_at =
             IF published.remaining = NoRemaining THEN NoTime ELSE now + published.remaining
    BY DEF Answer
  <2>3. age = now - published.at /\ published.remaining # NoRemaining
    BY <2>1, <2>2 DEF NoRemaining
  <2>4. state = "released" /\ release_deadline = published.at + published.remaining
    BY <2>1, <2>2, <2>3 DEF StatusInv, StillOpen, NoRemaining
  <2>5. relay.pin = "high"
    BY <2>4 DEF StatusInv, HostInv, Unharmed, IInv, ReleasedIsTimed
  <2>6. release_deadline = (now + published.remaining) - age
    BY <2>1, <2>3, <2>4 DEF NoRemaining
  <2> QED
    BY <2>2, <2>3, <2>4, <2>5, <2>6
<1> QED
  BY <1>1, StatusInductive, PTL

(* read-only-api.md: as long as the loop lives the snapshot is no older than *)
(* the longest pass, however long a reconnect waits; with a threshold above  *)
(* that only a loop that hangs or has ended is called stale.                 *)
THEOREM LiveLoopIsFreshCorrect == StatusSpec => []LiveLoopIsFresh
<1>1. StatusInv => LiveLoopIsFresh
  <2> SUFFICES ASSUME StatusInv, published # Nothing, pc \in Running
               PROVE  Answer(published, now).snapshot_age <= LongestPass
    BY DEF LiveLoopIsFresh
  <2>1. /\ now \in Nat /\ published.at \in Nat /\ LongestPass \in Nat
        /\ now <= published.at + LongestPass
    BY Aged, Times DEF StatusInv
  <2>2. Answer(published, now).snapshot_age = IF now > published.at THEN now - published.at ELSE 0
    BY DEF Answer
  <2> QED
    BY <2>1, <2>2
<1> QED
  BY <1>1, StatusInductive, PTL

(* Whatever raised before or in the shutdown, the last snapshot is the final *)
(* one and health is not 200 any more.                                       *)
THEOREM EndIsPublishedCorrect == StatusSpec => []EndIsPublished
<1>1. StatusInv => EndIsPublished
  <2> SUFFICES ASSUME StatusInv, pc \in {"fallback", "done"}
               PROVE  published # Nothing /\ ~ Healthy(published, now) /\ published.state = state
    BY DEF EndIsPublished
  <2>1. state \in Halted /\ published # Nothing /\ published.state = state
    BY DEF StatusInv, LastWord, HostInv, ShutDown
  <2> QED
    BY <2>1 DEF Healthy, Halted
<1> QED
  BY <1>1, StatusInductive, PTL

=============================================================================
