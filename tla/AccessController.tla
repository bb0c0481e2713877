-------------------------- MODULE AccessController --------------------------
(***************************************************************************)
(* AccessController of src/bridgewire/controller.py: the state machine     *)
(* that decides on credentials and drives the door relay.  One action per  *)
(* public method, with every outcome of the relay calls and audit appends  *)
(* it makes: each can raise, and a raise leaves the handler where it is.   *)
(* The methods are called from one thread, in any order the host likes.    *)
(*                                                                         *)
(* `call' and `past' are what the caller and the audit database know: the  *)
(* events the last call appended and whether it raised; whether an append  *)
(* was ever lost, a relay fault recorded.  `notified' keeps, of the cycle  *)
(* of suspicious events the tracker is in, what its CRITICAL came to.      *)
(***************************************************************************)
EXTENDS EscalationTracker, RelayPort

CONSTANTS
  ReleaseSeconds,   \* release_seconds: how long a grant holds the relay
  MaxTime,          \* bound: the clock, and every deadline, stop here
  MaxEvents         \* bound: suspicious events the deque may hold

ASSUME ControllerAssumption ==
  /\ ReleaseSeconds \in Nat \ {0}
  /\ MaxTime \in Nat
  /\ MaxEvents \in Nat

VARIABLES
  now,                \* Clock.monotonic()
  state,
  release_deadline,
  last_command,       \* _last_relay_command_high: "none", "low" or "high"
  relay,              \* the adapter and the pin, see RelayPort
  tracker,            \* the EscalationTracker
  notified,           \* notifications of this cycle: queued, lost or cut off
  call,
  past

vars == <<now, state, release_deadline, last_command, relay, tracker, notified,
          call, past>>

ControllerStates ==
  {"initializing", "ready", "released", "faulted", "shutting_down", "stopped"}

(* States in which process() refuses, and which start() does not leave. *)
Halted == {"faulted", "shutting_down", "stopped"}

SuspiciousKinds == {"credential_denied", "credential_unknown", "malformed_record"}

EventTypes == SuspiciousKinds \cup
  {"service_started", "service_shutdown", "credential_authorized",
   "relay_asserted", "relay_restored", "relay_control_error",
   "escalation_warning", "escalation_critical", "notification_delivery_failed"}

(* Among the events a call appended is one of this kind. *)
Has(audited, event) == \E i \in DOMAIN audited : audited[i] = event

Calls == [audited : Seq(EventTypes), raised : BOOLEAN]
Pasts == [auditLost : BOOLEAN, faultRecorded : BOOLEAN]

(* How many notifications of a cycle were enqueued, how many had their loss  *)
(* audited instead, and how many ended in an append that raised.             *)
Notices == [queued : Nat, lost : Nat, raised : Nat]
NoNotices == [queued |-> 0, lost |-> 0, raised |-> 0]

Init ==
  /\ now = 0
  /\ state = "initializing"
  /\ release_deadline = NoTime
  /\ last_command = "none"
  /\ relay = NewRelay
  /\ tracker = NewTracker
  /\ notified = NoNotices
  /\ call = [audited |-> <<>>, raised |-> FALSE]
  /\ past = [auditLost |-> FALSE, faultRecorded |-> FALSE]

-----------------------------------------------------------------------------
(* How a method ends: the events it appended, and whether it "returns",     *)
(* "raises" an exception of its own, or is left by an append that raised.   *)

Ends(audited, how) ==
  /\ call' = [audited |-> audited, raised |-> how # "returns"]
  /\ past' =
       [auditLost     |-> past.auditLost \/ how = "append_raises",
        faultRecorded |-> past.faultRecorded \/ Has(audited, "relay_control_error")]

(* self._audit(event) as the last thing a method does. *)
AuditThenEnds(audited, event, how) ==
  \/ Ends(Append(audited, event), how)
  \/ Ends(audited, "append_raises")

-----------------------------------------------------------------------------
(* start() on a controller that has not been started. *)
StartInitializing ==
  /\ state = "initializing"
  /\ \E s \in SetupOutcomes(relay) :
       \/ /\ ~ s.ok
          /\ state' = "faulted"
          /\ relay' = s.relay
          /\ UNCHANGED last_command
          /\ AuditThenEnds(<<>>, "relay_control_error", "raises")
       \/ /\ s.ok
          /\ \E c \in CommandOutcomes(s.relay, "low") :
               /\ relay' = c.relay
               /\ \/ /\ ~ c.ok
                     /\ state' = "faulted"
                     /\ UNCHANGED last_command
                     /\ AuditThenEnds(<<>>, "relay_control_error", "raises")
                  \/ /\ c.ok
                     /\ state' = "ready"
                     /\ last_command' = "low"
                     /\ AuditThenEnds(<<>>, "service_started", "returns")
  /\ UNCHANGED <<now, release_deadline, tracker, notified>>

StartRefused ==
  /\ state # "initializing"
  /\ Ends(<<>>, IF state \in Halted THEN "raises" ELSE "returns")
  /\ UNCHANGED <<now, state, release_deadline, last_command, relay, tracker, notified>>

Start == StartInitializing \/ StartRefused

-----------------------------------------------------------------------------
Accepting == state \in {"ready", "released"}

ProcessRefused ==
  /\ ~ Accepting
  /\ Ends(<<>>, "raises")
  /\ UNCHANGED <<now, state, release_deadline, last_command, relay, tracker, notified>>

(* The notifications of the cycle this event belongs to, before it. *)
NotifiedBefore == IF Quiet(tracker, now) THEN NoNotices ELSE notified

(* Mutant: a notification that cannot be queued is dropped. *)
MutRecordSuspicious(kind) ==
  /\ tracker' = Recorded(tracker, now)
  /\ \/ /\ Ends(<<kind>>, "returns")
        /\ notified' = NotifiedBefore
     \/ /\ Notice(tracker, now) = CRITICAL
        /\ Ends(<<kind, "escalation_critical">>, "returns")
        /\ notified' = [NotifiedBefore EXCEPT !.queued = @ + 1]

(* _record_suspicious, after the record's own event has been appended.  A    *)
(* CRITICAL is appended and enqueued; that it cannot be is appended.         *)
RecordSuspicious(kind) ==
  /\ tracker' = Recorded(tracker, now)
  /\ \/ /\ Notice(tracker, now) = NONE
        /\ Ends(<<kind>>, "returns")
        /\ notified' = NotifiedBefore
     \/ /\ Notice(tracker, now) = WARNING
        /\ AuditThenEnds(<<kind>>, "escalation_warning", "returns")
        /\ notified' = NotifiedBefore
     \/ /\ Notice(tracker, now) = CRITICAL
        /\ \/ Ends(<<kind>>, "append_raises")
           \/ Ends(<<kind, "escalation_critical">>, "append_raises")
        /\ notified' = [NotifiedBefore EXCEPT !.raised = @ + 1]
     \/ /\ Notice(tracker, now) = CRITICAL
        /\ Ends(<<kind, "escalation_critical">>, "returns")
        /\ notified' = [NotifiedBefore EXCEPT !.queued = @ + 1]
     \/ /\ Notice(tracker, now) = CRITICAL
        /\ Ends(<<kind, "escalation_critical", "notification_delivery_failed">>, "returns")
        /\ notified' = [NotifiedBefore EXCEPT !.lost = @ + 1]

(* process() of a denied, unknown or malformed record. *)
ProcessSuspicious(kind) ==
  /\ Accepting
  /\ Len(tracker.events) < MaxEvents
  /\ \/ Ends(<<>>, "append_raises") /\ UNCHANGED <<tracker, notified>>
     \/ RecordSuspicious(kind)
  /\ UNCHANGED <<now, state, release_deadline, last_command, relay>>

(* An authorized credential while the relay is already released. *)
ProcessAlreadyReleased ==
  /\ state = "released"
  /\ AuditThenEnds(<<>>, "credential_authorized", "returns")
  /\ UNCHANGED <<now, state, release_deadline, last_command, relay, tracker, notified>>

(* Mutant: the failed HIGH is swallowed. *)
MutHighFailed(r) ==
  /\ relay' = r
  /\ Ends(<<"credential_authorized">>, "returns")
  /\ UNCHANGED <<state, last_command, release_deadline>>

(* command(True) raised: audit it, try LOW, fault.  The two appends can     *)
(* raise, and then neither the LOW attempt nor the fault happens here.      *)
HighFailed(r) ==
  /\ \/ /\ Ends(<<"credential_authorized">>, "append_raises")
        /\ relay' = r
        /\ UNCHANGED <<state, last_command>>
     \/ \E low \in CommandOutcomes(r, "low") :
          /\ relay' = low.relay
          /\ last_command' = IF low.ok THEN "low" ELSE last_command
          /\ LET audited == <<"credential_authorized", "relay_control_error">>
             IN  \/ low.ok /\ state' = "faulted" /\ Ends(audited, "returns")
                 \/ /\ ~ low.ok
                    /\ state' = "faulted"
                    /\ Ends(Append(audited, "relay_control_error"), "returns")
                 \/ ~ low.ok /\ UNCHANGED state /\ Ends(audited, "append_raises")
  /\ UNCHANGED release_deadline

(* Mutant: no deadline is set. *)
MutHighSucceeded(r) ==
  /\ relay' = r
  /\ last_command' = "high"
  /\ state' = "released"
  /\ UNCHANGED release_deadline
  /\ AuditThenEnds(<<"credential_authorized">>, "relay_asserted", "returns")

HighSucceeded(r) ==
  /\ relay' = r
  /\ last_command' = "high"
  /\ release_deadline' = now + ReleaseSeconds
  /\ state' = "released"
  /\ AuditThenEnds(<<"credential_authorized">>, "relay_asserted", "returns")

(* Mutant: HIGH is commanded before the grant is audited. *)
MutProcessGrant ==
  /\ state = "ready"
  /\ now + ReleaseSeconds <= MaxTime
  /\ \E high \in CommandOutcomes(relay, "high") :
       \/ /\ Ends(<<>>, "append_raises")
          /\ relay' = high.relay
          /\ UNCHANGED <<state, release_deadline, last_command>>
       \/ ~ high.ok /\ HighFailed(high.relay)
       \/ high.ok /\ HighSucceeded(high.relay)
  /\ UNCHANGED <<now, tracker, notified>>

(* An authorized credential while the door is secured. *)
ProcessGrant ==
  /\ state = "ready"
  /\ now + ReleaseSeconds <= MaxTime
  /\ \/ /\ Ends(<<>>, "append_raises")
        /\ UNCHANGED <<state, release_deadline, last_command, relay>>
     \/ \E high \in CommandOutcomes(relay, "high") :
          \/ ~ high.ok /\ HighFailed(high.relay)
          \/ high.ok /\ HighSucceeded(high.relay)
  /\ UNCHANGED <<now, tracker, notified>>

Process ==
  \/ ProcessRefused
  \/ \E kind \in SuspiciousKinds : ProcessSuspicious(kind)
  \/ ProcessAlreadyReleased
  \/ ProcessGrant

-----------------------------------------------------------------------------
(* Mutant: the release ends a tick early. *)
MutTickDue ==
  /\ state = "released"
  /\ release_deadline # NoTime
  /\ now + 1 >= release_deadline

(* tick() when the deadline has passed; at any other time it does nothing. *)
TickDue ==
  /\ state = "released"
  /\ release_deadline # NoTime
  /\ now >= release_deadline

(* Mutant: the failure is not audited. *)
MutRestoreFailedSilent ==
  /\ state' = "faulted"
  /\ UNCHANGED <<release_deadline, last_command>>
  /\ Ends(<<>>, "returns")

RestoreFailed ==
  /\ state' = "faulted"
  /\ UNCHANGED <<release_deadline, last_command>>
  /\ AuditThenEnds(<<>>, "relay_control_error", "returns")

Restored ==
  /\ state' = "ready"
  /\ release_deadline' = NoTime
  /\ last_command' = "low"
  /\ AuditThenEnds(<<>>, "relay_restored", "returns")

Tick ==
  /\ TickDue
  /\ \E low \in CommandOutcomes(relay, "low") :
       /\ relay' = low.relay
       /\ \/ ~ low.ok /\ RestoreFailed
          \/ low.ok /\ Restored
  /\ UNCHANGED <<now, tracker, notified>>

RecoverableFailure ==
  /\ \E low \in CommandOutcomes(relay, "low") :
       /\ relay' = low.relay
       /\ last_command' = IF low.ok THEN "low" ELSE last_command
       /\ \/ /\ ~ low.ok
             /\ Ends(<<>>, "append_raises")
             /\ UNCHANGED <<state, release_deadline>>
          \/ /\ state' = "faulted"
             /\ release_deadline' = NoTime
             /\ AuditThenEnds(IF low.ok THEN <<>> ELSE <<"relay_control_error">>,
                              "relay_control_error", "returns")
  /\ UNCHANGED <<now, tracker, notified>>

(* The rest of shutdown() once LOW was attempted with result `safe'. *)
CleanUp(r, safe, audited) ==
  /\ release_deadline' = NoTime
  /\ \E c \in CleanupOutcomes(r) :
       /\ relay' = c.relay
       /\ \/ /\ c.ok /\ safe
             /\ state' = "stopped"
             /\ AuditThenEnds(audited, "service_shutdown", "returns")
          \/ /\ c.ok /\ ~ safe
             /\ state' = "faulted"
             /\ Ends(audited, "returns")
          \/ /\ ~ c.ok
             /\ state' = "faulted"
             /\ Ends(Append(audited, "relay_control_error"), "returns")
          \/ /\ ~ c.ok
             /\ state' = "shutting_down"
             /\ Ends(audited, "append_raises")

ShutdownRunning ==
  /\ state # "stopped"
  /\ \E low \in CommandOutcomes(relay, "low") :
       /\ last_command' = IF low.ok THEN "low" ELSE last_command
       /\ \/ low.ok /\ CleanUp(low.relay, TRUE, <<>>)
          \/ ~ low.ok /\ CleanUp(low.relay, FALSE, <<"relay_control_error">>)
          \/ /\ ~ low.ok
             /\ state' = "shutting_down"
             /\ relay' = low.relay
             /\ UNCHANGED release_deadline
             /\ Ends(<<>>, "append_raises")
  /\ UNCHANGED <<now, tracker, notified>>

ShutdownStopped ==
  /\ state = "stopped"
  /\ Ends(<<>>, "returns")
  /\ UNCHANGED <<now, state, release_deadline, last_command, relay, tracker, notified>>

Shutdown == ShutdownRunning \/ ShutdownStopped

-----------------------------------------------------------------------------
Advance ==
  /\ now < MaxTime
  /\ now' = now + 1
  /\ UNCHANGED <<state, release_deadline, last_command, relay, tracker, notified,
                 call, past>>

Next == Start \/ Process \/ Tick \/ RecoverableFailure \/ Shutdown \/ Advance

Spec == Init /\ [][Next]_vars

(* The host calls tick() on every pass of its loop and every 50 ms of a     *)
(* reconnect wait (runtime.py:33-40, 90, 102), and time passes.             *)
FairSpec == Spec /\ WF_vars(Tick) /\ WF_vars(Advance)

-----------------------------------------------------------------------------
TypeOK ==
  /\ now \in 0..MaxTime
  /\ state \in ControllerStates
  /\ release_deadline \in 0..MaxTime \cup {NoTime}
  /\ last_command \in {"none", "low", "high"}
  /\ relay \in Relays
  /\ tracker \in Trackers
  /\ notified \in Notices
  /\ call \in Calls
  /\ past \in Pasts

(* FR-014, AC-015: the pin is never left HIGH silently.  Whatever raises and *)
(* in whatever order the methods are called, a HIGH pin is a release the     *)
(* controller is timing, or a relay fault has been recorded in the audit, or *)
(* an audit append itself raised out of a method.                            *)
HighIsAccountedFor ==
  relay.pin = "high" => state = "released" \/ past.faultRecorded \/ past.auditLost

(* A release is always timed: in RELEASED the last command that succeeded    *)
(* was HIGH, the relay can still be commanded and the deadline is at most    *)
(* ReleaseSeconds away; the pin is HIGH unless a raising append cut a fault  *)
(* or shutdown handler short.  No deadline survives in a state that would    *)
(* not act on it, except those a failed LOW leaves behind.                   *)
ReleasedIsTimed ==
  /\ state = "released" =>
       /\ relay.pin = "high" \/ past.auditLost
       /\ last_command = "high"
       /\ Usable(relay)
       /\ release_deadline # NoTime
       /\ release_deadline <= now + ReleaseSeconds
  /\ state \in {"initializing", "ready", "stopped"} => release_deadline = NoTime

(* AC-014, FR-013: STOPPED is claimed only when the pin was driven LOW and   *)
(* the channel given back; and READY only with a relay that was set up and   *)
(* can still be driven.                                                      *)
ClaimsAreTrue ==
  /\ state = "stopped" => relay.closed /\ relay.pin = "input" /\ last_command = "low"
  /\ state = "ready" => Usable(relay) /\ (relay.pin = "high" => past.auditLost)

(* AC-015 "records the controller fault": FAULTED is never entered without a *)
(* durable relay_control_error, unless an append raised.                     *)
FaultIsRecorded ==
  state = "faulted" => past.faultRecorded \/ past.auditLost

(* FR-009: of every cycle that reaches CRITICAL, the later ones included,    *)
(* one notification is queued, or its loss is audited, or an append of that  *)
(* very call raised; no cycle queues two, and none does before CRITICAL.     *)
CriticalIsNotSilent ==
  notified.queued + notified.lost + notified.raised =
    IF tracker.level = CRITICAL THEN 1 ELSE 0

(* FR-012, AC-002: the pin goes HIGH only out of READY and only in a call    *)
(* whose first durable event is the grant.                                   *)
HighOnlyAfterGrant ==
  [][relay.pin # "high" /\ relay'.pin = "high" =>
       /\ state = "ready"
       /\ Len(call'.audited) > 0
       /\ call'.audited[1] = "credential_authorized"]_vars

(* FR-008: while RELEASED nothing moves the deadline, and only an expired    *)
(* release returns to READY, with the pin LOW.                               *)
ReleaseRunsItsCourse ==
  [][state = "released" =>
       /\ state' = "released" => release_deadline' = release_deadline
       /\ state' # "released" /\ state' \notin Halted =>
            state' = "ready" /\ now >= release_deadline /\ relay'.pin = "low"]_vars

(* Once halted the controller stays halted and never drives the pin HIGH,    *)
(* whatever is called on it (replacement-state-machine.md).                  *)
HaltIsFinal ==
  [][(state \in Halted) =>
       state' \in Halted /\ (relay'.pin = "high" => relay.pin = "high")]_vars

(* AC-002: every release ends, at its deadline or by a fault or shutdown.    *)
EveryReleaseEnds == state = "released" ~> state # "released"

(* How the controller's state reads as the contract's. *)
Phase == CASE state \in {"initializing", "ready"} -> "idle"
           [] state = "released" -> "open"
           [] state \in Halted -> "ended"

Until == IF state = "released" THEN release_deadline ELSE NoTime

Contract == INSTANCE ReleaseContract WITH phase <- Phase, until <- Until

(* FR-012, AC-002, as one abstract machine: every step of the controller is  *)
(* a step of the release contract or a stutter (controller.py:165-279).      *)
ContractHolds == Contract!SafeSpec

=============================================================================
