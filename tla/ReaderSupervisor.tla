-------------------------- MODULE ReaderSupervisor --------------------------
(***************************************************************************)
(* ReaderSupervisor of src/bridgewire/reader.py with the loop of           *)
(* BridgewireRuntime that calls it (connect_until_ready(1) while there is  *)
(* no session, read_once while there is one, close at shutdown) and the    *)
(* serial devices of the machine, which can be plugged, unplugged and      *)
(* exchanged between any two steps.  One behaviour is one life of the      *)
(* process: an exception that leaves a method ends the loop (pc =          *)
(* "escaped") and only close() follows.                                    *)
(***************************************************************************)
EXTENDS Integers

CONSTANTS
  Ports,                 \* what /dev/serial/by-id can resolve to
  NoPort,
  Threshold,             \* repeated_failure_threshold
  FloatExponents,        \* 2 ** e times a float raises OverflowError from here
  HangupRead,            \* what read() of a hung-up tty does: "error" or "eof"
  EmitMayRaise,          \* health report, audit append of an event or tick may raise
  EnumerationMayRaise,   \* /dev/serial/by-id may vanish while it is listed
  OpenMayRaise,          \* termios.error, not an OSError, while configuring
  MaxAttempts            \* bound: attempts within one outage

ASSUME SupervisorAssumption ==
  /\ NoPort \notin Ports
  /\ Threshold \in Nat \ {0}
  /\ FloatExponents \in Nat \ {0}
  /\ HangupRead \in {"error", "eof"}
  /\ EmitMayRaise \in BOOLEAN
  /\ EnumerationMayRaise \in BOOLEAN
  /\ OpenMayRaise \in BOOLEAN
  /\ MaxAttempts \in Nat

VARIABLES
  bus,                \* the device at each port: it matches the identity or not
  found,              \* discovery.device.path
  hungup,             \* the open session's tty has been hung up by the kernel
  session,            \* the port _session is open on, or NoPort
  health_state,
  attempt,            \* _attempt
  had_connection,
  repeated_emitted,   \* _repeated_failure_emitted
  stop,               \* the runtime's stop event
  pc,                 \* where the loop is
  repeats             \* history: reconnect_repeatedly_failed events this outage

supervisor == <<session, health_state, attempt, had_connection, repeated_emitted>>
vars == <<bus, found, hungup, supervisor, stop, pc, repeats>>

Devices == {"none", "reader", "other"}

TypeOK ==
  /\ bus \in [Ports -> Devices]
  /\ found \in Ports \cup {NoPort}
  /\ hungup \in BOOLEAN
  /\ session \in Ports \cup {NoPort}
  /\ health_state \in {"connecting", "ready", "degraded", "stopped"}
  /\ attempt \in 0..MaxAttempts
  /\ had_connection \in BOOLEAN
  /\ repeated_emitted \in BOOLEAN
  /\ stop \in BOOLEAN
  /\ pc \in {"loop", "opening", "waiting", "escaped", "closed"}
  /\ repeats \in 0..MaxAttempts

Init ==
  /\ bus \in [Ports -> Devices]
  /\ found = NoPort
  /\ hungup = FALSE
  /\ session = NoPort
  /\ health_state = "degraded"
  /\ attempt = 0
  /\ had_connection = FALSE
  /\ repeated_emitted = FALSE
  /\ stop = FALSE
  /\ pc = "loop"
  /\ repeats = 0

-----------------------------------------------------------------------------
(* BackoffPolicy.delay: minimum * 2 ** (attempt - 1) is computed before it is *)
(* capped.  How long the wait is makes no difference here.                   *)
Overflows(n) == n - 1 >= FloatExponents

(* The rest of connect_until_ready after a failed attempt n: degraded, the   *)
(* failure event, the repeated-failure event once per outage, the scheduled  *)
(* event, the wait.  Each emit may raise, and so may the delay.              *)
AttemptFails(n) ==
  LET repeated == n >= Threshold /\ ~ repeated_emitted
      Escapes(flag, count) ==
        /\ pc' = "escaped"
        /\ repeated_emitted' = flag
        /\ repeats' = count
      flagged == repeated_emitted \/ repeated
      counted == IF repeated THEN repeats + 1 ELSE repeats
  IN  /\ health_state' = "degraded"
      /\ \/ EmitMayRaise /\ Escapes(repeated_emitted, repeats)
         \/ (EmitMayRaise \/ Overflows(n)) /\ Escapes(flagged, counted)
         \/ /\ ~ Overflows(n)
            /\ pc' = "waiting"
            /\ repeated_emitted' = flagged
            /\ repeats' = counted

(* discover_reader finds the one device that matches; none is not found, and *)
(* several are ambiguous.                                                    *)
Discovered(p) == {q \in Ports : bus[q] = "reader"} = {p}

Discoverable == \E p \in Ports : Discovered(p)

(* Mutant: the supervisor gives up after Threshold attempts. *)
MutConnect ==
  /\ pc = "loop" /\ ~ stop /\ session = NoPort
  /\ attempt < Threshold
  /\ attempt' = attempt + 1
  /\ \/ /\ \E p \in Ports : Discovered(p) /\ found' = p
        /\ pc' = "opening"
        /\ health_state' = "connecting"
        /\ UNCHANGED <<repeated_emitted, repeats>>
     \/ ~ Discoverable /\ AttemptFails(attempt + 1) /\ UNCHANGED found
  /\ UNCHANGED <<bus, hungup, session, had_connection, stop>>

(* One attempt up to the open: the connecting event and the discovery. *)
Connect ==
  /\ pc = "loop" /\ ~ stop /\ session = NoPort
  /\ attempt < MaxAttempts
  /\ attempt' = attempt + 1
  /\ \/ /\ \E p \in Ports : Discovered(p) /\ found' = p
        /\ pc' = "opening"
        /\ health_state' = "connecting"
        /\ UNCHANGED <<repeated_emitted, repeats>>
     \/ /\ EmitMayRaise \/ EnumerationMayRaise
        /\ pc' = "escaped"
        /\ health_state' = "connecting"
        /\ UNCHANGED <<found, repeated_emitted, repeats>>
     \/ ~ Discoverable /\ AttemptFails(attempt + 1) /\ UNCHANGED found
  /\ UNCHANGED <<bus, hungup, session, had_connection, stop>>

(* Mutant: _repeated_failure_emitted is not cleared by a connection. *)
MutOpenSucceeds ==
  /\ pc = "opening" /\ bus[found] # "none"
  /\ session' = found /\ health_state' = "ready"
  /\ hungup' = FALSE
  /\ had_connection' = TRUE
  /\ attempt' = 0 /\ repeats' = 0
  /\ pc' = "loop"
  /\ UNCHANGED <<bus, found, stop, repeated_emitted>>

(* The port that was found is opened; its device may be another by now. *)
OpenSucceeds ==
  /\ pc = "opening" /\ bus[found] # "none"
  /\ session' = found
  /\ hungup' = FALSE
  /\ \/ /\ had_connection' = TRUE
        /\ repeated_emitted' = FALSE
        /\ health_state' = "ready"
        /\ attempt' = 0
        /\ pc' = "loop"
        /\ repeats' = 0
     \/ /\ EmitMayRaise
        /\ pc' = "escaped"
        /\ UNCHANGED <<had_connection, repeated_emitted, health_state, attempt, repeats>>
  /\ UNCHANGED <<bus, found, stop>>

(* OSError: the attempt failed, whether the device is gone or only refuses.  *)
(* Anything else leaves connect_until_ready.                                 *)
OpenFails ==
  /\ pc = "opening"
  /\ \/ AttemptFails(attempt)
     \/ /\ OpenMayRaise
        /\ pc' = "escaped"
        /\ UNCHANGED <<health_state, repeated_emitted, repeats>>
  /\ UNCHANGED <<bus, found, hungup, session, attempt, had_connection, stop>>

(* Mutant: the stop event does not interrupt the wait, which starts over. *)
MutWaitEnds ==
  /\ pc = "waiting" /\ ~ stop
  /\ pc' = "loop"
  /\ UNCHANGED <<bus, found, hungup, supervisor, stop, repeats>>

(* The wait ends, at once when the stop event is set, and the condition of   *)
(* the loop decides; or the tick it runs raises.                             *)
WaitEnds ==
  /\ pc = "waiting"
  /\ \/ pc' = "loop"
     \/ EmitMayRaise /\ pc' = "escaped"
  /\ UNCHANGED <<bus, found, hungup, supervisor, stop, repeats>>

-----------------------------------------------------------------------------
(* _disconnect, with `raised' the outcome of session.close(). *)
Disconnect(raised) ==
  IF session # NoPort /\ ~ raised
  THEN session' = NoPort /\ health_state' = "degraded"
  ELSE UNCHANGED <<session, health_state>>

(* Mutant: the session object is kept after close(). *)
MutDropSession ==
  /\ pc' = "loop"
  /\ health_state' = "degraded"
  /\ UNCHANGED <<session, bus, found, hungup, attempt, had_connection, repeated_emitted,
                 stop, repeats>>

(* A disconnect or read failure: the event, then _disconnect; either raises. *)
DropSession ==
  /\ \/ pc' = "loop" /\ Disconnect(FALSE)
     \/ /\ EmitMayRaise
        /\ pc' = "escaped"
        /\ Disconnect(TRUE)
  /\ hungup' = (hungup /\ session' # NoPort)
  /\ UNCHANGED <<bus, found, attempt, had_connection, repeated_emitted, stop,
                 repeats>>

(* read_once when read() raises: a hung-up tty, or a read error on a live    *)
(* one.  A read that returns bytes, or none, changes nothing here.           *)
ReadRaises ==
  /\ pc = "loop" /\ ~ stop /\ session # NoPort
  /\ hungup => HangupRead = "error"
  /\ DropSession

(* A record arrives: reader_record_received and, for a bad one,              *)
(* reader_record_malformed; only a raising emit changes the supervisor.      *)
ReadRecordEscapes ==
  /\ pc = "loop" /\ ~ stop /\ session # NoPort /\ ~ hungup
  /\ EmitMayRaise
  /\ pc' = "escaped"
  /\ UNCHANGED <<bus, found, hungup, supervisor, stop, repeats>>

(* close(): after the loop has seen the stop event or an exception left it. *)
Close ==
  /\ \/ pc = "loop" /\ stop
     \/ pc = "escaped"
  /\ pc' = "closed"
  /\ \/ session' = NoPort /\ health_state' = "stopped"
     \/ EmitMayRaise /\ session # NoPort /\ Disconnect(TRUE)
  /\ UNCHANGED <<bus, found, hungup, attempt, had_connection, repeated_emitted,
                 stop, repeats>>

-----------------------------------------------------------------------------
(* A device is plugged, unplugged or exchanged; the kernel hangs up the tty  *)
(* of one that goes.                                                         *)
DeviceChanges ==
  /\ \E p \in Ports, d \in Devices :
       /\ d # bus[p]
       /\ bus' = [bus EXCEPT ![p] = d]
       /\ hungup' = (hungup \/ p = session)
  /\ UNCHANGED <<found, supervisor, stop, pc, repeats>>

RequestStop ==
  /\ ~ stop
  /\ stop' = TRUE
  /\ UNCHANGED <<bus, found, hungup, supervisor, pc, repeats>>

Open == OpenSucceeds \/ OpenFails

Next ==
  \/ Connect \/ Open \/ WaitEnds
  \/ ReadRaises \/ ReadRecordEscapes \/ Close
  \/ DeviceChanges \/ RequestStop

Spec == Init /\ [][Next]_vars

(* The loop is one thread that keeps running; a read of a hung-up tty comes  *)
(* round again and again, a read of a live one need never fail.              *)
FairSpec ==
  /\ Spec
  /\ WF_vars(Connect) /\ WF_vars(Open) /\ WF_vars(WaitEnds) /\ WF_vars(Close)
  /\ WF_vars(hungup /\ ReadRaises)

-----------------------------------------------------------------------------
(* FR-011: the health state tells the truth between two calls.  "ready"      *)
(* means a session is open; an open session in the loop is ready, with the   *)
(* outage's counters cleared, so the next outage backs off and escalates     *)
(* afresh; and without one the loop is never ready.                          *)
HealthTellsTheTruth ==
  /\ health_state = "ready" => session # NoPort
  /\ (pc = "loop" /\ session # NoPort) =>
        /\ health_state = "ready"
        /\ attempt = 0 /\ ~ repeated_emitted /\ had_connection
  /\ (pc \in {"opening", "waiting"}) => session = NoPort

(* FR-010 "repeated reconnect failure": reported by the Threshold-th failed  *)
(* attempt of an outage, and once per outage however long it lasts.          *)
RepeatedFailureOncePerOutage ==
  /\ repeats <= 1
  /\ (pc = "waiting" /\ attempt >= Threshold) => repeats = 1

(* FR-010 "MUST retry connection without requiring a Pi reboot": no outage,  *)
(* however long, and no failed discovery or open takes the loop down.  (It   *)
(* is checked where no event raises.)                                        *)
NoAttemptEscapes == pc # "escaped"

(* AC-009: a reader that stays plugged in gets connected, or is tried again  *)
(* as often as the bound on attempts allows, however the attempts before it  *)
(* ended: the loop never gives up and never waits for ever.                  *)
Reconnects ==
  (Discoverable /\ pc = "loop" /\ session = NoPort) ~>
     \/ session # NoPort \/ ~ Discoverable \/ stop
     \/ pc = "escaped" \/ attempt = MaxAttempts

(* AC-010: the device of a session is the one that matched, until the kernel *)
(* hangs it up.  (It is not where the port's device was exchanged between    *)
(* the discovery and the open.)                                              *)
SessionIsTheReader ==
  (session # NoPort /\ ~ hungup) => bus[session] = "reader"

(* FR-010 "OS-detected USB disconnect": a session whose device has gone is   *)
(* dropped.                                                                  *)
DisconnectIsDetected ==
  (hungup /\ session # NoPort) ~> (session = NoPort \/ stop \/ pc \in {"escaped", "closed"})

(* FR-010 "Reconnect waiting MUST be interruptible", AC-014: a stop request  *)
(* is answered by close() from wherever the loop is.                         *)
StopIsAnswered == stop ~> pc = "closed"

=============================================================================
