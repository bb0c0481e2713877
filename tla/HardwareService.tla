-------------------------- MODULE HardwareService --------------------------
(***************************************************************************)
(* The hardware service's one control thread: run_hardware_service         *)
(* (hardware_service.py) around BridgewireRuntime (application/runtime.py) *)
(* around the AccessController.  The thread is a program counter over the  *)
(* calls it makes; a call of the controller is the controller's own        *)
(* action, with all its outcomes.  The reader is reduced to what the loop  *)
(* sees of it: no session, or a session that yields records, silence, a    *)
(* disconnect or an exception.                                             *)
(*                                                                         *)
(* Time passes inside the calls, before the step that ends each: in a      *)
(* serial select() and in one interval of the reconnect wait up to one     *)
(* tick (50 ms), in the discovery of the devices (a udevadm query of up to *)
(* 0.5 s each) and the open, in the start of the API, and in the audit and *)
(* health writes of every call.  How long is a constant: the theorems hold *)
(* for any.                                                                *)
(***************************************************************************)
EXTENDS AccessController

CONSTANTS
  BackoffSeconds,   \* length of a reconnect wait
  MaxBatch,         \* bound: records returned by one read
  DiscoveryTicks,   \* longest discovery and open
  HostingTicks,     \* longest start of the API server
  WriteTicks        \* longest time one call waits for its writes

ASSUME ServiceAssumption ==
  /\ BackoffSeconds \in Nat \ {0}
  /\ MaxBatch \in Nat \ {0}
  /\ DiscoveryTicks \in Nat
  /\ HostingTicks \in Nat
  /\ WriteTicks \in Nat

VARIABLES
  pc,                  \* the call the thread is in
  spent,               \* ticks that have passed in it
  session,             \* ReaderSupervisor.connected
  batch,               \* records of the current read not yet submitted
  wait_until,          \* deadline of the reconnect wait
  stop,                \* the stop event (SIGTERM, SIGINT)
  health,              \* status in the health file
  failed,              \* `failures' is not empty: the service will raise
  shutdown_failed,     \* `failures' of BridgewireRuntime.shutdown
  shutdown_complete    \* _shutdown_complete

host == <<pc, spent, session, batch, wait_until, stop, health, failed,
          shutdown_failed, shutdown_complete>>
controller == vars
allVars == <<vars, host>>

Running == {"start", "start_health", "hosting", "loop", "reader", "ready_health",
            "announcing", "waiting", "sleeping", "records"}
Exiting == {"fault_health", "fail_secure", "shutdown", "close_reader",
            "stopped_health", "fallback", "done"}

(* How long the call may block: its writes, and what else it waits for. *)
LongestCall ==
  WriteTicks + CASE pc = "reader" /\ ~ session -> DiscoveryTicks
                 [] pc = "reader" /\ session   -> 1
                 [] pc = "sleeping"            -> 1
                 [] pc = "hosting"             -> HostingTicks
                 [] OTHER                      -> 0

HostTypeOK ==
  /\ TypeOK
  /\ pc \in Running \cup Exiting
  /\ spent \in 0..LongestCall
  /\ session \in BOOLEAN
  /\ batch \in 0..MaxBatch
  /\ wait_until \in 0..(MaxTime + BackoffSeconds)
  /\ stop \in BOOLEAN
  /\ health \in {"none", "degraded", "ready", "faulted", "stopped"}
  /\ failed \in BOOLEAN
  /\ shutdown_failed \in BOOLEAN
  /\ shutdown_complete \in BOOLEAN

HostInit ==
  /\ Init
  /\ pc = "start"
  /\ spent = 0
  /\ session = FALSE
  /\ batch = 0
  /\ wait_until = 0
  /\ stop = FALSE
  /\ health = "none"
  /\ failed = FALSE
  /\ shutdown_failed = FALSE
  /\ shutdown_complete = FALSE

-----------------------------------------------------------------------------
(* An exception leaves runtime.start() or runtime.run(): retained, and the  *)
(* fail-secure path begins.                                                 *)
Escape == pc' = "fault_health" /\ failed' = TRUE

(* Where the thread goes after the controller call of this step. *)
After(next) ==
  IF call'.raised THEN Escape ELSE pc' = next /\ UNCHANGED failed

(* access.tick(), which does nothing before the deadline. *)
TickCall(next) ==
  \/ Tick /\ After(next)
  \/ ~ TickDue /\ pc' = next /\ UNCHANGED <<controller, failed>>

(* health.report(status): atomic replacement, or an exception. *)
Report(status, next, onFailure) ==
  \/ health' = status /\ pc' = next /\ UNCHANGED failed
  \/ UNCHANGED health /\ onFailure

-----------------------------------------------------------------------------
StartService ==
  /\ pc = "start"
  /\ StartInitializing
  /\ After("start_health")
  /\ UNCHANGED <<session, batch, wait_until, stop, health, shutdown_failed,
                 shutdown_complete>>

StartReport ==
  /\ pc = "start_health"
  /\ Report("degraded", "hosting", Escape)
  /\ UNCHANGED <<controller, session, batch, wait_until, stop, shutdown_failed,
                 shutdown_complete>>

(* The API server is started, or its absence reported.  What the API itself  *)
(* writes, and fails at, is ApiHost's.                                       *)
HostingEnds ==
  /\ pc = "hosting"
  /\ Report("degraded", "loop", Escape)
  /\ UNCHANGED <<controller, session, batch, wait_until, stop, shutdown_failed,
                 shutdown_complete>>

(* Mutant: the stop event is not looked at. *)
MutLoopHead ==
  /\ pc = "loop"
  /\ TickCall("reader")
  /\ UNCHANGED <<session, batch, wait_until, stop, health, shutdown_failed,
                 shutdown_complete>>

(* The head of run(): the stop event ends it, else run_once() ticks first. *)
LoopHead ==
  /\ pc = "loop"
  /\ \/ stop /\ pc' = "shutdown" /\ UNCHANGED <<controller, failed>>
     \/ ~ stop /\ TickCall("reader")
  /\ UNCHANGED <<session, batch, wait_until, stop, health, shutdown_failed,
                 shutdown_complete>>

(* connect_until_ready(1): a session; a failed attempt, degraded, and a      *)
(* wait; or an exception of an event, the enumeration or the open.           *)
ConnectReader ==
  /\ pc = "reader" /\ ~ session
  /\ \/ /\ session' = TRUE
        /\ pc' = "ready_health"
        /\ UNCHANGED <<wait_until, health, failed>>
     \/ /\ pc' = "waiting"
        /\ wait_until' = now + BackoffSeconds
        /\ health' = "degraded"
        /\ UNCHANGED <<session, failed>>
     \/ /\ Escape
        /\ session' \in BOOLEAN
        /\ health' \in {health, "degraded"}
        /\ UNCHANGED wait_until
  /\ UNCHANGED <<controller, batch, stop, shutdown_failed, shutdown_complete>>

ReadyReport ==
  /\ pc = "ready_health"
  /\ Report("ready", "announcing", Escape)
  /\ UNCHANGED <<controller, session, batch, wait_until, stop, shutdown_failed,
                 shutdown_complete>>

(* on_ready, after run_once has returned. *)
Announce ==
  /\ pc = "announcing"
  /\ Report("ready", "loop", Escape)
  /\ UNCHANGED <<controller, session, batch, wait_until, stop, shutdown_failed,
                 shutdown_complete>>

(* Mutant: the reconnect wait does not tick. *)
MutWaitInterval ==
  /\ pc = "waiting"
  /\ pc' = IF now < wait_until THEN "sleeping" ELSE "loop"
  /\ wait_until' = IF pc' = "sleeping" THEN wait_until ELSE 0
  /\ UNCHANGED <<controller, session, batch, stop, health, failed, shutdown_failed,
                 shutdown_complete>>

(* EventWaiter.wait: until the deadline, tick, then wait one interval for    *)
(* the stop event.                                                           *)
WaitInterval ==
  /\ pc = "waiting"
  /\ \/ now < wait_until /\ TickCall("sleeping")
     \/ now >= wait_until /\ pc' = "loop" /\ UNCHANGED <<controller, failed>>
  /\ wait_until' = IF pc' = "sleeping" THEN wait_until ELSE 0
  /\ UNCHANGED <<session, batch, stop, health, shutdown_failed, shutdown_complete>>

WaitSleep ==
  /\ pc = "sleeping"
  /\ \/ stop /\ pc' = "loop"
     \/ ~ stop /\ spent > 0 /\ pc' = "waiting"
     \/ ~ stop /\ now = MaxTime /\ pc' = "loop"
  /\ wait_until' = IF pc' = "waiting" THEN wait_until ELSE 0
  /\ UNCHANGED <<controller, session, batch, stop, health, failed, shutdown_failed,
                 shutdown_complete>>

(* read_records_once: records, silence, a disconnect or read failure, or an  *)
(* exception, each after select() has waited up to one tick.  Records come   *)
(* while a grant still fits below the clock's bound.                         *)
ReadReader ==
  /\ pc = "reader" /\ session
  /\ \/ /\ batch' \in 1..MaxBatch
        /\ now + batch' * WriteTicks + ReleaseSeconds <= MaxTime
        /\ pc' = "records"
        /\ UNCHANGED <<session, health, failed>>
     \/ /\ pc' = "records"
        /\ UNCHANGED <<session, batch, health, failed>>
     \/ /\ session' = FALSE
        /\ health' = "degraded"
        /\ pc' = "records"
        /\ UNCHANGED <<batch, failed>>
     \/ /\ Escape
        /\ health' \in {health, "degraded"}
        /\ UNCHANGED <<session, batch>>
  /\ UNCHANGED <<controller, wait_until, stop, shutdown_failed, shutdown_complete>>

(* submit_record of the next record of the batch; one that raises takes the  *)
(* rest of the batch with it.                                                *)
SubmitRecord ==
  /\ pc = "records" /\ batch > 0
  /\ Process
  /\ After("records")
  /\ batch' = IF call'.raised THEN 0 ELSE batch - 1
  /\ UNCHANGED <<session, wait_until, stop, health, shutdown_failed,
                 shutdown_complete>>

(* The tick that ends run_once(). *)
EndIteration ==
  /\ pc = "records" /\ batch = 0
  /\ TickCall("loop")
  /\ UNCHANGED <<session, batch, wait_until, stop, health, shutdown_failed,
                 shutdown_complete>>

-----------------------------------------------------------------------------
FaultReport ==
  /\ pc = "fault_health"
  /\ Report("faulted", "fail_secure", pc' = "fail_secure" /\ UNCHANGED failed)
  /\ UNCHANGED <<controller, session, batch, wait_until, stop, shutdown_failed,
                 shutdown_complete>>

(* Mutant: the record that failed is submitted again before the shutdown. *)
MutFailSecure ==
  /\ pc = "fail_secure"
  /\ Process
  /\ pc' = "shutdown"
  /\ UNCHANGED <<session, batch, wait_until, stop, health, failed, shutdown_failed,
                 shutdown_complete>>

(* runtime.handle_failure(), its own exception retained. *)
FailSecure ==
  /\ pc = "fail_secure"
  /\ RecoverableFailure
  /\ pc' = "shutdown"
  /\ UNCHANGED <<session, batch, wait_until, stop, health, failed, shutdown_failed,
                 shutdown_complete>>

ShutdownAccess ==
  /\ pc = "shutdown"
  /\ Shutdown
  /\ pc' = "close_reader"
  /\ shutdown_failed' = call'.raised
  /\ UNCHANGED <<session, batch, wait_until, stop, health, failed, shutdown_complete>>

CloseReader ==
  /\ pc = "close_reader"
  /\ pc' = "stopped_health"
  /\ \/ session' = FALSE /\ UNCHANGED shutdown_failed
     \/ session /\ shutdown_failed' = TRUE /\ UNCHANGED session
  /\ UNCHANGED <<controller, batch, wait_until, stop, health, failed, shutdown_complete>>

(* health.report("stopped") and the end of BridgewireRuntime.shutdown: its   *)
(* failures are raised, retained by the host, and leave it incomplete.       *)
StoppedReport ==
  /\ pc = "stopped_health"
  /\ pc' = "fallback"
  /\ \/ health' = "stopped" /\ UNCHANGED shutdown_failed
     \/ shutdown_failed' = TRUE /\ UNCHANGED health
  /\ shutdown_complete' = ~ shutdown_failed'
  /\ failed' = (failed \/ shutdown_failed')
  /\ UNCHANGED <<controller, session, batch, wait_until, stop>>

(* Mutant: the host relies on the runtime's shutdown alone. *)
MutFallback ==
  /\ pc = "fallback"
  /\ pc' = "done"
  /\ UNCHANGED <<controller, session, batch, wait_until, stop, health, failed,
                 shutdown_failed, shutdown_complete>>

(* The host's own relay.cleanup(), and audit.close(). *)
Fallback ==
  /\ pc = "fallback"
  /\ pc' = "done"
  /\ \E c \in CleanupOutcomes(relay) :
       /\ relay' = c.relay
       /\ failed' \in {failed \/ ~ c.ok, TRUE}
  /\ UNCHANGED <<now, state, release_deadline, last_command, tracker, notified, call, past>>
  /\ UNCHANGED <<session, batch, wait_until, stop, health, shutdown_failed,
                 shutdown_complete>>

RequestShutdown ==
  /\ ~ stop
  /\ stop' = TRUE
  /\ UNCHANGED <<controller, pc, spent, session, batch, wait_until, health, failed,
                 shutdown_failed, shutdown_complete>>

(* The call the thread is in blocks, no longer than it can.  How long the    *)
(* exit takes no property tells apart.                                       *)
Elapses ==
  /\ pc \in Running
  /\ spent < LongestCall
  /\ Advance
  /\ spent' = spent + 1
  /\ UNCHANGED <<pc, session, batch, wait_until, stop, health, failed,
                 shutdown_failed, shutdown_complete>>

Steps ==
  \/ StartService \/ StartReport \/ HostingEnds \/ LoopHead \/ ConnectReader
  \/ ReadyReport \/ Announce \/ WaitInterval \/ WaitSleep \/ ReadReader
  \/ SubmitRecord \/ EndIteration \/ FaultReport \/ FailSecure \/ ShutdownAccess
  \/ CloseReader \/ StoppedReport \/ Fallback

(* A call ends and the next begins. *)
Thread == Steps /\ spent' = 0

HostNext == Thread \/ Elapses \/ RequestShutdown

HostSpec == HostInit /\ [][HostNext]_allVars

-----------------------------------------------------------------------------
(* FR-013, architecture-refactor-increment-4.md "Process-exit fail-secure    *)
(* verification": whatever raised on the way, the process that set the relay *)
(* up does not end normally with the pin HIGH or the channel still claimed.  *)
ExitIsSafe ==
  (pc = "done" /\ ~ failed) =>
    /\ relay.pin # "high"
    /\ relay.channel => relay.closed
    /\ health = "stopped"

(* After the loop is left, by a stop or by an exception, nothing drives the  *)
(* pin HIGH, although credentials may still be waiting in the batch.         *)
NoReleaseWhileExiting ==
  [][(pc \in Exiting) =>
       /\ relay'.pin = "high" => relay.pin = "high"
       /\ state' \in {"ready", "released"} => state' = state]_allVars

Longer(a, b) == IF a > b THEN a ELSE b

(* The longest time between two ticks of the loop: the device is found, or   *)
(* the most records one read returns are decided.                            *)
LongestStretch ==
  Longer(DiscoveryTicks + 4 * WriteTicks, 1 + (MaxBatch + 2) * WriteTicks)

(* FR-007 "maintain its release deadline", architecture-refactor-increment-4 *)
(* .md "later runtime ticks still restore LOW": in the loop, connected or    *)
(* waiting to reconnect, a release outlasts its deadline by less than the    *)
(* longest stretch without a tick, however discoveries, waits, records,      *)
(* disconnects and slow writes follow each other; no backoff adds to it.     *)
ReleaseEndsOnTime ==
  (state = "released" /\ pc \in Running) => now < release_deadline + LongestStretch

(* AC-018, AC-015: an unattended HIGH (no release is being timed) is never   *)
(* left in the loop without the fault being in the audit database.           *)
LoopNeverHidesAHighPin ==
  (relay.pin = "high" /\ pc \in Running /\ state # "released") =>
    state = "faulted" /\ past.faultRecorded

(* AC-014: a stop request or an exception leads to the end of the process.   *)
StopEndsTheProcess == (stop \/ failed) ~> pc = "done"

=============================================================================
