------------------------------- MODULE ApiHost -------------------------------
(***************************************************************************)
(* What run_hardware_service (hardware_service.py) does about its optional *)
(* API server: it starts it, observes it once per pass of the loop, stops  *)
(* it after the runtime, retains its failures, and folds its state into    *)
(* the health file, which the runtime writes too.  The server is           *)
(* ApiServer; the runtime and the reader are what the file hears of them.  *)
(***************************************************************************)
EXTENDS ApiServer, Filtering

CONSTANTS
  Host    \* the control thread

ASSUME HostAssumption == Host \in Callers

VARIABLES
  phase,      \* where the host is
  reader,     \* the reader is connected
  health,     \* the health file: its status and its access_control field
  api_state,  \* the state of the API last reported
  retained,   \* `failures' of the host, by kind: those that concern the API
  unwritten   \* and whether it has one of the health file: a report raised

hostVars == <<phase, reader, health, api_state, retained, unwritten>>
allVars == <<apiVars, hostVars>>

Phases == {"building", "starting", "loop", "announcing", "observing", "raised",
           "exiting", "stopping", "closing", "done"}

Reports == [status : {"ready", "degraded", "faulted", "stopped"},
            access : {"unset", "operational", "stopped"}]

FailureStates == {"start_failed", "start_timed_out", "failed", "stop_timed_out"}

(* api_server is not None. *)
Hosted == api # "new"

HostInit ==
  /\ ApiInit
  /\ phase = "building"
  /\ reader = FALSE
  /\ health = [status |-> "degraded", access |-> "unset"]
  /\ api_state = "new"
  /\ retained = <<>>
  /\ unwritten = FALSE

-----------------------------------------------------------------------------
(* One health.report, or several of which the last that worked remains; one  *)
(* that raises leaves the file as it is and its exception in `failures'.     *)
Writes(reports) ==
  \/ health' = Last(reports) /\ UNCHANGED unwritten
  \/ health' \in Range(reports) \cup {health} /\ unwritten' = TRUE

RuntimeReport(status) == [status |-> status, access |-> "unset"]

(* report_api_state *)
ApiReport(s, failure) ==
  [status |-> CASE failure -> "degraded"
                [] ~ failure /\ s = "running" -> "ready"
                [] ~ failure /\ s \in {"stopping", "stopped"} -> "stopped"
                [] OTHER -> "degraded",
   access |-> IF s \in {"stopping", "stopped"} THEN "stopped" ELSE "operational"]

(* Mutant: the failures already observed are not remembered. *)
MutUnobserved == failures

Unobserved == Dropping(failures, Range(retained))

(* observe_api: a new state is reported unless a failure will report it;     *)
(* then every failure not seen before is retained and reported.              *)
Observes ==
  LET changed == api # api_state /\ (api \notin FailureStates \/ failures = <<>>)
      news    == Unobserved
      reports == (IF changed THEN <<ApiReport(api, api \in FailureStates)>> ELSE <<>>)
                 \o [i \in DOMAIN news |-> ApiReport(api, TRUE)]
  IN  /\ retained' = retained \o news
      /\ IF reports = <<>> THEN UNCHANGED <<health, api_state, unwritten>>
                           ELSE Writes(reports) /\ api_state' = api

(* retain_api_failure of an exception the server's method raised. *)
Retains(kind, s) ==
  IF kind \in Range(retained) THEN UNCHANGED <<retained, health, api_state, unwritten>>
  ELSE /\ retained' = Append(retained, kind)
       /\ Writes(<<ApiReport(s, TRUE)>>)
       /\ api_state' = s

-----------------------------------------------------------------------------
(* Composing the services, the app or the server raised. *)
BuildFails ==
  /\ phase = "building"
  /\ Retains("build", "start_failed")
  /\ phase' = "loop"
  /\ UNCHANGED <<apiVars, reader>>

CallStart ==
  /\ phase = "building"
  /\ Writes(<<ApiReport("starting", FALSE)>>)
  /\ api_state' = "starting"
  /\ StartBegins(Host)
  /\ phase' = "starting"
  /\ UNCHANGED <<reader, retained>>

(* A timeout is the exception the server retained; the others are new.       *)
StartReturned ==
  /\ phase = "starting" /\ pc[Host] = "idle"
  /\ \/ verdict[Host] = "ok" /\ Observes
     \/ verdict[Host] = "startup_timeout" /\ Retains("startup_timeout", api)
     \/ verdict[Host] = "start_error" /\ Retains("start_error", api)
  /\ phase' = "loop"
  /\ UNCHANGED <<apiVars, reader>>

-----------------------------------------------------------------------------
(* run_once found the reader and reports it ready: the file says so until    *)
(* on_ready corrects it.  A report that raises ends the loop.                *)
Connects ==
  /\ phase = "loop" /\ ~ reader
  /\ reader' = TRUE
  /\ \/ health' = RuntimeReport("ready") /\ phase' = "announcing" /\ UNCHANGED unwritten
     \/ unwritten' = TRUE /\ phase' = "raised" /\ UNCHANGED health
  /\ UNCHANGED <<apiVars, api_state, retained>>

(* Mutant: on_ready reports what the reader is, whatever the API is. *)
MutAnnounces ==
  /\ phase = "announcing"
  /\ Writes(<<RuntimeReport("ready")>>)
  /\ phase' = "observing"
  /\ UNCHANGED <<apiVars, reader, api_state, retained>>

(* on_ready: the state of the API replaces what the runtime wrote. *)
Announces ==
  /\ phase = "announcing"
  /\ Writes(<<ApiReport(api_state, FALSE)>>)
  /\ phase' = "observing"
  /\ UNCHANGED <<apiVars, reader, api_state, retained>>

(* A pass of the loop in which the reader is lost, or still not there. *)
Loses ==
  /\ phase = "loop"
  /\ reader' = FALSE
  /\ health' = RuntimeReport("degraded")
  /\ phase' = "observing"
  /\ UNCHANGED <<apiVars, api_state, retained, unwritten>>

Passes ==
  /\ phase = "loop"
  /\ phase' = "observing"
  /\ UNCHANGED <<apiVars, reader, health, api_state, retained, unwritten>>

(* on_iteration *)
Observing ==
  /\ phase = "observing"
  /\ IF Hosted THEN Observes ELSE UNCHANGED <<health, api_state, retained, unwritten>>
  /\ phase' = "loop"
  /\ UNCHANGED <<apiVars, reader>>

(* The loop ends by a stop request, or by an exception: of a health report,  *)
(* or of anything else in the pass, which may have reported the reader lost. *)
LoopEnds ==
  /\ phase = "loop"
  /\ \/ phase' = "exiting" /\ UNCHANGED <<reader, health, unwritten>>
     \/ /\ phase' = "raised"
        /\ \/ UNCHANGED <<reader, health>>
           \/ reader' = FALSE /\ health' \in {health, RuntimeReport("degraded")}
        /\ unwritten' \in {unwritten, TRUE}
  /\ UNCHANGED <<apiVars, api_state, retained>>

(* runtime.report_fault() *)
FaultReported ==
  /\ phase = "raised"
  /\ Writes(<<RuntimeReport("faulted")>>)
  /\ phase' = "exiting"
  /\ UNCHANGED <<apiVars, reader, api_state, retained>>

(* runtime.shutdown() and relay.cleanup(), then api_server.stop() begins.    *)
Exits ==
  /\ phase = "exiting"
  /\ reader' = FALSE
  /\ Writes(<<RuntimeReport("stopped")>>)
  /\ \/ Hosted /\ (StopAtOnce(Host) \/ StopBegins(Host)) /\ phase' = "stopping"
     \/ ~ Hosted /\ phase' = "done" /\ UNCHANGED apiVars
  /\ UNCHANGED <<api_state, retained>>

StopReturned ==
  /\ phase = "stopping" /\ pc[Host] = "idle"
  /\ \/ verdict[Host] = "ok" /\ UNCHANGED <<health, api_state, retained, unwritten>>
     \/ verdict[Host] = "shutdown_timeout" /\ Retains("shutdown_timeout", api)
  /\ phase' = "closing"
  /\ UNCHANGED <<apiVars, reader>>

(* Mutant: no last look at the server. *)
MutCloses ==
  /\ phase = "closing"
  /\ phase' = "done"
  /\ UNCHANGED <<apiVars, reader, health, api_state, retained, unwritten>>

Closes ==
  /\ phase = "closing"
  /\ Observes
  /\ phase' = "done"
  /\ UNCHANGED <<apiVars, reader>>

-----------------------------------------------------------------------------
ControlThread ==
  \/ BuildFails \/ CallStart \/ StartReturned \/ Connects \/ Announces \/ Loses
  \/ Passes \/ Observing \/ LoopEnds \/ FaultReported \/ Exits \/ StopReturned
  \/ Closes
  \/ Resumes(Host) /\ UNCHANGED hostVars

HostNext ==
  \/ ControlThread
  \/ ServerThread /\ UNCHANGED hostVars

HostSpec == HostInit /\ [][HostNext]_allVars

(* The control thread runs; of the server thread nothing is assumed.         *)
HostFairSpec == HostSpec /\ WF_allVars(ControlThread)

-----------------------------------------------------------------------------
HostTypeOK ==
  /\ ApiTypeOK
  /\ phase \in Phases
  /\ reader \in BOOLEAN
  /\ health \in Reports
  /\ api_state \in ApiStates
  /\ retained \in Seq(FailureKinds \cup {"build", "start_error"})
  /\ unwritten \in BOOLEAN

(* With one control thread, STOPPED is never claimed of a server that runs,  *)
(* at no moment (uvicorn_server.py:172, 197, 229).                           *)
StoppedIsStopped ==
  api = "stopped" => thread \in {"unstarted", "finished", "dead"}

(* Each failure is retained once, although start(), stop() and every pass of *)
(* the loop report the same exceptions (hardware_service.py:106).            *)
EachFailureOnce ==
  \A i, j \in DOMAIN retained : retained[i] = retained[j] => i = j

(* No failure is lost on the way out: what the server retained the host has  *)
(* raised, unless the server outlived its stop() and failed after the end    *)
(* (hardware_service.py:276).                                                *)
NothingUnreported ==
  phase = "done" =>
    \/ Range(failures) \subseteq Range(retained)
    \/ "shutdown_timeout" \in Range(retained)

(* Once a failure of the API is known the file says degraded whenever a pass *)
(* of the loop begins and whenever the server is observed, unless a report   *)
(* raised (read-only-api.md: written to file health as API degradation): no  *)
(* reconnect leaves runtime.py:94's ready standing.  Between that report and *)
(* on_ready's (announcing) the file does say ready.                          *)
ApiFailureIsDegraded ==
  phase \in {"loop", "observing"} /\ retained # <<>> =>
    health.status = "degraded" \/ unwritten

(* The API delays the door for a bounded time only and never keeps the       *)
(* process (read-only-api.md: worst-case bounded delay).                     *)
HostGoesOn ==
  /\ phase = "building" ~> phase = "loop"
  /\ phase = "exiting" ~> phase = "done"

(* REL-006: degraded is reported until the required components are usable.   *)
ReadyMeansReader ==
  phase = "loop" /\ health.status = "ready" => reader \/ unwritten

=============================================================================
