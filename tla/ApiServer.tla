------------------------------ MODULE ApiServer ------------------------------
(***************************************************************************)
(* UvicornThreadServer of adapters/http/uvicorn_server.py: a thread that   *)
(* runs Uvicorn, and start() and stop() that hand it its orders and wait   *)
(* for it only so long.  One step per critical section of the lock, so     *)
(* that the thread and several callers interleave everywhere the code      *)
(* lets them.  The waits are bounded by timeouts of any length: a waiter   *)
(* may go on at any time, whatever it waits for has happened or not.       *)
(***************************************************************************)
EXTENDS Naturals, Sequences, SequencesExt

CONSTANTS
  Callers,       \* threads that call start() and stop()
  MaxFailures    \* bound: with this many failures stop() is not called again

ASSUME ApiAssumption == Callers # {} /\ MaxFailures \in Nat

VARIABLES
  api,            \* _state
  failures,       \* _failures, by kind
  started,        \* _server.started
  should_exit,    \* _server.should_exit
  stop_complete,  \* the _stop_complete event
  thread,         \* the server thread, see Stages
  pc,             \* where each caller is
  verdict         \* how each caller's last call ended

apiVars == <<api, failures, started, should_exit, stop_complete, thread, pc, verdict>>

ApiStates ==
  {"new", "starting", "running", "start_failed", "start_timed_out", "failed",
   "stopping", "stopped", "stop_timed_out"}

(* "raised" and "returned" are run() over and _thread_main not yet at its   *)
(* lock; "finished" is past it: the state is set, the thread still logs.    *)
Stages == {"unstarted", "serving", "raised", "returned", "finished", "dead"}

FailureKinds ==
  {"spawn", "startup_timeout", "run_raised", "early_exit", "unexpected_exit",
   "shutdown_timeout"}

Points == {"idle", "spawning", "awaiting", "cancelling", "joining_start",
           "joining", "waiting"}

Verdicts == {"none", "ok", "refused", "start_error", "cancelled",
             "startup_timeout", "shutdown_timeout"}

Alive == thread \notin {"unstarted", "dead"}

ApiInit ==
  /\ api = "new"
  /\ failures = <<>>
  /\ started = FALSE
  /\ should_exit = FALSE
  /\ stop_complete = FALSE
  /\ thread = "unstarted"
  /\ pc = [c \in Callers |-> "idle"]
  /\ verdict = [c \in Callers |-> "none"]

-----------------------------------------------------------------------------
(* What ends or moves a caller.                                              *)
Goes(c, point) == pc' = [pc EXCEPT ![c] = point] /\ UNCHANGED verdict

Returns(c, v) ==
  pc' = [pc EXCEPT ![c] = "idle"] /\ verdict' = [verdict EXCEPT ![c] = v]

(* A failure is retained and the state says which. *)
Fails(kind, s) == failures' = Append(failures, kind) /\ api' = s

Keeps == UNCHANGED <<api, failures>>

-----------------------------------------------------------------------------
(* start()                                                                   *)

StartBegins(c) ==
  /\ pc[c] = "idle"
  /\ \/ api = "new" /\ api' = "starting" /\ Goes(c, "spawning")
     \/ api # "new" /\ UNCHANGED api /\ Returns(c, "refused")
  /\ UNCHANGED <<failures, started, should_exit, stop_complete, thread>>

(* self._thread.start(), with no lock held. *)
Spawn(c) ==
  /\ pc[c] = "spawning"
  /\ \/ thread' = "serving" /\ Goes(c, "awaiting") /\ Keeps
     \/ /\ Fails("spawn", "start_failed")
        /\ Returns(c, "start_error")
        /\ UNCHANGED thread
  /\ UNCHANGED <<started, should_exit, stop_complete>>

(* Mutant: a started server is RUNNING, whatever became of it since. *)
MutStartJudges(c) ==
  /\ pc[c] = "awaiting"
  /\ \/ started /\ api' = "running" /\ UNCHANGED failures /\ Returns(c, "ok")
     \/ /\ ~ started
        /\ Fails("startup_timeout", "start_timed_out")
        /\ Goes(c, "cancelling")
  /\ UNCHANGED <<started, should_exit, stop_complete, thread>>

(* The polling loop is over, for one of its reasons, and the lock is taken. *)
StartJudges(c) ==
  /\ pc[c] = "awaiting"
  /\ \/ api \in {"start_failed", "failed"} /\ Keeps /\ Returns(c, "start_error")
     \/ api \in {"stopping", "stopped"} /\ Keeps /\ Returns(c, "cancelled")
     \/ /\ api = "starting" /\ started
        /\ api' = "running"
        /\ UNCHANGED failures
        /\ Returns(c, "ok")
     \/ /\ api = "stop_timed_out" \/ (api = "starting" /\ ~ started)
        /\ \/ ~ Alive /\ Keeps /\ Returns(c, "start_error")
           \/ /\ Alive
              /\ Fails("startup_timeout", "start_timed_out")
              /\ Goes(c, "cancelling")
  /\ UNCHANGED <<started, should_exit, stop_complete, thread>>

StartCancels(c) ==
  /\ pc[c] = "cancelling"
  /\ should_exit' = TRUE
  /\ Goes(c, "joining_start")
  /\ UNCHANGED <<api, failures, started, stop_complete, thread>>

StartTimesOut(c) ==
  /\ pc[c] = "joining_start"
  /\ Returns(c, "startup_timeout")
  /\ UNCHANGED <<api, failures, started, should_exit, stop_complete, thread>>

-----------------------------------------------------------------------------
(* stop()                                                                    *)

(* Nothing to stop: the thread never ran or is gone. *)
StopAtOnce(c) ==
  /\ pc[c] = "idle"
  /\ api = "new" \/ ~ Alive
  /\ api' = IF api \in {"start_failed", "failed"} THEN api ELSE "stopped"
  /\ Returns(c, "ok")
  /\ UNCHANGED <<failures, started, should_exit, stop_complete, thread>>

StopBegins(c) ==
  /\ pc[c] = "idle"
  /\ api # "new" /\ Alive
  /\ Len(failures) < MaxFailures
  /\ \/ /\ api = "stopping"
        /\ UNCHANGED <<api, stop_complete, should_exit>>
        /\ Goes(c, "waiting")
     \/ /\ api # "stopping"
        /\ api' = "stopping"
        /\ stop_complete' = FALSE
        /\ should_exit' = TRUE
        /\ Goes(c, "joining")
  /\ UNCHANGED <<failures, started, thread>>

(* Another stop() is in charge: its event came, or this one's timeout did.  *)
StopWaited(c) ==
  /\ pc[c] = "waiting"
  /\ Returns(c, IF api = "stop_timed_out" THEN "shutdown_timeout" ELSE "ok")
  /\ UNCHANGED <<api, failures, started, should_exit, stop_complete, thread>>

(* Mutants: STOPPED after the join, whatever it joined; a join that waits    *)
(* for ever; a timeout that is raised and not retained.                      *)
MutStopJoined(c) ==
  /\ pc[c] = "joining"
  /\ api' = "stopped"
  /\ UNCHANGED failures
  /\ Returns(c, "ok")
  /\ stop_complete' = TRUE
  /\ UNCHANGED <<started, should_exit, thread>>

MutStopJoinedForEver(c) ==
  /\ pc[c] = "joining"
  /\ ~ Alive
  /\ api' = "stopped"
  /\ UNCHANGED failures
  /\ Returns(c, "ok")
  /\ stop_complete' = TRUE
  /\ UNCHANGED <<started, should_exit, thread>>

MutStopJoinedUnretained(c) ==
  /\ pc[c] = "joining"
  /\ api' = IF Alive THEN "stop_timed_out" ELSE "stopped"
  /\ UNCHANGED failures
  /\ Returns(c, IF Alive THEN "shutdown_timeout" ELSE "ok")
  /\ stop_complete' = TRUE
  /\ UNCHANGED <<started, should_exit, thread>>

StopJoined(c) ==
  /\ pc[c] = "joining"
  /\ \/ Alive /\ Fails("shutdown_timeout", "stop_timed_out")
              /\ Returns(c, "shutdown_timeout")
     \/ ~ Alive /\ api' = "stopped" /\ UNCHANGED failures /\ Returns(c, "ok")
  /\ stop_complete' = TRUE
  /\ UNCHANGED <<started, should_exit, thread>>

-----------------------------------------------------------------------------
(* The thread.  Uvicorn comes up, returns or raises when it likes, asked to  *)
(* exit or not.                                                              *)

ServerStarts ==
  /\ thread = "serving" /\ ~ started
  /\ started' = TRUE
  /\ UNCHANGED <<api, failures, should_exit, stop_complete, thread, pc, verdict>>

RunEnds ==
  /\ thread = "serving"
  /\ thread' \in {"raised", "returned"}
  /\ UNCHANGED <<api, failures, started, should_exit, stop_complete, pc, verdict>>

FinishRaised ==
  /\ thread = "raised"
  /\ Fails("run_raised",
           IF api = "starting" /\ ~ started THEN "start_failed" ELSE "failed")
  /\ thread' = "finished"
  /\ UNCHANGED <<started, should_exit, stop_complete, pc, verdict>>

FinishReturned ==
  /\ thread = "returned"
  /\ \/ api = "starting" /\ Fails("early_exit", "start_failed")
     \/ api = "running" /\ Fails("unexpected_exit", "failed")
     \/ api = "stopping" /\ api' = "stopped" /\ UNCHANGED failures
     \/ api \notin {"starting", "running", "stopping"} /\ Keeps
  /\ thread' = "finished"
  /\ UNCHANGED <<started, should_exit, stop_complete, pc, verdict>>

ThreadDies ==
  /\ thread = "finished"
  /\ thread' = "dead"
  /\ UNCHANGED <<api, failures, started, should_exit, stop_complete, pc, verdict>>

ServerThread ==
  ServerStarts \/ RunEnds \/ FinishRaised \/ FinishReturned \/ ThreadDies

-----------------------------------------------------------------------------
(* A call goes on: every step of it but the first. *)
Resumes(c) ==
  \/ Spawn(c) \/ StartJudges(c) \/ StartCancels(c) \/ StartTimesOut(c)
  \/ StopWaited(c) \/ StopJoined(c)

Calls(c) == StartBegins(c) \/ StopAtOnce(c) \/ StopBegins(c)

ApiNext == ServerThread \/ \E c \in Callers : Calls(c) \/ Resumes(c)

ApiSpec == ApiInit /\ [][ApiNext]_apiVars

(* A caller's thread runs, and its waits time out; of the server thread     *)
(* nothing is assumed.                                                       *)
ApiFairSpec == ApiSpec /\ \A c \in Callers : WF_apiVars(Resumes(c))

-----------------------------------------------------------------------------
ApiTypeOK ==
  /\ api \in ApiStates
  /\ failures \in Seq(FailureKinds)
  /\ started \in BOOLEAN
  /\ should_exit \in BOOLEAN
  /\ stop_complete \in BOOLEAN
  /\ thread \in Stages
  /\ pc \in [Callers -> Points]
  /\ verdict \in [Callers -> Verdicts]

(* What a failed state means, by the failure retained last. *)
Explanation ==
  [start_failed    |-> {"spawn", "run_raised", "early_exit"},
   start_timed_out |-> {"startup_timeout"},
   failed          |-> {"run_raised", "unexpected_exit"},
   stop_timed_out  |-> {"shutdown_timeout"}]

(* A state that reports a failure is explained by the failure retained last, *)
(* however start(), several stop() and the thread interleave; the assertion  *)
(* of uvicorn_server.py:186 is the case of STOP_TIMED_OUT.                   *)
FailureExplainsState ==
  api \in DOMAIN Explanation =>
    failures # <<>> /\ Last(failures) \in Explanation[api]

(* RUNNING is never claimed of a server that is not up, or of a thread that  *)
(* has already reported its end (uvicorn_server.py:141, 219).                *)
RunningIsServed ==
  api = "running" => started /\ thread \in {"serving", "raised", "returned"}

(* Every call ends: nothing Uvicorn does or fails to do keeps a caller       *)
(* (test_uvicorn_lifecycle_is_explicit_idempotent_and_bounded).              *)
CallsEnd == \A c \in Callers : pc[c] # "idle" ~> pc[c] = "idle"

=============================================================================
