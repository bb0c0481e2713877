--------------------------- MODULE ApiServerProofs ---------------------------
(***************************************************************************)
(* The server's states tell the truth, for any number of callers; and a    *)
(* host with its one control thread is such a caller, under which STOPPED  *)
(* is also true.  What the host tells of the server's failures: each once, *)
(* none lost on the way out, and a health file that stays degraded.        *)
(***************************************************************************)
EXTENDS ApiHost, SequenceLemmas, SequenceTheorems, TLAPS

(* A server that came up was spawned, and one that is still STARTING has not *)
(* reported its end.                                                         *)
StartedWasSpawned == started => thread # "unstarted"

StartingIsOpen ==
  api = "starting" => thread \in {"unstarted", "serving", "raised", "returned"}

(* Only a start() that has left NEW spawns the thread. *)
NewIsUnstarted ==
  api = "new" => thread = "unstarted" /\ \A c \in Callers : pc[c] # "spawning"

IInv ==
  /\ ApiTypeOK
  /\ FailureExplainsState
  /\ RunningIsServed
  /\ StartedWasSpawned
  /\ StartingIsOpen
  /\ NewIsUnstarted

USE DEF Stages, Points, Verdicts, ApiStates

-----------------------------------------------------------------------------
(* A failure retained with the state it explains (uvicorn_server.py:124-149). *)
LEMMA FailsFacts ==
  ASSUME failures \in Seq(FailureKinds), NEW kind \in FailureKinds,
         NEW s \in DOMAIN Explanation, kind \in Explanation[s],
         Fails(kind, s)
  PROVE  /\ failures' \in Seq(FailureKinds)
         /\ FailureExplainsState'
         /\ api' = s
  BY DEF Fails, FailureExplainsState, Last, Explanation

(* A state that is no failure needs no explanation. *)
LEMMA NoFailureFacts ==
  ASSUME api' \notin {"start_failed", "start_timed_out", "failed", "stop_timed_out"}
  PROVE  FailureExplainsState'
  BY DEF FailureExplainsState, Explanation

(* A step that changes neither the state nor the failures needs no new one. *)
LEMMA KeepsFacts ==
  ASSUME FailureExplainsState, UNCHANGED failures, UNCHANGED api
  PROVE  FailureExplainsState'
  BY DEF FailureExplainsState, Explanation

(* How a caller goes on keeps the types of pc and verdict. *)
LEMMA CallerFacts ==
  ASSUME ApiTypeOK, NEW c \in Callers, NEW point \in Points, NEW v \in Verdicts,
         Goes(c, point) \/ Returns(c, v)
  PROVE  /\ pc' \in [Callers -> Points]
         /\ verdict' \in [Callers -> Verdicts]
         /\ point # "spawning" =>
              \A d \in Callers : pc'[d] = "spawning" => pc[d] = "spawning"
  BY DEF ApiTypeOK, Goes, Returns

USE DEF StartedWasSpawned, StartingIsOpen, RunningIsServed, NewIsUnstarted, Alive

-----------------------------------------------------------------------------
(* The invariant holds at the start (uvicorn_server.py:95). *)
LEMMA InitIInv == ApiInit => IInv
<1> SUFFICES ASSUME ApiInit PROVE IInv
  OBVIOUS
<1>1. ApiTypeOK
  <2>1. failures \in Seq(FailureKinds)
    BY DEF ApiInit
  <2>2. pc \in [Callers -> Points] /\ verdict \in [Callers -> Verdicts]
    BY DEF ApiInit
  <2>3. api \in ApiStates /\ thread \in Stages
    BY DEF ApiInit
  <2>4. started \in BOOLEAN /\ should_exit \in BOOLEAN /\ stop_complete \in BOOLEAN
    BY DEF ApiInit
  <2> QED BY <2>1, <2>2, <2>3, <2>4 DEF ApiTypeOK
<1>2. FailureExplainsState
  BY DEF ApiInit, FailureExplainsState, Explanation
<1> QED
  BY <1>1, <1>2 DEF ApiInit, IInv

(* start() preserves it (uvicorn_server.py:115-156). *)
LEMMA StartIInv ==
  ASSUME IInv, NEW c \in Callers,
         StartBegins(c) \/ Spawn(c) \/ StartJudges(c) \/ StartCancels(c) \/ StartTimesOut(c)
  PROVE  IInv'
<1> USE DEF IInv
<1>1. CASE StartBegins(c)
  <2>1. CASE api = "new"
    <3>1. api' = "starting" /\ Goes(c, "spawning")
      BY <1>1, <2>1 DEF StartBegins
    <3>2. pc' \in [Callers -> Points] /\ verdict' \in [Callers -> Verdicts]
      BY <3>1, CallerFacts
    <3>3. FailureExplainsState'
      BY <3>1, NoFailureFacts
    <3>4. thread = "unstarted"
      BY <2>1
    <3> QED BY <1>1, <3>1, <3>2, <3>3, <3>4 DEF StartBegins, ApiTypeOK
  <2>2. CASE api # "new"
    <3>1. UNCHANGED api /\ Returns(c, "refused")
      BY <1>1, <2>2 DEF StartBegins
    <3> QED BY <1>1, <3>1, CallerFacts, KeepsFacts DEF StartBegins, ApiTypeOK
  <2> QED BY <2>1, <2>2
<1>2. CASE Spawn(c)
  <2>1. CASE thread' = "serving" /\ Goes(c, "awaiting") /\ Keeps
    BY <1>2, <2>1, CallerFacts, KeepsFacts DEF Spawn, Keeps, ApiTypeOK
  <2>2. CASE Fails("spawn", "start_failed") /\ Returns(c, "start_error") /\ UNCHANGED thread
    <3>1. /\ failures' \in Seq(FailureKinds)
          /\ FailureExplainsState'
          /\ api' = "start_failed"
      BY <2>2, FailsFacts DEF ApiTypeOK, FailureKinds, Explanation
    <3> QED BY <1>2, <2>2, <3>1, CallerFacts DEF Spawn, ApiTypeOK
  <2> QED BY <1>2, <2>1, <2>2 DEF Spawn
<1>3. CASE StartJudges(c)
  <2>1. CASE Keeps /\ (Returns(c, "start_error") \/ Returns(c, "cancelled"))
    BY <1>3, <2>1, CallerFacts, KeepsFacts DEF StartJudges, Keeps, ApiTypeOK
  <2>2. CASE api = "starting" /\ started /\ api' = "running" /\ UNCHANGED failures
             /\ Returns(c, "ok")
    BY <1>3, <2>2, CallerFacts, NoFailureFacts DEF StartJudges, ApiTypeOK
  <2>3. CASE Fails("startup_timeout", "start_timed_out") /\ Goes(c, "cancelling")
    <3>1. /\ failures' \in Seq(FailureKinds)
          /\ FailureExplainsState'
          /\ api' = "start_timed_out"
      BY <2>3, FailsFacts DEF ApiTypeOK, FailureKinds, Explanation
    <3> QED BY <1>3, <2>3, <3>1, CallerFacts DEF StartJudges, ApiTypeOK
  <2> QED BY <1>3, <2>1, <2>2, <2>3 DEF StartJudges
<1>4. CASE StartCancels(c)
  BY <1>4, CallerFacts, KeepsFacts DEF StartCancels, ApiTypeOK
<1>5. CASE StartTimesOut(c)
  BY <1>5, CallerFacts, KeepsFacts DEF StartTimesOut, ApiTypeOK
<1> QED
  BY <1>1, <1>2, <1>3, <1>4, <1>5

(* stop() preserves it, however many run at once (uvicorn_server.py:158-198). *)
LEMMA StopIInv ==
  ASSUME IInv, NEW c \in Callers,
         StopAtOnce(c) \/ StopBegins(c) \/ StopWaited(c) \/ StopJoined(c)
  PROVE  IInv'
<1> USE DEF IInv
<1>1. CASE StopAtOnce(c)
  <2>1. CASE api \in {"start_failed", "failed"}
    BY <1>1, <2>1, CallerFacts, KeepsFacts DEF StopAtOnce, ApiTypeOK
  <2>2. CASE api \notin {"start_failed", "failed"}
    BY <1>1, <2>2, CallerFacts, NoFailureFacts DEF StopAtOnce, ApiTypeOK
  <2> QED BY <2>1, <2>2
<1>2. CASE StopBegins(c)
  <2>1. CASE api = "stopping"
    <3>1. UNCHANGED <<api, stop_complete, should_exit>> /\ Goes(c, "waiting")
      BY <1>2, <2>1 DEF StopBegins
    <3> QED BY <1>2, <3>1, CallerFacts, KeepsFacts DEF StopBegins, ApiTypeOK
  <2>2. CASE api # "stopping"
    <3>1. api' = "stopping" /\ ~ stop_complete' /\ should_exit' /\ Goes(c, "joining")
      BY <1>2, <2>2 DEF StopBegins
    <3>2. stop_complete' \in BOOLEAN /\ should_exit' \in BOOLEAN
      BY <1>2, <2>2 DEF StopBegins
    <3> QED BY <1>2, <3>1, <3>2, CallerFacts, NoFailureFacts DEF StopBegins, ApiTypeOK
  <2> QED BY <2>1, <2>2
<1>3. CASE StopWaited(c)
  BY <1>3, CallerFacts, KeepsFacts DEF StopWaited, ApiTypeOK
<1>4. CASE StopJoined(c)
  <2>1. CASE Alive
    <3>1. Fails("shutdown_timeout", "stop_timed_out") /\ Returns(c, "shutdown_timeout")
      BY <1>4, <2>1 DEF StopJoined
    <3>2. /\ failures' \in Seq(FailureKinds)
          /\ FailureExplainsState'
          /\ api' = "stop_timed_out"
      BY <3>1, FailsFacts DEF ApiTypeOK, FailureKinds, Explanation
    <3> QED BY <1>4, <3>1, <3>2, CallerFacts DEF StopJoined, ApiTypeOK
  <2>2. CASE ~ Alive
    <3>1. api' = "stopped" /\ UNCHANGED failures /\ Returns(c, "ok")
      BY <1>4, <2>2 DEF StopJoined
    <3> QED BY <1>4, <3>1, CallerFacts, NoFailureFacts DEF StopJoined, ApiTypeOK
  <2> QED BY <2>1, <2>2
<1> QED
  BY <1>1, <1>2, <1>3, <1>4

(* The server thread preserves it (uvicorn_server.py:200-235). *)
LEMMA ThreadIInv ==
  ASSUME IInv, ServerThread
  PROVE  IInv'
<1> USE DEF IInv
<1>1. CASE ServerStarts
  BY <1>1, KeepsFacts DEF ServerStarts, ApiTypeOK
<1>2. CASE RunEnds
  BY <1>2, KeepsFacts DEF RunEnds, ApiTypeOK
<1>3. CASE FinishRaised
  <2>1. PICK s \in {"start_failed", "failed"} : Fails("run_raised", s)
    BY <1>3 DEF FinishRaised
  <2>2. /\ failures' \in Seq(FailureKinds)
        /\ FailureExplainsState'
        /\ api' = s
    BY <2>1, FailsFacts DEF ApiTypeOK, FailureKinds, Explanation
  <2> QED BY <1>3, <2>2 DEF FinishRaised, ApiTypeOK
<1>4. CASE FinishReturned
  <2>1. CASE api = "starting"
    <3>1. Fails("early_exit", "start_failed")
      BY <1>4, <2>1 DEF FinishReturned
    <3>2. failures' \in Seq(FailureKinds) /\ FailureExplainsState' /\ api' = "start_failed"
      BY <3>1, FailsFacts DEF ApiTypeOK, FailureKinds, Explanation
    <3> QED BY <1>4, <3>2 DEF FinishReturned, ApiTypeOK
  <2>2. CASE api = "running"
    <3>1. Fails("unexpected_exit", "failed")
      BY <1>4, <2>2 DEF FinishReturned
    <3>2. failures' \in Seq(FailureKinds) /\ FailureExplainsState' /\ api' = "failed"
      BY <3>1, FailsFacts DEF ApiTypeOK, FailureKinds, Explanation
    <3> QED BY <1>4, <3>2 DEF FinishReturned, ApiTypeOK
  <2>3. CASE api = "stopping"
    BY <1>4, <2>3, NoFailureFacts DEF FinishReturned, ApiTypeOK
  <2>4. CASE api \notin {"starting", "running", "stopping"}
    BY <1>4, <2>4, KeepsFacts DEF FinishReturned, Keeps, ApiTypeOK
  <2> QED BY <2>1, <2>2, <2>3, <2>4
<1>5. CASE ThreadDies
  BY <1>5, KeepsFacts DEF ThreadDies, ApiTypeOK
<1> QED
  BY <1>1, <1>2, <1>3, <1>4, <1>5 DEF ServerThread

(* IInv is inductive. *)
LEMMA NextIInv == IInv /\ [ApiNext]_apiVars => IInv'
<1> SUFFICES ASSUME IInv, [ApiNext]_apiVars PROVE IInv'
  OBVIOUS
<1>1. CASE ServerThread
  BY <1>1, ThreadIInv
<1>2. CASE \E c \in Callers : Calls(c) \/ Resumes(c)
  BY <1>2, StartIInv, StopIInv DEF Calls, Resumes
<1>3. CASE UNCHANGED apiVars
  BY <1>3, KeepsFacts DEF apiVars, IInv, ApiTypeOK
<1> QED
  BY <1>1, <1>2, <1>3 DEF ApiNext

(* The strengthened invariant holds in every reachable state. *)
THEOREM Inductive == ApiSpec => []IInv
<1> QED BY InitIInv, NextIInv, PTL DEF ApiSpec

(* The variables keep their types (uvicorn_server.py:95-105). *)
THEOREM TypeCorrect == ApiSpec => []ApiTypeOK
<1>1. IInv => ApiTypeOK
  BY DEF IInv
<1> QED BY <1>1, Inductive, PTL

(* A failed state is explained by the failure retained last; the assertion   *)
(* of uvicorn_server.py:186 never fails.                                     *)
THEOREM FailureExplainsStateCorrect == ApiSpec => []FailureExplainsState
<1>1. IInv => FailureExplainsState
  BY DEF IInv
<1> QED BY <1>1, Inductive, PTL

(* RUNNING is claimed only of a server that came up and whose thread has not *)
(* reported its end (uvicorn_server.py:141, 219).                            *)
THEOREM RunningIsServedCorrect == ApiSpec => []RunningIsServed
<1>1. IInv => RunningIsServed
  BY DEF IInv
<1> QED BY <1>1, Inductive, PTL

-----------------------------------------------------------------------------
(* The host.  Its control thread is the only caller there is, and stop()     *)
(* does not overtake its start().                                            *)
OneCaller ==
  /\ \A c \in Callers \ {Host} : pc[c] = "idle"
  /\ pc[Host] = "spawning" => api = "starting" /\ thread = "unstarted"

HostInv == IInv /\ OneCaller /\ StoppedIsStopped

(* Every step of the host is one of the server, for this caller, or none.    *)
LEMMA HostStepIsApi == [HostNext]_allVars => [ServerThread \/ Calls(Host) \/ Resumes(Host)]_apiVars
BY HostAssumption
DEF HostNext, ControlThread, BuildFails, CallStart, StartReturned, Connects, Announces, Loses, Passes,
    Observing, LoopEnds, FaultReported, Exits, StopReturned, Closes, Calls, allVars

(* What is assumed of the one caller holds at the start ... *)
LEMMA HostInitially == HostInit => HostInv
<1> SUFFICES ASSUME HostInit PROVE HostInv
  OBVIOUS
<1>1. IInv
  BY InitIInv DEF HostInit
<1>2. OneCaller /\ StoppedIsStopped
  BY HostAssumption DEF HostInit, ApiInit, OneCaller, StoppedIsStopped
<1> QED
  BY <1>1, <1>2 DEF HostInv

(* ... and every step of the host keeps it. *)
LEMMA HostStep == HostInv /\ [HostNext]_allVars => HostInv'
<1> SUFFICES ASSUME HostInv, [ServerThread \/ Calls(Host) \/ Resumes(Host)]_apiVars
             PROVE  HostInv'
  BY HostStepIsApi
<1> USE DEF HostInv
<1>1. IInv'
  BY HostAssumption, NextIInv DEF ApiNext
<1>2. ApiTypeOK /\ NewIsUnstarted
  BY DEF IInv
<1>3. CASE ServerThread
  BY <1>1, <1>3
  DEF ServerThread, ServerStarts, RunEnds, FinishRaised, FinishReturned, ThreadDies, Fails, Keeps,
      OneCaller, StoppedIsStopped
<1>4. CASE Calls(Host)
  <2>1. \A c \in Callers \ {Host} : pc'[c] = "idle"
    BY <1>2, <1>4 DEF Calls, StartBegins, StopAtOnce, StopBegins, Goes, Returns, OneCaller, ApiTypeOK
  <2>2. pc'[Host] = "spawning" => api' = "starting" /\ thread' = "unstarted"
    BY <1>2, <1>4, HostAssumption
    DEF Calls, StartBegins, StopAtOnce, StopBegins, Goes, Returns, ApiTypeOK
  <2>3. StoppedIsStopped'
    BY <1>2, <1>4 DEF Calls, StartBegins, StopAtOnce, StopBegins, StoppedIsStopped
  <2> QED
    BY <1>1, <2>1, <2>2, <2>3 DEF OneCaller
<1>5. CASE Resumes(Host)
  <2>1. \A c \in Callers \ {Host} : pc'[c] = "idle"
    BY <1>2, <1>5
    DEF Resumes, Spawn, StartJudges, StartCancels, StartTimesOut, StopWaited, StopJoined, Goes,
        Returns, OneCaller, ApiTypeOK
  <2>2. pc'[Host] # "spawning"
    BY <1>2, <1>5, HostAssumption
    DEF Resumes, Spawn, StartJudges, StartCancels, StartTimesOut, StopWaited, StopJoined, Goes,
        Returns, ApiTypeOK
  <2>3. StoppedIsStopped'
    BY <1>2, <1>5
    DEF Resumes, Spawn, StartJudges, StartCancels, StartTimesOut, StopWaited, StopJoined, Fails,
        Keeps, OneCaller, StoppedIsStopped
  <2> QED
    BY <1>1, <2>1, <2>2, <2>3 DEF OneCaller
<1>6. CASE UNCHANGED apiVars
  BY <1>1, <1>6 DEF apiVars, OneCaller, StoppedIsStopped
<1> QED
  BY <1>3, <1>4, <1>5, <1>6

(* What the host does to the server is what the server's specification       *)
(* allows: what holds of it with any callers holds under the host.           *)
THEOREM HostImplementsApi == HostSpec => ApiSpec
<1>1. [HostNext]_allVars => [ApiNext]_apiVars
  BY HostStepIsApi, HostAssumption DEF ApiNext
<1>2. HostInit => ApiInit
  BY DEF HostInit
<1> QED
  BY <1>1, <1>2, PTL DEF HostSpec, ApiSpec

(* Under the host STOPPED is never claimed of a server that runs, at no      *)
(* moment (uvicorn_server.py:172, 197, 229).                                 *)
THEOREM StoppedIsStoppedCorrect == HostSpec => []StoppedIsStopped
<1>1. HostInv => StoppedIsStopped
  BY DEF HostInv
<1> QED
  BY <1>1, HostInitially, HostStep, PTL DEF HostSpec

HIDE DEF Stages, Points, Verdicts, ApiStates, StartedWasSpawned, StartingIsOpen, RunningIsServed,
         NewIsUnstarted, Alive

-----------------------------------------------------------------------------
(* No element of a sequence occurs twice. *)
Once(s) == \A i \in 1..Len(s), j \in 1..Len(s) : s[i] = s[j] => i = j

(* A sequence has an element x. *)
Has(s, x) == \E i \in 1..Len(s) : s[i] = x

(* The states of a server that failed before it was stopped. *)
Failing == {"start_failed", "start_timed_out", "failed"}

(* stop() was not called yet; it has returned. *)
BeforeStop ==
  phase \in {"building", "starting", "loop", "announcing", "observing", "raised", "exiting"}
Stopped == (phase = "stopping" /\ pc[Host] = "idle") \/ phase \in {"closing", "done"}

(* Where the host is in the server's calls, and what it does before them.    *)
CallsFollowPhases ==
  /\ phase = "building" => api = "new"
  /\ api = "new" => failures = <<>> /\ thread = "unstarted" /\ phase \notin {"starting", "stopping", "closing"}
  /\ pc[Host] \in {"spawning", "awaiting", "cancelling", "joining_start"} => phase = "starting"
  /\ pc[Host] = "joining" => phase = "stopping"
  /\ pc[Host] # "waiting"
  /\ pc[Host] = "awaiting" => thread # "unstarted"
  /\ pc[Host] \in {"cancelling", "joining_start"} => failures # <<>>

(* Each kind of failure comes once: a failed start or run is not followed by *)
(* another, the thread ends once, and stop() is called once.                 *)
FailuresOnce ==
  /\ Once(failures)
  /\ BeforeStop => api \notin {"stopping", "stopped", "stop_timed_out"}
  /\ BeforeStop \/ pc[Host] = "joining" => ~ Has(failures, "shutdown_timeout")
  /\ BeforeStop /\ failures # <<>> => api \in Failing
  /\ thread \notin {"finished", "dead"} =>
       \A kind \in {"run_raised", "early_exit", "unexpected_exit"} : ~ Has(failures, kind)

(* A thread that outlives stop() is reported by it; any other one is gone.   *)
OutlivedIsKnown == Stopped => ~ Alive \/ Has(failures, "shutdown_timeout")

(* At the end what the server retained the host has retained.                *)
DoneIsTold ==
  phase = "done" => (\A i \in 1..Len(failures) : Has(retained, failures[i]))
                    \/ Has(retained, "shutdown_timeout")

(* What the host has retained by the time of its loop is a failure of the    *)
(* server, or of building it, and the state it reports says so.              *)
RetainedIsFailed ==
  /\ phase \in {"building", "starting"} => retained = <<>>
  /\ phase = "starting" /\ pc[Host] = "idle" /\ verdict[Host] \in {"start_error", "startup_timeout"} =>
       failures # <<>>
  /\ phase \in {"loop", "announcing", "observing"} /\ retained # <<>> =>
       /\ api = "new" \/ failures # <<>>
       /\ api_state \in Failing
       /\ phase # "announcing" => health.status = "degraded" \/ unwritten

HostReports ==
  /\ HostTypeOK
  /\ CallsFollowPhases
  /\ FailuresOnce
  /\ OutlivedIsKnown
  /\ DoneIsTold
  /\ RetainedIsFailed
  /\ Once(retained)

HostAll == HostInv /\ HostReports

-----------------------------------------------------------------------------
(* A failure that comes for the first time. *)
LEMMA AppendOnce ==
  ASSUME NEW K, NEW s \in Seq(K), NEW x \in K, Once(s), ~ Has(s, x)
  PROVE  /\ Append(s, x) \in Seq(K)
         /\ Once(Append(s, x))
         /\ Append(s, x) # <<>>
         /\ \A y : Has(Append(s, x), y) <=> (Has(s, y) \/ y = x)
<1>1. PICK u : u = Append(s, x)
  OBVIOUS
<1>2. /\ u \in Seq(K) /\ Len(s) \in Nat /\ Len(u) = Len(s) + 1
      /\ \A i \in 1..Len(s) : u[i] = s[i]
      /\ u[Len(s) + 1] = x
  BY <1>1
<1>3. /\ \A i \in 1..Len(u) : i \in 1..Len(s) \/ i = Len(s) + 1
      /\ \A i \in 1..Len(s) : i \in 1..Len(u)
      /\ Len(s) + 1 \in 1..Len(u)
  BY <1>2
<1>4. ASSUME NEW i \in 1..Len(u), NEW j \in 1..Len(u), u[i] = u[j]
      PROVE  i = j
  <2>1. CASE i \in 1..Len(s) /\ j \in 1..Len(s)
    BY <1>2, <1>4, <2>1 DEF Once
  <2>2. CASE i \in 1..Len(s) /\ j = Len(s) + 1
    BY <1>2, <1>4, <2>2 DEF Has
  <2>3. CASE i = Len(s) + 1 /\ j \in 1..Len(s)
    BY <1>2, <1>4, <2>3 DEF Has
  <2> QED
    BY <1>3, <2>1, <2>2, <2>3
<1>5. Once(u)
  BY <1>4 DEF Once
<1>6. \A y : Has(u, y) <=> (Has(s, y) \/ y = x)
  BY <1>2, <1>3 DEF Has
<1>7. u # <<>>
  BY <1>2
<1> QED
  BY <1>1, <1>2, <1>5, <1>6, <1>7

(* Where a step of a call leaves the host's thread. *)
LEMMA HostCaller ==
  ASSUME ApiTypeOK
  PROVE  /\ \A point : Goes(Host, point) => pc'[Host] = point /\ verdict'[Host] = verdict[Host]
         /\ \A v : Returns(Host, v) => pc'[Host] = "idle" /\ verdict'[Host] = v
BY HostAssumption DEF ApiTypeOK, Goes, Returns

(* A failure the server retains, seen from the invariant. *)
LEMMA FailsOnce ==
  ASSUME ApiTypeOK, FailuresOnce, NEW kind \in FailureKinds, NEW s, Fails(kind, s), ~ Has(failures, kind)
  PROVE  /\ Once(failures') /\ failures' # <<>> /\ api' = s
         /\ \A y : Has(failures', y) <=> (Has(failures, y) \/ y = kind)
<1>1. failures \in Seq(FailureKinds) /\ Once(failures)
  BY DEF ApiTypeOK, FailuresOnce
<1> QED
  BY <1>1, AppendOnce DEF Fails

(* The host's own state is not touched by the server's steps. *)
LEMMA HostVarsUntouched ==
  ASSUME HostAll, UNCHANGED hostVars, ApiTypeOK'
  PROVE  HostTypeOK' /\ Once(retained')
BY DEF HostAll, HostReports, HostTypeOK, hostVars, Once

(* The server thread comes up, ends or fails while the host goes its way.   *)
LEMMA ThreadReports ==
  ASSUME HostAll, ServerThread, UNCHANGED hostVars
  PROVE  HostReports'
<1> USE DEF hostVars
<1>1. /\ IInv /\ ApiTypeOK /\ CallsFollowPhases /\ FailuresOnce /\ OutlivedIsKnown /\ DoneIsTold
      /\ RetainedIsFailed /\ pc' = pc /\ verdict' = verdict /\ thread # "dead" /\ thread # "unstarted"
  BY DEF HostAll, HostInv, HostReports, IInv, ServerThread, ServerStarts, RunEnds, FinishRaised,
         FinishReturned, ThreadDies
<1>2. ApiTypeOK'
  BY <1>1, ThreadIInv DEF IInv
<1>3. api # "new"
  BY <1>1 DEF CallsFollowPhases
<1>4. Stopped => Has(failures, "shutdown_timeout")
  <2>1. Alive
    BY <1>1 DEF Alive
  <2> QED
    BY <1>1, <2>1 DEF OutlivedIsKnown
<1>5. Stopped' <=> Stopped
  BY <1>1 DEF Stopped
<1>6. CASE UNCHANGED <<api, failures>>
  <2>1. /\ thread' = "finished" => thread \in {"raised", "returned"}
        /\ thread' # "unstarted"
        /\ thread' \notin {"finished", "dead"} => thread \notin {"finished", "dead"}
    BY <1>1, <1>6 DEF ServerThread, ServerStarts, RunEnds, FinishRaised, FinishReturned, ThreadDies
  <2>2. CallsFollowPhases'
    BY <1>1, <1>3, <1>6, <2>1 DEF CallsFollowPhases
  <2>3. FailuresOnce'
    BY <1>1, <1>6, <2>1 DEF FailuresOnce, BeforeStop
  <2>4. OutlivedIsKnown'
    BY <1>6, <1>4, <1>5 DEF OutlivedIsKnown, Has
  <2>5. DoneIsTold' /\ RetainedIsFailed'
    BY <1>1, <1>6 DEF DoneIsTold, RetainedIsFailed
  <2> QED
    BY <1>2, <2>2, <2>3, <2>4, <2>5, HostVarsUntouched DEF HostReports
<1>7. CASE ~ UNCHANGED <<api, failures>>
  <2>1. thread \in {"raised", "returned"} /\ thread' = "finished"
    BY <1>7 DEF ServerThread, ServerStarts, RunEnds, FinishRaised, FinishReturned, ThreadDies
  <2>2. \/ \E kind \in {"run_raised", "early_exit", "unexpected_exit"}, s \in {"start_failed", "failed"} :
             Fails(kind, s)
        \/ api = "stopping" /\ api' = "stopped" /\ UNCHANGED failures
    <3>1. CASE FinishRaised
      BY <3>1 DEF FinishRaised
    <3>2. CASE FinishReturned
      BY <1>7, <3>2 DEF FinishReturned, Keeps
    <3> QED
      BY <1>7, <3>1, <3>2 DEF ServerThread, ServerStarts, RunEnds, ThreadDies
  <2>3. /\ Once(failures')
        /\ \A y : Has(failures, y) => Has(failures', y)
        /\ Has(failures', "shutdown_timeout") => Has(failures, "shutdown_timeout")
        /\ failures # <<>> => failures' # <<>>
        /\ BeforeStop => api' \in Failing
        /\ api' # "new"
    <3>1. CASE api = "stopping" /\ api' = "stopped" /\ UNCHANGED failures
      BY <1>1, <3>1 DEF FailuresOnce
    <3>2. ASSUME NEW kind \in {"run_raised", "early_exit", "unexpected_exit"},
                 NEW s \in {"start_failed", "failed"}, Fails(kind, s)
          PROVE  <2>3!:
      <4>1. kind \in FailureKinds /\ ~ Has(failures, kind)
        BY <1>1, <2>1 DEF FailuresOnce, FailureKinds
      <4>2. /\ Once(failures') /\ failures' # <<>> /\ api' = s
            /\ \A y : Has(failures', y) <=> (Has(failures, y) \/ y = kind)
        BY <1>1, <3>2, <4>1, FailsOnce
      <4> QED
        BY <4>2 DEF Failing
    <3> QED
      BY <2>2, <3>1, <3>2
  <2>4. CallsFollowPhases'
    BY <1>1, <1>3, <2>1, <2>3 DEF CallsFollowPhases
  <2>5. FailuresOnce'
    <3>1. BeforeStop' <=> BeforeStop
      BY DEF BeforeStop
    <3> QED
      BY <1>1, <2>1, <2>3, <3>1 DEF FailuresOnce, Failing
  <2>7. OutlivedIsKnown'
    BY <1>4, <1>5, <2>3 DEF OutlivedIsKnown
  <2>8. DoneIsTold'
    <3>1. phase = "done" => Has(retained, "shutdown_timeout")
      BY <1>1, <1>4 DEF DoneIsTold, Stopped, Has
    <3> QED
      BY <3>1 DEF DoneIsTold
  <2>9. RetainedIsFailed'
    BY <1>1, <1>3, <2>3 DEF RetainedIsFailed
  <2> QED
    BY <1>2, <2>4, <2>5, <2>7, <2>8, <2>9, HostVarsUntouched DEF HostReports
<1> QED
  BY <1>6, <1>7


(* What a step of start() of the host does.                                  *)
LEMMA StartReports ==
  ASSUME HostAll, UNCHANGED hostVars,
         Spawn(Host) \/ StartJudges(Host) \/ StartCancels(Host) \/ StartTimesOut(Host)
  PROVE  HostReports'
<1> USE DEF hostVars
<1>1. /\ IInv /\ OneCaller /\ ApiTypeOK /\ CallsFollowPhases /\ FailuresOnce
      /\ RetainedIsFailed /\ Host \in Callers
      /\ phase' = phase /\ retained' = retained /\ reader' = reader /\ health' = health
      /\ api_state' = api_state /\ unwritten' = unwritten
  BY HostAssumption DEF HostAll, HostInv, HostReports, IInv
<1>2. ApiTypeOK'
  BY <1>1, StartIInv DEF IInv
<1>3. phase = "starting" /\ BeforeStop /\ api # "new" /\ retained = <<>>
  BY <1>1
  DEF Spawn, StartJudges, StartCancels, StartTimesOut, CallsFollowPhases, BeforeStop, RetainedIsFailed
<1>4. api \notin {"stopping", "stopped", "stop_timed_out"} /\ (failures # <<>> => api \in Failing)
  BY <1>1, <1>3 DEF FailuresOnce
<1>5. OutlivedIsKnown' /\ DoneIsTold'
  BY <1>1, <1>3 DEF OutlivedIsKnown, DoneIsTold, Stopped
<1>6. SUFFICES /\ CallsFollowPhases' /\ FailuresOnce'
               /\ pc'[Host] = "idle" /\ verdict'[Host] \in {"start_error", "startup_timeout"} =>
                    failures' # <<>>
  <2>1. ASSUME /\ CallsFollowPhases' /\ FailuresOnce'
               /\ pc'[Host] = "idle" /\ verdict'[Host] \in {"start_error", "startup_timeout"} =>
                    failures' # <<>>
        PROVE  HostReports'
    <3>1. RetainedIsFailed'
      BY <1>1, <1>3, <2>1 DEF RetainedIsFailed
    <3> QED
      BY <1>2, <1>5, <2>1, <3>1, HostVarsUntouched DEF HostReports
  <2> QED
    BY <2>1
<1>7. CASE UNCHANGED <<api, failures, thread>> /\ pc[Host] # "awaiting" /\ pc[Host] # "spawning"
  <2>1. \/ pc'[Host] = "joining_start" /\ pc[Host] = "cancelling"
        \/ pc'[Host] = "idle" /\ pc[Host] = "joining_start"
    BY <1>1, <1>7, HostCaller DEF Spawn, StartJudges, StartCancels, StartTimesOut
  <2>2. failures # <<>>
    BY <1>1, <2>1 DEF CallsFollowPhases
  <2>3. CallsFollowPhases'
    BY <1>1, <1>3, <1>7, <2>1, <2>2 DEF CallsFollowPhases
  <2>4. FailuresOnce'
    BY <1>1, <1>7, <2>1 DEF FailuresOnce, BeforeStop, Has, Once
  <2> QED
    BY <1>7, <2>2, <2>3, <2>4
<1>8. CASE Spawn(Host)
  <2>1. api = "starting" /\ thread = "unstarted" /\ failures = <<>>
    BY <1>1, <1>4, <1>8 DEF Spawn, OneCaller, Failing
  <2>2. CASE thread' = "serving" /\ Goes(Host, "awaiting") /\ Keeps
    <3>1. pc'[Host] = "awaiting" /\ api' = api /\ failures' = failures
      BY <1>1, <2>2, HostCaller DEF Keeps
    <3>2. CallsFollowPhases'
      BY <1>1, <1>3, <2>2, <3>1 DEF CallsFollowPhases
    <3>3. FailuresOnce'
      BY <1>1, <2>1, <2>2, <3>1 DEF FailuresOnce, BeforeStop, Has, Once
    <3> QED
      BY <3>1, <3>2, <3>3
  <2>3. CASE Fails("spawn", "start_failed") /\ Returns(Host, "start_error") /\ UNCHANGED thread
    <3>1. pc'[Host] = "idle"
      BY <1>1, <2>3, HostCaller
    <3>2. ~ Has(failures, "spawn") /\ "spawn" \in FailureKinds
      BY <2>1 DEF Has, FailureKinds
    <3>3. /\ Once(failures') /\ failures' # <<>> /\ api' = "start_failed"
          /\ \A y : Has(failures', y) <=> (Has(failures, y) \/ y = "spawn")
      BY <1>1, <2>3, <3>2, FailsOnce
    <3>4. CallsFollowPhases'
      BY <1>1, <1>3, <3>1, <3>3 DEF CallsFollowPhases
    <3>5. FailuresOnce'
      BY <1>1, <1>3, <2>3, <3>1, <3>3 DEF FailuresOnce, BeforeStop, Failing
    <3> QED
      BY <3>3, <3>4, <3>5
  <2> QED
    BY <1>8, <2>2, <2>3 DEF Spawn
<1>9. CASE StartJudges(Host)
  <2>1. thread # "unstarted" /\ pc[Host] = "awaiting" /\ UNCHANGED thread
    BY <1>1, <1>9 DEF StartJudges, CallsFollowPhases
  <2>2. CASE api \in {"start_failed", "failed"} /\ Keeps /\ Returns(Host, "start_error")
    <3>1. pc'[Host] = "idle" /\ api' = api /\ failures' = failures
      BY <1>1, <2>2, HostCaller DEF Keeps
    <3>2. failures # <<>>
      BY <1>1, <2>2 DEF IInv, FailureExplainsState, Explanation
    <3>3. CallsFollowPhases'
      BY <1>1, <1>3, <3>1 DEF CallsFollowPhases
    <3>4. FailuresOnce'
      BY <1>1, <2>1, <3>1 DEF FailuresOnce, BeforeStop, Has, Once
    <3> QED
      BY <3>1, <3>2, <3>3, <3>4
  <2>3. CASE api = "starting" /\ started /\ api' = "running" /\ UNCHANGED failures /\ Returns(Host, "ok")
    <3>1. pc'[Host] = "idle" /\ verdict'[Host] = "ok" /\ failures = <<>>
      BY <1>1, <1>4, <2>3, HostCaller DEF Failing
    <3>2. CallsFollowPhases'
      BY <1>1, <1>3, <2>3, <3>1 DEF CallsFollowPhases
    <3>3. FailuresOnce'
      BY <1>1, <2>1, <2>3, <3>1 DEF FailuresOnce, BeforeStop, Has, Once
    <3> QED
      BY <3>1, <3>2, <3>3
  <2>4. CASE api = "starting" /\ Fails("startup_timeout", "start_timed_out") /\ Goes(Host, "cancelling")
    <3>1. failures = <<>> /\ pc'[Host] = "cancelling"
      BY <1>1, <1>4, <2>4, HostCaller DEF Failing
    <3>2. ~ Has(failures, "startup_timeout") /\ "startup_timeout" \in FailureKinds
      BY <3>1 DEF Has, FailureKinds
    <3>3. /\ Once(failures') /\ failures' # <<>> /\ api' = "start_timed_out"
          /\ \A y : Has(failures', y) <=> (Has(failures, y) \/ y = "startup_timeout")
      BY <1>1, <2>4, <3>2, FailsOnce
    <3>4. CallsFollowPhases'
      BY <1>1, <1>3, <3>1, <3>3 DEF CallsFollowPhases
    <3>5. FailuresOnce'
      BY <1>1, <1>3, <2>1, <3>1, <3>3 DEF FailuresOnce, BeforeStop, Failing
    <3> QED
      BY <3>1, <3>4, <3>5
  <2>5. api = "starting" => Alive
    BY <1>1, <2>1 DEF IInv, StartingIsOpen, Alive
  <2> QED
    BY <1>4, <1>9, <2>2, <2>3, <2>4, <2>5 DEF StartJudges
<1> QED
  BY <1>7, <1>8, <1>9 DEF StartCancels, StartTimesOut

(* And what stop() does when it has joined the thread, or no longer waits.   *)
LEMMA StopReports ==
  ASSUME HostAll, UNCHANGED hostVars, StopWaited(Host) \/ StopJoined(Host)
  PROVE  HostReports'
<1> USE DEF hostVars
<1>1. /\ IInv /\ ApiTypeOK /\ CallsFollowPhases /\ FailuresOnce /\ Host \in Callers
      /\ phase' = phase /\ retained' = retained
  BY HostAssumption DEF HostAll, HostInv, HostReports, IInv
<1>2. ApiTypeOK'
  BY <1>1, StopIInv DEF IInv
<1>3. StopJoined(Host) /\ pc[Host] = "joining" /\ phase = "stopping" /\ ~ BeforeStop'
  BY <1>1 DEF StopWaited, StopJoined, CallsFollowPhases, BeforeStop
<1>4. /\ pc'[Host] = "idle" /\ api' # "new" /\ UNCHANGED thread /\ Once(failures')
      /\ Alive => Has(failures', "shutdown_timeout")
      /\ \A y : Has(failures', y) => Has(failures, y) \/ y = "shutdown_timeout"
  <2>1. CASE Alive
    <3>1. Fails("shutdown_timeout", "stop_timed_out") /\ Returns(Host, "shutdown_timeout")
      BY <1>3, <2>1 DEF StopJoined
    <3>2. ~ Has(failures, "shutdown_timeout") /\ "shutdown_timeout" \in FailureKinds
      BY <1>1, <1>3 DEF FailuresOnce, FailureKinds
    <3>3. /\ Once(failures') /\ api' = "stop_timed_out"
          /\ \A y : Has(failures', y) <=> (Has(failures, y) \/ y = "shutdown_timeout")
      BY <1>1, <3>1, <3>2, FailsOnce
    <3> QED
      BY <1>1, <1>3, <3>1, <3>3, HostCaller DEF StopJoined
  <2>2. CASE ~ Alive
    <3>1. api' = "stopped" /\ failures' = failures /\ Returns(Host, "ok") /\ UNCHANGED thread
      BY <1>3, <2>2 DEF StopJoined
    <3> QED
      BY <1>1, <2>2, <3>1, HostCaller DEF FailuresOnce
  <2> QED
    BY <2>1, <2>2
<1>5. CallsFollowPhases'
  BY <1>1, <1>3, <1>4 DEF CallsFollowPhases
<1>6. FailuresOnce'
  BY <1>1, <1>3, <1>4 DEF FailuresOnce
<1>7. OutlivedIsKnown'
  BY <1>4 DEF OutlivedIsKnown, Alive
<1>8. DoneIsTold' /\ RetainedIsFailed'
  BY <1>1, <1>3 DEF DoneIsTold, RetainedIsFailed
<1> QED
  BY <1>2, <1>5, <1>6, <1>7, <1>8, HostVarsUntouched DEF HostReports

-----------------------------------------------------------------------------
(* What the host can have retained. *)
Kinds == FailureKinds \cup {"build", "start_error"}

(* What is in the range of a sequence. *)
LEMMA RangeHas ==
  ASSUME NEW K, NEW s \in Seq(K), NEW x
  PROVE  x \in Range(s) <=> Has(s, x)
<1>1. DOMAIN s = 1..Len(s)
  OBVIOUS
<1> QED
  BY <1>1 DEF Range, Has

(* Two sequences one after the other. *)
LEMMA JoinedHas ==
  ASSUME NEW K, NEW s \in Seq(K), NEW t \in Seq(K)
  PROVE  /\ s \o t \in Seq(K)
         /\ \A x : Has(s \o t, x) <=> (Has(s, x) \/ Has(t, x))
         /\ Once(s) /\ Once(t) /\ (\A x : ~ (Has(s, x) /\ Has(t, x))) => Once(s \o t)
<1>1. PICK u : u = s \o t
  OBVIOUS
<1>2. /\ u \in Seq(K) /\ Len(s) \in Nat /\ Len(t) \in Nat /\ Len(u) = Len(s) + Len(t)
      /\ \A i \in 1..Len(u) : u[i] = IF i <= Len(s) THEN s[i] ELSE t[i - Len(s)]
  BY <1>1
<1>3. /\ \A i \in 1..Len(u) : i > Len(s) => i - Len(s) \in 1..Len(t) /\ u[i] = t[i - Len(s)]
      /\ \A i \in 1..Len(u) : i <= Len(s) => i \in 1..Len(s) /\ u[i] = s[i]
  <2>1. \A i \in 1..Len(u) : i > Len(s) => i - Len(s) \in 1..Len(t) /\ ~ (i <= Len(s))
    BY <1>2
  <2>2. \A i \in 1..Len(u) : i <= Len(s) => i \in 1..Len(s)
    BY <1>2
  <2> QED
    BY <1>2, <2>1, <2>2
<1>4. \A i \in 1..Len(u) : i <= Len(s) \/ i > Len(s)
  BY <1>2
<1>5. ASSUME NEW x
      PROVE  Has(u, x) <=> (Has(s, x) \/ Has(t, x))
  <2>1. Has(u, x) => Has(s, x) \/ Has(t, x)
    BY <1>3, <1>4 DEF Has
  <2>2. Has(s, x) => Has(u, x)
    <3>1. \A i \in 1..Len(s) : i \in 1..Len(u) /\ i <= Len(s)
      BY <1>2
    <3> QED
      BY <1>3, <3>1 DEF Has
  <2>3. Has(t, x) => Has(u, x)
    <3>1. \A i \in 1..Len(t) : i + Len(s) \in 1..Len(u) /\ i + Len(s) > Len(s)
                               /\ (i + Len(s)) - Len(s) = i
      BY <1>2
    <3> QED
      BY <1>3, <3>1 DEF Has
  <2> QED
    BY <2>1, <2>2, <2>3
<1>6. ASSUME Once(s), Once(t), \A x : ~ (Has(s, x) /\ Has(t, x)),
             NEW i \in 1..Len(u), NEW j \in 1..Len(u), u[i] = u[j]
      PROVE  i = j
  <2>1. CASE i <= Len(s) /\ j <= Len(s)
    BY <1>3, <1>6, <2>1 DEF Once
  <2>2. CASE i > Len(s) /\ j > Len(s)
    <3>1. PICK a \in 1..Len(t) : a = i - Len(s) /\ u[i] = t[a]
      BY <1>3, <2>2
    <3>2. PICK b \in 1..Len(t) : b = j - Len(s) /\ u[j] = t[b]
      BY <1>3, <2>2
    <3>3. a = b
      BY <1>6, <3>1, <3>2 DEF Once
    <3> QED
      BY <1>2, <3>1, <3>2, <3>3
  <2>3. CASE i <= Len(s) /\ j > Len(s)
    BY <1>3, <1>6, <2>3 DEF Has
  <2>4. CASE i > Len(s) /\ j <= Len(s)
    BY <1>3, <1>6, <2>4 DEF Has
  <2> QED
    BY <1>4, <2>1, <2>2, <2>3, <2>4
<1>7. Once(s) /\ Once(t) /\ (\A x : ~ (Has(s, x) /\ Has(t, x))) => Once(u)
  BY <1>6 DEF Once
<1> QED
  BY <1>1, <1>2, <1>5, <1>7

(* What is new among the failures of the server. *)
LEMMA UnobservedFacts ==
  ASSUME NEW K, NEW s \in Seq(K), NEW f \in Seq(K), Once(s), Once(f)
  PROVE  /\ Dropping(f, Range(s)) \in Seq(K)
         /\ s \o Dropping(f, Range(s)) \in Seq(K)
         /\ Once(s \o Dropping(f, Range(s)))
         /\ \A x : Has(s \o Dropping(f, Range(s)), x) <=> (Has(s, x) \/ Has(f, x))
         /\ f = <<>> => Dropping(f, Range(s)) = <<>>
<1>1. PICK t : t = Dropping(f, Range(s))
  OBVIOUS
<1>2. /\ Selects(K, f, t)
      /\ \A i \in 1..Len(t) : t[i] \notin Range(s)
      /\ \A k \in 1..Len(f) : f[k] \notin Range(s) => \E i \in 1..Len(t) : t[i] = f[k]
  BY <1>1, DroppingFacts
<1>3. t \in Seq(K) /\ Len(t) \in Nat
  <2>1. t \in Seq(K)
    BY <1>2 DEF Selects
  <2> QED
    BY <2>1
<1>4. Once(t)
  <2>1. \A i \in 1..Len(t), j \in 1..Len(t) : i < j => t[i] # t[j]
    <3>1. \A k \in 1..Len(f), l \in 1..Len(f) : k < l => f[k] # f[l]
      BY DEF Once
    <3> QED
      BY <1>2, <3>1 DEF Selects
  <2>2. \A i \in 1..Len(t), j \in 1..Len(t) : i < j \/ j < i \/ i = j
    BY <1>3
  <2> QED
    BY <2>1, <2>2 DEF Once
<1>5. \A x : ~ (Has(s, x) /\ Has(t, x))
  BY <1>2, RangeHas DEF Has
<1>6. \A x : Has(t, x) => Has(f, x)
  BY <1>2 DEF Has, Selects
<1>7. \A x : Has(f, x) => Has(s, x) \/ Has(t, x)
  BY <1>2, RangeHas DEF Has
<1>8. /\ s \o t \in Seq(K) /\ Once(s \o t)
      /\ \A x : Has(s \o t, x) <=> (Has(s, x) \/ Has(t, x))
  BY <1>3, <1>4, <1>5, JoinedHas
<1>9. f = <<>> => t = <<>>
  <2>1. SUFFICES ASSUME f = <<>>, t # <<>>
                 PROVE  FALSE
    OBVIOUS
  <2>2. 1 \in 1..Len(t)
    BY <1>3, <2>1
  <2>3. Len(f) = 0
    BY <2>1
  <2> QED
    BY <1>2, <2>2, <2>3 DEF Selects
<1> QED
  BY <1>1, <1>3, <1>6, <1>7, <1>8, <1>9

-----------------------------------------------------------------------------
(* A report is one of those the file can hold; of a failure it is degraded.  *)
LEMMA ReportFacts ==
  /\ \A s, f : ApiReport(s, f) \in Reports
  /\ \A s : ApiReport(s, TRUE).status = "degraded"
  /\ \A s \in Failing : ApiReport(s, FALSE).status = "degraded"
  /\ \A status \in {"ready", "degraded", "faulted", "stopped"} : RuntimeReport(status) \in Reports
<1>1. ASSUME NEW s, NEW f
      PROVE  ApiReport(s, f) \in Reports
  BY DEF ApiReport, Reports
<1>2. \A s : ApiReport(s, TRUE).status = "degraded"
  BY DEF ApiReport
<1>3. \A s \in Failing : ApiReport(s, FALSE).status = "degraded"
  BY DEF ApiReport, Failing
<1>4. \A status \in {"ready", "degraded", "faulted", "stopped"} : RuntimeReport(status) \in Reports
  BY DEF RuntimeReport, Reports
<1> QED
  BY <1>1, <1>2, <1>3, <1>4

(* What the file holds when reports were written to it. *)
LEMMA WritesFacts ==
  ASSUME health \in Reports, unwritten \in BOOLEAN, NEW rs \in Seq(Reports), rs # <<>>, Writes(rs)
  PROVE  health' \in Reports /\ unwritten' \in BOOLEAN /\ (health' = Last(rs) \/ unwritten')
<1>1. Last(rs) \in Reports /\ Range(rs) \subseteq Reports
  <2>1. Len(rs) \in 1..Len(rs) /\ DOMAIN rs = 1..Len(rs) /\ \A i \in 1..Len(rs) : rs[i] \in Reports
    BY EmptySeq
  <2> QED
    BY <2>1 DEF Last, Range
<1> QED
  BY <1>1 DEF Writes

(* The same element n times. *)
LEMMA RepeatedIsSeq ==
  ASSUME NEW K, NEW x \in K, NEW n \in Nat, NEW s, s = [i \in 1..n |-> x]
  PROVE  s \in Seq(K) /\ Len(s) = n /\ \A i \in 1..n : s[i] = x
<1>1. s \in [1..n -> K] /\ DOMAIN s = 1..n
  OBVIOUS
<1>2. s \in Seq(K)
  BY <1>1
<1>3. Len(s) = n
  BY <1>1, <1>2
<1> QED
  BY <1>2, <1>3

(* observe_api: what is retained, and what the file and the state last       *)
(* reported say when there was something to report and when there was not.   *)
LEMMA ObservesFacts ==
  ASSUME HostTypeOK, Once(failures), Once(retained), Observes
  PROVE  /\ retained' \in Seq(Kinds) /\ Once(retained')
         /\ \A x : Has(retained', x) <=> (Has(retained, x) \/ Has(failures, x))
         /\ health' \in Reports /\ unwritten' \in BOOLEAN /\ api_state' \in ApiStates
         /\ failures = <<>> => retained' = retained
         /\ retained' # retained =>
              api_state' = api /\ (health'.status = "degraded" \/ unwritten')
         /\ failures # <<>> /\ api \in Failing /\ retained' = retained =>
              UNCHANGED <<health, api_state, unwritten>>
<1>1. PICK news : news = Unobserved
  OBVIOUS
<1>2. PICK first : first = IF api # api_state /\ (api \notin FailureStates \/ failures = <<>>)
                           THEN <<ApiReport(api, api \in FailureStates)>> ELSE <<>>
  OBVIOUS
<1>3. PICK rest : rest = [i \in DOMAIN news |-> ApiReport(api, TRUE)]
  OBVIOUS
<1>4. /\ retained' = retained \o news
      /\ IF first \o rest = <<>> THEN UNCHANGED <<health, api_state, unwritten>>
                                 ELSE Writes(first \o rest) /\ api_state' = api
  BY <1>1, <1>2, <1>3 DEF Observes
<1>5. /\ retained \in Seq(Kinds) /\ failures \in Seq(Kinds) /\ health \in Reports
      /\ unwritten \in BOOLEAN /\ api \in ApiStates /\ api_state \in ApiStates
  BY DEF HostTypeOK, ApiTypeOK, Kinds
<1>6. /\ news \in Seq(Kinds) /\ retained' \in Seq(Kinds) /\ Once(retained')
      /\ \A x : Has(retained', x) <=> (Has(retained, x) \/ Has(failures, x))
      /\ failures = <<>> => news = <<>>
  BY <1>1, <1>4, <1>5, UnobservedFacts DEF Unobserved
<1>7. news = <<>> => retained' = retained
  BY <1>4, <1>5
<1>8. /\ first \in Seq(Reports) /\ rest \in Seq(Reports)
      /\ Len(rest) = Len(news) /\ Len(news) \in Nat
      /\ \A i \in 1..Len(rest) : rest[i] = ApiReport(api, TRUE)
  <2>1. first \in Seq(Reports)
    BY <1>2, ReportFacts
  <2>2. ApiReport(api, TRUE) \in Reports
    BY ReportFacts
  <2>3. DOMAIN news = 1..Len(news) /\ Len(news) \in Nat
    BY <1>6
  <2>4. rest = [i \in 1..Len(news) |-> ApiReport(api, TRUE)]
    BY <1>3, <2>3
  <2>5. rest \in Seq(Reports) /\ Len(rest) = Len(news)
    <3>1. \A x \in Reports, n \in Nat : \A s : s = [i \in 1..n |-> x] => s \in Seq(Reports) /\ Len(s) = n
      BY RepeatedIsSeq
    <3>2. PICK r \in Reports : r = ApiReport(api, TRUE)
      BY <2>2
    <3>3. PICK n \in Nat : n = Len(news)
      BY <2>3
    <3>4. rest = [i \in 1..n |-> r]
      BY <2>4, <3>2, <3>3
    <3> QED
      BY <3>1, <3>3, <3>4
  <2>6. \A i \in 1..Len(rest) : rest[i] = ApiReport(api, TRUE)
    BY <2>4, <2>5
  <2> QED
    BY <2>1, <2>3, <2>5, <2>6
<1>9. PICK rs : rs = first \o rest
  OBVIOUS
<1>10. /\ rs \in Seq(Reports)
       /\ news # <<>> => rs # <<>> /\ Last(rs) = ApiReport(api, TRUE)
  <2>1. rs \in Seq(Reports) /\ Len(rs) = Len(first) + Len(rest) /\ Len(first) \in Nat
    <3>1. first \in Seq(Reports) /\ rest \in Seq(Reports)
      BY <1>8
    <3> QED
      BY <1>9, <3>1, ConcatProperties, LenProperties
  <2>2. SUFFICES ASSUME news # <<>>
                 PROVE  rs # <<>> /\ Last(rs) = ApiReport(api, TRUE)
    BY <2>1
  <2>3. Len(rest) \in 1..Len(rest) /\ Len(rest) > 0
    BY <1>6, <1>8, <2>2, EmptySeq
  <2>4. rs[Len(rs)] = rest[Len(rest)]
    BY <1>8, <1>9, <2>1, <2>3
  <2>5. Len(rs) # 0
    BY <1>8, <2>1, <2>3
  <2>6. rs # <<>>
    BY <2>1, <2>5, EmptySeq
  <2>7. rest[Len(rest)] = ApiReport(api, TRUE)
    BY <1>8, <2>3
  <2> QED
    BY <2>4, <2>6, <2>7 DEF Last
<1>11. IF rs = <<>> THEN UNCHANGED <<health, api_state, unwritten>>
                    ELSE Writes(rs) /\ api_state' = api
  BY <1>4, <1>9
<1>12. health' \in Reports /\ unwritten' \in BOOLEAN /\ api_state' \in ApiStates
  BY <1>5, <1>10, <1>11, WritesFacts
<1>13. retained' # retained => api_state' = api /\ (health'.status = "degraded" \/ unwritten')
  BY <1>5, <1>7, <1>10, <1>11, WritesFacts, ReportFacts
<1>14. failures # <<>> /\ api \in Failing /\ retained' = retained =>
         UNCHANGED <<health, api_state, unwritten>>
  <2>1. SUFFICES ASSUME failures # <<>>, api \in Failing, retained' = retained
                 PROVE  rs = <<>>
    BY <1>11
  <2>2. first = <<>>
    BY <1>2, <2>1 DEF Failing, FailureStates
  <2>3. Len(news) = 0
    <3>1. Len(retained') = Len(retained) + Len(news) /\ Len(retained) \in Nat
      BY <1>4, <1>5, <1>6, ConcatProperties, LenProperties
    <3> QED
      BY <1>8, <2>1, <3>1
  <2>4. rest = <<>>
    BY <1>8, <2>3
  <2> QED
    BY <1>9, <2>2, <2>4
<1> QED
  BY <1>6, <1>7, <1>12, <1>13, <1>14

(* retain_api_failure of a failure the host has not retained. *)
LEMMA RetainsFacts ==
  ASSUME HostTypeOK, Once(retained), NEW kind \in Kinds, NEW s \in ApiStates, Retains(kind, s)
  PROVE  /\ retained' \in Seq(Kinds) /\ Once(retained')
         /\ Has(retained', kind) /\ \A x : Has(retained, x) => Has(retained', x)
         /\ health' \in Reports /\ unwritten' \in BOOLEAN /\ api_state' \in ApiStates
         /\ retained' # retained => api_state' = s /\ (health'.status = "degraded" \/ unwritten')
<1>1. /\ retained \in Seq(Kinds) /\ health \in Reports /\ unwritten \in BOOLEAN /\ api_state \in ApiStates
  BY DEF HostTypeOK, Kinds
<1>2. kind \in Range(retained) <=> Has(retained, kind)
  BY <1>1, RangeHas
<1>3. CASE Has(retained, kind)
  <2>1. UNCHANGED <<retained, health, api_state, unwritten>>
    BY <1>2, <1>3 DEF Retains
  <2> QED
    BY <1>1, <1>3, <2>1
<1>4. CASE ~ Has(retained, kind)
  <2>1. retained' = Append(retained, kind) /\ Writes(<<ApiReport(s, TRUE)>>) /\ api_state' = s
    BY <1>2, <1>4 DEF Retains
  <2>2. /\ retained' \in Seq(Kinds) /\ Once(retained')
        /\ \A y : Has(retained', y) <=> (Has(retained, y) \/ y = kind)
    BY <1>1, <1>4, <2>1, AppendOnce
  <2>3. PICK rs : rs = <<ApiReport(s, TRUE)>>
    OBVIOUS
  <2>4. rs \in Seq(Reports) /\ rs # <<>> /\ Last(rs) = ApiReport(s, TRUE)
    <3>1. PICK r : r = ApiReport(s, TRUE)
      OBVIOUS
    <3>2. r \in Reports /\ rs = <<r>>
      BY <2>3, <3>1, ReportFacts
    <3>3. rs \in Seq(Reports) /\ Len(rs) = 1 /\ rs[1] = r
      BY <3>2
    <3> QED
      BY <3>1, <3>3 DEF Last
  <2>5. health' \in Reports /\ unwritten' \in BOOLEAN /\ (health' = Last(rs) \/ unwritten')
    BY <1>1, <2>1, <2>3, <2>4, WritesFacts
  <2> QED
    BY <2>1, <2>2, <2>4, <2>5, ReportFacts
<1> QED
  BY <1>3, <1>4

-----------------------------------------------------------------------------
(* The phases follow each other, the server standing still: the order in     *)
(* which run_hardware_service goes on between its calls.                     *)
Follows ==
  \/ phase \in {"building", "observing"} /\ phase' = "loop"
  \/ phase = "starting" /\ pc[Host] = "idle" /\ phase' = "loop"
  \/ phase = "loop" /\ phase' \in {"announcing", "observing", "raised", "exiting"}
  \/ phase = "announcing" /\ phase' = "observing"
  \/ phase = "raised" /\ phase' = "exiting"
  \/ phase = "exiting" /\ ~ Hosted /\ phase' = "done"
  \/ phase = "stopping" /\ pc[Host] = "idle" /\ phase' = "closing"
  \/ phase = "closing" /\ phase' = "done"

(* A phase that follows another keeps what concerns the server. *)
LEMMA FollowsKeeps ==
  ASSUME HostAll, UNCHANGED apiVars, Follows
  PROVE  ApiTypeOK' /\ CallsFollowPhases' /\ FailuresOnce' /\ OutlivedIsKnown'
<1> USE DEF apiVars
<1>1. ApiTypeOK /\ CallsFollowPhases /\ FailuresOnce /\ OutlivedIsKnown
  BY DEF HostAll, HostReports, HostTypeOK
<1>2. ApiTypeOK'
  BY <1>1 DEF ApiTypeOK
<1>3. CallsFollowPhases'
  BY <1>1 DEF CallsFollowPhases, Follows, Hosted
<1>4. FailuresOnce'
  <2>1. BeforeStop' => BeforeStop
    BY DEF BeforeStop, Follows
  <2>2. Once(failures') /\ \A x : Has(failures', x) <=> Has(failures, x)
    BY <1>1 DEF FailuresOnce, Has, Once
  <2>3. pc[Host] = "joining" => pc[Host] = "joining" /\ phase = "stopping"
    BY <1>1 DEF CallsFollowPhases
  <2> QED
    BY <1>1, <2>1, <2>2, <2>3 DEF FailuresOnce
<1>5. OutlivedIsKnown'
  <2>1. \A x : Has(failures', x) <=> Has(failures, x)
    BY DEF Has
  <2>2. CASE Stopped
    BY <1>1, <2>1, <2>2 DEF OutlivedIsKnown, Alive
  <2>3. CASE ~ Stopped /\ Stopped'
    <3>1. phase = "exiting" /\ api = "new"
      BY <2>3 DEF Stopped, Follows, Hosted
    <3>2. thread = "unstarted"
      BY <1>1, <3>1 DEF CallsFollowPhases
    <3> QED
      BY <3>2 DEF OutlivedIsKnown, Alive
  <2>4. CASE ~ Stopped'
    BY <2>4 DEF OutlivedIsKnown
  <2> QED
    BY <2>2, <2>3, <2>4
<1> QED
  BY <1>2, <1>3, <1>4, <1>5

(* The types of the host, put together. *)
LEMMA FollowsType ==
  ASSUME ApiTypeOK', phase' \in Phases, reader' \in BOOLEAN, health' \in Reports, api_state' \in ApiStates,
         retained' \in Seq(Kinds), unwritten' \in BOOLEAN
  PROVE  HostTypeOK'
BY DEF HostTypeOK, Kinds

(* The host before its server is started, and when start() has returned.     *)
LEMMA BuildReports ==
  ASSUME HostAll, BuildFails \/ StartReturned
  PROVE  HostReports'
<1>1. /\ HostTypeOK /\ ApiTypeOK /\ CallsFollowPhases /\ FailuresOnce /\ RetainedIsFailed
      /\ Once(failures) /\ Once(retained)
  BY DEF HostAll, HostReports, HostTypeOK, FailuresOnce
<1>2. /\ UNCHANGED <<apiVars, reader>> /\ phase \in {"building", "starting"} /\ phase' = "loop" /\ Follows
  BY DEF BuildFails, StartReturned, Follows
<1>3. ApiTypeOK' /\ CallsFollowPhases' /\ FailuresOnce' /\ OutlivedIsKnown' /\ DoneIsTold'
  BY <1>2, FollowsKeeps DEF DoneIsTold
<1>4. retained = <<>> /\ BeforeStop
  BY <1>1, <1>2 DEF RetainedIsFailed, BeforeStop
<1>5. failures # <<>> => api \in Failing
  BY <1>1, <1>4 DEF FailuresOnce
<1>6. /\ retained' \in Seq(Kinds) /\ Once(retained')
      /\ health' \in Reports /\ unwritten' \in BOOLEAN /\ api_state' \in ApiStates
      /\ retained' # retained => /\ api = "new" \/ failures # <<>>
                                 /\ api_state' \in Failing
                                 /\ health'.status = "degraded" \/ unwritten'
  <2>1. CASE BuildFails
    <3>1. Retains("build", "start_failed") /\ api = "new"
      BY <1>1, <2>1 DEF BuildFails, CallsFollowPhases
    <3>2. "build" \in Kinds /\ "start_failed" \in ApiStates /\ "start_failed" \in Failing
      BY DEF Kinds, ApiStates, Failing
    <3> QED
      BY <1>1, <3>1, <3>2, RetainsFacts
  <2>2. CASE StartReturned /\ Observes
    BY <1>1, <1>5, <2>2, ObservesFacts
  <2>3. CASE StartReturned /\ ~ Observes
    <3>1. PICK kind \in {"startup_timeout", "start_error"} : verdict[Host] = kind /\ Retains(kind, api)
      BY <2>3 DEF StartReturned
    <3>2. kind \in Kinds /\ api \in ApiStates
      BY <1>1 DEF Kinds, FailureKinds, ApiTypeOK
    <3>3. failures # <<>>
      BY <1>1, <2>3, <3>1 DEF StartReturned, RetainedIsFailed
    <3> QED
      BY <1>1, <1>5, <3>1, <3>2, <3>3, RetainsFacts
  <2> QED
    BY <2>1, <2>2, <2>3
<1>7. HostTypeOK'
  BY <1>1, <1>2, <1>3, <1>6, FollowsType DEF HostTypeOK, Phases
<1>8. RetainedIsFailed'
  <2>1. api' = api /\ failures' = failures
    BY <1>2 DEF apiVars
  <2> QED
    BY <1>2, <1>4, <1>6, <2>1 DEF RetainedIsFailed
<1> QED
  BY <1>3, <1>6, <1>7, <1>8 DEF HostReports

(* The loop: the reader comes and goes, and the server is observed.          *)
LEMMA LoopReports ==
  ASSUME HostAll,
         Connects \/ Announces \/ Loses \/ Passes \/ Observing \/ LoopEnds \/ FaultReported
  PROVE  HostReports'
<1>1. /\ HostTypeOK /\ ApiTypeOK /\ CallsFollowPhases /\ FailuresOnce /\ RetainedIsFailed
      /\ Once(failures) /\ Once(retained)
  BY DEF HostAll, HostReports, HostTypeOK, FailuresOnce
<1>2. /\ UNCHANGED apiVars /\ phase \in {"loop", "announcing", "observing", "raised"} /\ Follows
      /\ phase' \in {"loop", "announcing", "observing", "raised", "exiting"}
  BY DEF Connects, Announces, Loses, Passes, Observing, LoopEnds, FaultReported, Follows
<1>3. ApiTypeOK' /\ CallsFollowPhases' /\ FailuresOnce' /\ OutlivedIsKnown' /\ DoneIsTold'
  BY <1>2, FollowsKeeps DEF DoneIsTold
<1>4. failures # <<>> => api \in Failing
  BY <1>1, <1>2 DEF FailuresOnce, BeforeStop
<1>5. /\ retained' \in Seq(Kinds) /\ Once(retained')
      /\ health' \in Reports /\ unwritten' \in BOOLEAN /\ api_state' \in ApiStates /\ reader' \in BOOLEAN
      /\ phase' \notin {"raised", "exiting"} /\ retained' # <<>> =>
           /\ api = "new" \/ failures # <<>>
           /\ api_state' \in Failing
           /\ phase' # "announcing" => health'.status = "degraded" \/ unwritten'
  <2>1. CASE Announces
    <3>1. PICK r : r = ApiReport(api_state, FALSE)
      OBVIOUS
    <3>2. PICK rs : rs = <<r>>
      OBVIOUS
    <3>3. r \in Reports /\ (api_state \in Failing => r.status = "degraded")
      BY <1>1, <3>1, ReportFacts
    <3>4. rs \in Seq(Reports) /\ rs # <<>> /\ Last(rs) = r
      BY <3>2, <3>3 DEF Last
    <3>5. Writes(rs) /\ UNCHANGED <<reader, api_state, retained>> /\ phase = "announcing"
      BY <2>1, <3>1, <3>2 DEF Announces
    <3>6. health' \in Reports /\ unwritten' \in BOOLEAN /\ (health' = r \/ unwritten')
      BY <1>1, <3>4, <3>5, WritesFacts DEF HostTypeOK
    <3> QED
      BY <1>1, <3>3, <3>5, <3>6 DEF HostTypeOK, RetainedIsFailed, Kinds
  <2>2. CASE Loses
    <3>1. /\ UNCHANGED <<api_state, retained, unwritten>> /\ reader' = FALSE /\ phase = "loop"
          /\ health' = RuntimeReport("degraded")
      BY <2>2 DEF Loses
    <3>2. health' \in Reports /\ health'.status = "degraded"
      BY <3>1, ReportFacts DEF RuntimeReport
    <3> QED
      BY <1>1, <3>1, <3>2 DEF HostTypeOK, RetainedIsFailed, Kinds
  <2>3. CASE (Passes \/ Observing) /\ UNCHANGED <<reader, health, api_state, retained, unwritten>>
    <3>1. phase \in {"loop", "observing"}
      BY <2>3 DEF Passes, Observing
    <3> QED
      BY <1>1, <2>3, <3>1 DEF HostTypeOK, RetainedIsFailed, Kinds
  <2>4. CASE Observing /\ Observes /\ Hosted
    <3>1. /\ retained' \in Seq(Kinds) /\ Once(retained')
          /\ health' \in Reports /\ unwritten' \in BOOLEAN /\ api_state' \in ApiStates
          /\ failures = <<>> => retained' = retained
          /\ retained' # retained => api_state' = api /\ (health'.status = "degraded" \/ unwritten')
          /\ failures # <<>> /\ api \in Failing /\ retained' = retained =>
               UNCHANGED <<health, api_state, unwritten>>
      BY <1>1, <2>4, ObservesFacts
    <3>2. reader' \in BOOLEAN /\ api # "new" /\ phase = "observing"
      BY <1>1, <2>4 DEF Observing, HostTypeOK, Hosted
    <3>3. retained # <<>> => /\ failures # <<>> /\ api_state \in Failing
                             /\ health.status = "degraded" \/ unwritten
      BY <1>1, <1>2, <3>2 DEF RetainedIsFailed
    <3>4. CASE retained' = retained
      BY <1>4, <3>1, <3>2, <3>3, <3>4
    <3>5. CASE retained' # retained
      BY <1>4, <3>1, <3>2, <3>5
    <3> QED
      BY <3>4, <3>5
  <2>5. CASE FaultReported
    <3>1. PICK r : r = RuntimeReport("faulted")
      OBVIOUS
    <3>2. PICK rs : rs = <<r>>
      OBVIOUS
    <3>3. rs \in Seq(Reports) /\ rs # <<>>
      BY <3>1, <3>2, ReportFacts
    <3>4. Writes(rs) /\ UNCHANGED <<reader, api_state, retained>> /\ phase' = "exiting"
      BY <2>5, <3>1, <3>2 DEF FaultReported
    <3> QED
      BY <1>1, <3>3, <3>4, WritesFacts DEF HostTypeOK, Kinds
  <2>6. CASE Connects \/ LoopEnds
    <3>1. /\ UNCHANGED <<api_state, retained>> /\ phase = "loop" /\ reader' \in {reader, TRUE, FALSE}
          /\ health' \in {health, RuntimeReport("ready"), RuntimeReport("degraded")}
          /\ unwritten' \in {unwritten, TRUE} /\ phase' \in {"announcing", "raised", "exiting"}
      BY <2>6 DEF Connects, LoopEnds
    <3>2. RuntimeReport("ready") \in Reports /\ RuntimeReport("degraded") \in Reports
      BY ReportFacts
    <3> QED
      BY <1>1, <3>1, <3>2 DEF HostTypeOK, RetainedIsFailed, Kinds
  <2> QED
    BY <2>1, <2>2, <2>3, <2>4, <2>5, <2>6 DEF Passes, Observing
<1>6. HostTypeOK'
  BY <1>2, <1>3, <1>5, FollowsType DEF Phases
<1>7. RetainedIsFailed'
  <2>1. api' = api /\ failures' = failures
    BY <1>2 DEF apiVars
  <2> QED
    BY <1>2, <1>5, <2>1 DEF RetainedIsFailed
<1> QED
  BY <1>3, <1>5, <1>6, <1>7 DEF HostReports

(* What is written when it is one report. *)
LEMMA WritesOne ==
  ASSUME HostTypeOK, NEW r \in Reports, Writes(<<r>>)
  PROVE  health' \in Reports /\ unwritten' \in BOOLEAN
<1>1. PICK rs : rs = <<r>>
  OBVIOUS
<1>2. rs \in Seq(Reports) /\ rs # <<>>
  BY <1>1
<1> QED
  BY <1>1, <1>2, WritesFacts DEF HostTypeOK

(* start() begins: the server is new, and nothing has failed yet. *)
LEMMA CallStartReports ==
  ASSUME HostAll, CallStart
  PROVE  HostReports'
<1>1. /\ IInv /\ HostTypeOK /\ ApiTypeOK /\ CallsFollowPhases /\ FailuresOnce /\ RetainedIsFailed
      /\ Once(retained) /\ Host \in Callers
  BY HostAssumption DEF HostAll, HostInv, HostReports, HostTypeOK
<1>2. /\ phase = "building" /\ api = "new" /\ failures = <<>> /\ thread = "unstarted" /\ retained = <<>>
  BY <1>1 DEF CallStart, CallsFollowPhases, RetainedIsFailed
<1>3. /\ phase' = "starting" /\ api' = "starting" /\ Goes(Host, "spawning") /\ api_state' = "starting"
      /\ UNCHANGED <<failures, thread, reader, retained>>
      /\ Writes(<<ApiReport("starting", FALSE)>>)
  BY <1>2 DEF CallStart, StartBegins
<1>4. pc'[Host] = "spawning"
  BY <1>1, <1>3, HostCaller
<1>5. ApiTypeOK'
  BY <1>1, StartIInv DEF CallStart, IInv
<1>6. health' \in Reports /\ unwritten' \in BOOLEAN
  BY <1>1, <1>3, WritesOne, ReportFacts
<1>7. HostTypeOK'
  BY <1>1, <1>3, <1>5, <1>6, FollowsType DEF HostTypeOK, Phases, ApiStates, Kinds
<1>8. CallsFollowPhases'
  BY <1>2, <1>3, <1>4 DEF CallsFollowPhases
<1>9. FailuresOnce'
  BY <1>1, <1>2, <1>3 DEF FailuresOnce, BeforeStop, Has, Once
<1>10. OutlivedIsKnown' /\ DoneIsTold'
  BY <1>3 DEF OutlivedIsKnown, DoneIsTold, Stopped
<1>11. RetainedIsFailed'
  BY <1>2, <1>3, <1>4 DEF RetainedIsFailed
<1> QED
  BY <1>1, <1>2, <1>3, <1>7, <1>8, <1>9, <1>10, <1>11 DEF HostReports

(* The way out: the runtime and the relay are shut down, and stop() begins,  *)
(* where there is a server to stop.                                          *)
LEMMA ExitsReports ==
  ASSUME HostAll, Exits
  PROVE  HostReports'
<1>1. /\ IInv /\ HostTypeOK /\ ApiTypeOK /\ CallsFollowPhases /\ FailuresOnce /\ RetainedIsFailed
      /\ Once(retained) /\ Host \in Callers
  BY HostAssumption DEF HostAll, HostInv, HostReports, HostTypeOK
<1>2. /\ phase = "exiting" /\ BeforeStop /\ UNCHANGED <<api_state, retained>> /\ reader' = FALSE
      /\ phase' \in {"stopping", "done"} /\ ~ BeforeStop'
  BY DEF Exits, BeforeStop
<1>3. health' \in Reports /\ unwritten' \in BOOLEAN
  <2>1. RuntimeReport("stopped") \in Reports /\ Writes(<<RuntimeReport("stopped")>>)
    BY ReportFacts DEF Exits
  <2> QED
    BY <1>1, <2>1, WritesOne
<1>4. ApiTypeOK' => HostTypeOK'
  BY <1>1, <1>2, <1>3, FollowsType DEF HostTypeOK, Phases, Kinds
<1>5. RetainedIsFailed' /\ Once(retained')
  BY <1>1, <1>2 DEF RetainedIsFailed
<1>6. CASE ~ Hosted
  <2>1. phase' = "done" /\ UNCHANGED apiVars /\ Follows /\ api = "new" /\ failures' = failures
    BY <1>2, <1>6 DEF Exits, Follows, apiVars, Hosted
  <2>2. ApiTypeOK' /\ CallsFollowPhases' /\ FailuresOnce' /\ OutlivedIsKnown'
    BY <2>1, FollowsKeeps
  <2>3. DoneIsTold'
    BY <1>1, <2>1 DEF DoneIsTold, CallsFollowPhases
  <2> QED
    BY <1>4, <1>5, <2>2, <2>3 DEF HostReports
<1>7. CASE Hosted
  <2>1. /\ api # "new" /\ phase' = "stopping" /\ (StopAtOnce(Host) \/ StopBegins(Host))
        /\ UNCHANGED <<failures, thread>> /\ pc[Host] = "idle"
    BY <1>7 DEF Exits, Hosted, StopAtOnce, StopBegins
  <2>2. ApiTypeOK'
    BY <1>1, <2>1, StopIInv DEF IInv
  <2>3. /\ (pc'[Host] = "idle" /\ ~ Alive) \/ pc'[Host] = "joining"
        /\ api' # "new"
    <3>1. CASE StopAtOnce(Host)
      BY <1>1, <2>1, <3>1, HostCaller DEF StopAtOnce
    <3>2. CASE StopBegins(Host)
      <4>1. api # "stopping"
        BY <1>1, <1>2 DEF FailuresOnce
      <4>2. api' = "stopping" /\ Goes(Host, "joining")
        BY <3>2, <4>1 DEF StopBegins
      <4> QED
        BY <1>1, <4>2, HostCaller
    <3> QED
      BY <2>1, <3>1, <3>2
  <2>4. CallsFollowPhases'
    BY <2>1, <2>3 DEF CallsFollowPhases
  <2>5. FailuresOnce'
    BY <1>1, <1>2, <2>1 DEF FailuresOnce, Has, Once
  <2>6. OutlivedIsKnown'
    BY <2>1, <2>3 DEF OutlivedIsKnown, Stopped, Alive
  <2>7. DoneIsTold'
    BY <2>1 DEF DoneIsTold
  <2> QED
    BY <1>4, <1>5, <2>2, <2>4, <2>5, <2>6, <2>7 DEF HostReports
<1> QED
  BY <1>6, <1>7

(* stop() has returned, and the last look at the server. *)
LEMMA ClosingReports ==
  ASSUME HostAll, StopReturned \/ Closes
  PROVE  HostReports'
<1>1. /\ HostTypeOK /\ ApiTypeOK /\ CallsFollowPhases /\ FailuresOnce /\ Once(failures) /\ Once(retained)
  BY DEF HostAll, HostReports, HostTypeOK, FailuresOnce
<1>2. /\ UNCHANGED <<apiVars, reader>> /\ Follows /\ phase' \in {"closing", "done"}
  BY DEF StopReturned, Closes, Follows
<1>3. ApiTypeOK' /\ CallsFollowPhases' /\ FailuresOnce' /\ OutlivedIsKnown'
  BY <1>2, FollowsKeeps
<1>4. /\ retained' \in Seq(Kinds) /\ Once(retained')
      /\ health' \in Reports /\ unwritten' \in BOOLEAN /\ api_state' \in ApiStates
      /\ phase' = "done" => \A x : Has(failures, x) => Has(retained', x)
  <2>1. CASE Closes
    <3>1. Observes
      BY <2>1 DEF Closes
    <3> QED
      BY <1>1, <3>1, ObservesFacts
  <2>2. CASE StopReturned /\ UNCHANGED <<health, api_state, retained, unwritten>>
    <3>1. phase' = "closing"
      BY <2>2 DEF StopReturned
    <3> QED
      BY <1>1, <2>2, <3>1 DEF HostTypeOK, Kinds
  <2>3. CASE StopReturned /\ Retains("shutdown_timeout", api)
    <3>1. phase' = "closing"
      BY <2>3 DEF StopReturned
    <3>2. "shutdown_timeout" \in Kinds /\ api \in ApiStates
      BY <1>1 DEF Kinds, FailureKinds, ApiTypeOK
    <3> QED
      BY <1>1, <2>3, <3>1, <3>2, RetainsFacts
  <2> QED
    BY <2>1, <2>2, <2>3 DEF StopReturned
<1>5. HostTypeOK'
  BY <1>1, <1>2, <1>3, <1>4, FollowsType DEF HostTypeOK, Phases
<1>6. DoneIsTold'
  <2>1. failures' = failures
    BY <1>2 DEF apiVars
  <2>2. phase' = "done" => \A i \in 1..Len(failures) : Has(retained', failures[i])
    BY <1>4 DEF Has
  <2> QED
    BY <2>1, <2>2 DEF DoneIsTold
<1>7. RetainedIsFailed'
  BY <1>2 DEF RetainedIsFailed
<1> QED
  BY <1>3, <1>4, <1>5, <1>6, <1>7 DEF HostReports

-----------------------------------------------------------------------------
(* The host's invariant holds at the start ... *)
LEMMA HostAllInitially == HostInit => HostAll
<1> SUFFICES ASSUME HostInit PROVE HostAll
  OBVIOUS
<1>1. HostInv
  BY HostInitially
<1>2. /\ api = "new" /\ failures = <<>> /\ thread = "unstarted" /\ pc[Host] = "idle"
      /\ phase = "building" /\ retained = <<>> /\ reader = FALSE /\ api_state = "new"
      /\ unwritten = FALSE /\ health = [status |-> "degraded", access |-> "unset"]
      /\ verdict[Host] = "none"
  BY HostAssumption DEF HostInit, ApiInit
<1>3. HostTypeOK
  <2>1. ApiTypeOK
    BY <1>1 DEF HostInv, IInv
  <2>2. health \in Reports
    BY <1>2 DEF Reports
  <2>3. phase \in Phases /\ reader \in BOOLEAN /\ unwritten \in BOOLEAN
    BY <1>2 DEF Phases
  <2>4. api_state \in ApiStates
    BY <1>2 DEF ApiStates
  <2>5. retained \in Seq(FailureKinds \cup {"build", "start_error"})
    BY <1>2
  <2> QED
    BY <2>1, <2>2, <2>3, <2>4, <2>5 DEF HostTypeOK
<1>4. CallsFollowPhases
  BY <1>2 DEF CallsFollowPhases
<1>5. FailuresOnce /\ Once(retained)
  <2>1. Len(failures) = 0 /\ Len(retained) = 0
    BY <1>2
  <2> QED
    BY <1>2, <2>1 DEF FailuresOnce, Once, Has
<1>6. OutlivedIsKnown /\ DoneIsTold /\ RetainedIsFailed
  BY <1>2 DEF OutlivedIsKnown, Stopped, DoneIsTold, RetainedIsFailed
<1> QED
  BY <1>1, <1>3, <1>4, <1>5, <1>6 DEF HostAll, HostReports

(* ... and every step of the host or of the server thread keeps it.         *)
LEMMA HostAllStep == HostAll /\ [HostNext]_allVars => HostAll'
<1> SUFFICES ASSUME HostAll, [HostNext]_allVars PROVE HostAll'
  OBVIOUS
<1>1. HostInv'
  BY HostStep DEF HostAll
<1>2. HostReports'
  <2>1. CASE ServerThread /\ UNCHANGED hostVars
    BY <2>1, ThreadReports
  <2>2. CASE Resumes(Host) /\ UNCHANGED hostVars
    BY <2>2, StartReports, StopReports DEF Resumes
  <2>3. CASE BuildFails \/ StartReturned
    BY <2>3, BuildReports
  <2>4. CASE Connects \/ Announces \/ Loses \/ Passes \/ Observing \/ LoopEnds \/ FaultReported
    BY <2>4, LoopReports
  <2>5. CASE CallStart
    BY <2>5, CallStartReports
  <2>6. CASE Exits
    BY <2>6, ExitsReports
  <2>7. CASE StopReturned \/ Closes
    BY <2>7, ClosingReports
  <2>8. CASE UNCHANGED allVars
    BY <2>8
    DEF HostAll, HostReports, allVars, apiVars, hostVars, HostTypeOK, ApiTypeOK, CallsFollowPhases,
        FailuresOnce, BeforeStop, OutlivedIsKnown, Stopped, DoneIsTold, RetainedIsFailed, Has, Once,
        Alive
  <2> QED
    BY <2>1, <2>2, <2>3, <2>4, <2>5, <2>6, <2>7, <2>8 DEF HostNext, ControlThread
<1> QED
  BY <1>1, <1>2 DEF HostAll

(* The invariant of the host holds in every reachable state.                 *)
THEOREM HostInvariant == HostSpec => []HostAll
<1> QED BY HostAllInitially, HostAllStep, PTL DEF HostSpec

(* The host retains each failure once, although start(), stop() and every    *)
(* pass of the loop hand it the same exceptions (hardware_service.py:106).   *)
THEOREM EachFailureOnceCorrect == HostSpec => []EachFailureOnce
<1>1. HostAll => EachFailureOnce
  <2> SUFFICES ASSUME HostAll PROVE EachFailureOnce
    OBVIOUS
  <2>1. Once(retained) /\ DOMAIN retained = 1..Len(retained)
    <3>1. retained \in Seq(FailureKinds \cup {"build", "start_error"}) /\ Once(retained)
      BY DEF HostAll, HostReports, HostTypeOK
    <3> QED
      BY <3>1
  <2> QED
    BY <2>1 DEF Once, EachFailureOnce
<1> QED BY <1>1, HostInvariant, PTL

(* When the host has ended, what the server retained has been raised, unless *)
(* the thread outlived its stop() (hardware_service.py:276).                 *)
THEOREM NothingUnreportedCorrect == HostSpec => []NothingUnreported
<1>1. HostAll => NothingUnreported
  <2> SUFFICES ASSUME HostAll PROVE NothingUnreported
    OBVIOUS
  <2>1. retained \in Seq(Kinds) /\ failures \in Seq(Kinds) /\ DoneIsTold
    BY DEF HostAll, HostReports, HostTypeOK, ApiTypeOK, Kinds
  <2>2. /\ \A x : x \in Range(retained) <=> Has(retained, x)
        /\ \A x : x \in Range(failures) <=> Has(failures, x)
    BY <2>1, RangeHas
  <2>3. (\A i \in 1..Len(failures) : Has(retained, failures[i])) =>
          Range(failures) \subseteq Range(retained)
    BY <2>2 DEF Has
  <2> QED
    BY <2>1, <2>2, <2>3 DEF DoneIsTold, NothingUnreported
<1> QED BY <1>1, HostInvariant, PTL

(* Once a failure of the API is known, the health file says degraded at each *)
(* head of the loop and whenever the server is observed, through every       *)
(* reconnect of the reader, unless a report raised: on_ready has replaced    *)
(* runtime.py:94's ready by then (hardware_service.py:96-137, 235-236).      *)
THEOREM ApiFailureIsDegradedCorrect == HostSpec => []ApiFailureIsDegraded
<1>1. HostAll => ApiFailureIsDegraded
  BY DEF HostAll, HostReports, RetainedIsFailed, ApiFailureIsDegraded
<1> QED BY <1>1, HostInvariant, PTL

=============================================================================
