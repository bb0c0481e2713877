--------------------------- MODULE StatusSnapshot ---------------------------
(***************************************************************************)
(* What the API sees of the control thread: the operational snapshot that  *)
(* BridgewireRuntime publishes and the answers that StatusService and      *)
(* ReadOnlyQueryService (application/status_service.py, query_service.py)  *)
(* make of it.  It composes with HardwareService: the thread's steps are   *)
(* that module's, and those that publish also replace `published'.         *)
(*                                                                         *)
(* A request reads the store once and the clock afterwards.  It changes    *)
(* nothing, so that an answer is an operator of the snapshot and the time, *)
(* and what holds of answers is stated of every state.  published_at and   *)
(* the answer's now are wall clock times: here, of a clock that is not set *)
(* meanwhile.                                                              *)
(***************************************************************************)
EXTENDS HardwareService

CONSTANT StaleAfter   \* operational_snapshot_stale_after_seconds

ASSUME StatusAssumption == StaleAfter \in Nat \ {0}

VARIABLE published    \* _snapshot of OperationalSnapshotStore, or Nothing

statusVars == <<allVars, published>>

Nothing == [state |-> "none"]
NoRemaining == -1

(* Mutant: the configured duration for the remaining one. *)
MutSnapshot(st, deadline, connected, at) ==
  [state |-> st, connected |-> connected, at |-> at,
   remaining |-> IF deadline = NoTime THEN NoRemaining ELSE ReleaseSeconds]

(* controller.snapshot() and reader.snapshot(), published at this moment. *)
Snapshot(st, deadline, connected, at) ==
  [state |-> st, connected |-> connected, at |-> at,
   remaining |-> IF deadline = NoTime THEN NoRemaining
                 ELSE IF deadline > at THEN deadline - at ELSE 0]

StatusInit == HostInit /\ published = Nothing

-----------------------------------------------------------------------------
(* The steps of the thread at whose end the runtime publishes: the end of    *)
(* start(), and three groups more.                                           *)
PublishesStart == pc = "start_health" /\ pc' = "hosting"

(* Mutant: not published by an iteration that was connected at its end. *)
MutPublishesIteration ==
  \/ pc = "ready_health" /\ pc' = "announcing"
  \/ pc = "records" /\ pc' = "loop" /\ ~ session

(* The finally clause of run_once, by whatever it is left; its first tick is *)
(* before the try.                                                           *)
PublishesIteration ==
  \/ pc = "ready_health"
  \/ pc = "reader" /\ pc' = "fault_health"
  \/ pc = "records" /\ pc' # "records"

(* Mutant: the reconnect wait ticks and does not publish. *)
MutPublishesWait == pc \in {"waiting", "sleeping"} /\ pc' = "loop"

(* Every interval of a reconnect wait, and the finally clause after it. *)
PublishesWait == pc = "waiting" \/ (pc = "sleeping" /\ pc' = "loop")

(* Mutant: the shutdown publishes only when nothing in it failed. *)
MutPublishesExit ==
  \/ pc = "fail_secure" /\ ~ call'.raised
  \/ pc = "stopped_health" /\ ~ shutdown_failed'

(* handle_failure() unless the controller raised, and shutdown(), with or    *)
(* without failures.                                                         *)
PublishesExit == (pc = "fail_secure" /\ ~ call'.raised) \/ pc = "stopped_health"

Publishes == PublishesStart \/ PublishesIteration \/ PublishesWait \/ PublishesExit

(* A step of the thread, with its publication. *)
PublishingThread ==
  /\ Thread
  /\ IF Publishes THEN published' = Snapshot(state', release_deadline', session', now')
     ELSE UNCHANGED published

StatusNext ==
  \/ PublishingThread
  \/ (Elapses \/ RequestShutdown) /\ UNCHANGED published

StatusSpec == StatusInit /\ [][StatusNext]_statusVars

(* The thread keeps running: none of its calls blocks for ever. *)
StatusFairSpec == StatusSpec /\ WF_statusVars(PublishingThread)

-----------------------------------------------------------------------------
(* StatusService.snapshot(), of a snapshot p at time t. *)
Answer(p, t) ==
  [controller_state |-> p.state,
   reader_connected |-> p.connected,
   snapshot_age |-> IF t > p.at THEN t - p.at ELSE 0,
   release_active |-> p.state = "released",
   release_remaining |-> p.remaining,
   release_deadline_at |-> IF p.remaining = NoRemaining THEN NoTime ELSE t + p.remaining]

(* ReadOnlyQueryService.health(), with the authorization data loaded.  A      *)
(* reader whose health is ready is connected (HealthTellsTheTruth of         *)
(* ReaderSupervisor), so that what is not Healthy here is not healthy there. *)
Stale(p, t) == Answer(p, t).snapshot_age >= StaleAfter

Healthy(p, t) ==
  /\ p # Nothing
  /\ ~ Stale(p, t)
  /\ p.state \in {"ready", "released"}
  /\ p.connected

-----------------------------------------------------------------------------
(* read-only-api.md "The runtime publishes controller and reader state       *)
(* together": each time a pass of the loop begins, and while the host itself *)
(* acts after start() and after a reconnect, what is published is what is:   *)
(* state, session and the release's deadline.                                *)
PublishedIsCurrent ==
  pc \in {"hosting", "announcing", "loop"} =>
    /\ published # Nothing
    /\ published.state = state
    /\ published.connected = session
    /\ state = "released" =>
         \/ published.at + published.remaining = release_deadline
         \/ published.remaining = 0 /\ published.at >= release_deadline

(* The longest time from one publication to the next. *)
LongestPass ==
  HostingTicks + Longer(DiscoveryTicks, 1 + MaxBatch * WriteTicks) + 4 * WriteTicks

(* read-only-api.md "Health considers a snapshot stale": the snapshot of a   *)
(* loop that lives is no older than its longest pass, however long it waits  *)
(* to reconnect.  So with a threshold above that, stale means that the loop  *)
(* hangs or has ended; configuration.py:201 accepts any positive threshold,  *)
(* and below it a live loop may be called stale while it is in one call.     *)
LiveLoopIsFresh ==
  (pc \in Running /\ published # Nothing) =>
    Answer(published, now).snapshot_age <= LongestPass

(* architecture-refactor-increment-4.md "an estimated UTC                    *)
(* release_deadline_at": the estimate is of the time of the request and late *)
(* by the snapshot's age.  Less the age it is right: until then, as long as  *)
(* the loop lives, the door is really open, for this release and no other.   *)
ActiveReleaseIsReal ==
  (published # Nothing /\ pc \in Running) =>
    LET a == Answer(published, now)
    IN  (a.release_active /\ a.snapshot_age < a.release_remaining) =>
          /\ relay.pin = "high" /\ state = "released"
          /\ release_deadline = a.release_deadline_at - a.snapshot_age

(* read-only-api.md "`200` only when the controller is operational": when    *)
(* the shutdown is over, however many of its steps and of those before it    *)
(* raised, health says so at once and not when the last snapshot is stale.   *)
EndIsPublished ==
  pc \in {"fallback", "done"} =>
    /\ published # Nothing
    /\ ~ Healthy(published, now) /\ published.state = state

=============================================================================
