# Bridgewire: specifications, checks and proofs

Bridgewire is the access controller of one electrically locked door. A passive
USB credential reader delivers framed records; each is looked up in an
authorization file; a grant drives one GPIO relay HIGH for a fixed time; every
decision is appended to an SQLite audit database; bursts of suspicious records
raise warnings and critical notifications. One thread does all of this. A second
thread serves a read-only HTTP API from immutable snapshots.

This directory holds TLA+ models of that program, the TLC runs that check them
and the TLAPS proofs about them. Paths below are relative to
`src/src/bridgewire/` unless they start with `docs/`.

## 1. Inventory

| Component | State it keeps | Operations | Correct when |
|---|---|---|---|
| **AccessController** `controller.py` | `state`, `release_deadline`, `_last_relay_command_high`, the tracker | `start`, `process`, `tick`, `recoverable_failure`, `shutdown`, `snapshot` | the pin is HIGH only during a granted, timed release; every failure is on record; a halted controller stays halted |
| **EscalationTracker** `escalation.py` | deque of event times, level, time of the last event | `record` | the answer is the one the whole history calls for; each level is announced once per cycle |
| **RaspberryPiRelay** `gpio.py` | `_channel`, `_closed`, the pin | `setup`, `command`, `cleanup` | fails only towards LOW; given back once |
| **ReaderSupervisor** `reader.py` | session, health, attempt, flags of the outage | `connect_until_ready`, `read_once`, `read_records_once`, `close` | reconnects for ever with bounded backoff; health tells the truth; escalates once per outage |
| **ReaderRecordStream**, parser `reader.py:20-98` | buffer of unterminated bytes | `feed` | the records are those of the wire, however the reads cut it; what was dropped is never part of one |
| **PosixSerialSession**, enumeration `adapters/reader/posix_serial.py` | file descriptor | `read`, `close`, `enumerate_serial_devices` | reports disconnects, raises only what its callers expect |
| **AccessService** `application/access_service.py` | none | facade over the controller | passes every call through |
| **BridgewireRuntime** `application/runtime.py` | stop event, `_shutdown_complete`, stream | `start`, `run_once`, `run`, `cooperative_wait`, `record_reader_event`, `handle_failure`, `shutdown` | ticks wherever it can wait; ends from everywhere; retries a failed shutdown |
| **run_hardware_service** `hardware_service.py` | retained failures, API state | composition, fail-secure path, relay fallback | the process never ends normally with the relay HIGH |
| **SQLiteAuditSink** `audit.py` | rows | `append`, `close` | append-only; a raise reaches the caller |
| **DurableNotificationQueue** `audit.py:218-270` | one JSON-lines file | `enqueue`, `pending`, `mark_delivered` | at-least-once across crashes |
| **AuthorizationStore**, installer `authorization.py` | records, revision; the file | `reload`, `classify`, `install_authorization_candidate` | all-or-nothing replacement; last good set stays |
| **UvicornThreadServer** `adapters/http/uvicorn_server.py` | state, failures, thread | `start`, `stop`, `snapshot` | every start and stop gets one verdict; never hurts the door |
| **OperationalSnapshotStore, StatusService** `application/status_service.py` | latest snapshot | `publish`, `snapshot` | what is published is what is; an answer is true for as long as it claims |
| **ReadOnlyQueryService, SQLiteAuditReader** `application/query_service.py`, `adapters/persistence` | none: cursors are the client's | `health`, `list_events`, `get_event` | health is 200 only of a service that works; no event skipped or repeated in a page walk |
| **FileHealthReporter** `adapters/health` | health file | `report` | atomic replacement |
| configuration, CLI, simulation, HTTP models, scripts | none of their own | | |

**Interactions.** The host builds everything and calls `runtime.start()` and
`runtime.run()`. The runtime's loop calls, in one thread, `access.tick()`, then
either `reader.connect_until_ready(1)` or `reader.read_records_once()`, then
`access.submit_record()` per record and `access.tick()` again. The supervisor
calls back twice: `emit`, which reports health and appends an audit event, and
`wait`, which ticks the controller every 50 ms. Any exception leaves the loop for
the host, which reports the fault, calls `recoverable_failure()`, shuts the
runtime down and finally calls `relay.cleanup()` itself. Signals set an event.
The loop publishes a snapshot at the end of every iteration and in every interval
of a reconnect wait; the API thread reads the latest one, its clock, and the audit
database.

**What is hard here.** On the door's side not parallelism, of which it has little, but
*partial failure*: the audit append inside an error handler can itself raise, so
each handler has many ways to end half done, and the next call starts there. Next
to it: the order of calls (a tick, a second credential, a failure, a stop, in any
order); time (three interacting windows in the tracker, deadlines that only a
tick looks at, a wait nested in a connect nested in a loop); a device that comes,
goes or is exchanged between two system calls; a byte stream cut anywhere, whose
buffer outlives the session; and a shutdown path whose every step can
fail. Around the door there is parallelism: a server thread against bounded waits
for it, the health file that two of the host's parts write, a notification file
that is appended to and rewritten, an authorization file that is replaced while
others replace and read it, page walks over a table that grows while the wall clock
that stamps it is set back. `PROJECT.json` lists these hazards at their lines, with the properties that
would catch them, or why none does yet.

## 2. Modules

| Module | What it is |
|---|---|
| `EscalationTracker` | the tracker's `record()` as operators on a record, with the policy's constraints as an assumption |
| `Escalation` | the tracker as a component, beside the unpruned history; reference definitions of level, cycle and burst over that history |
| `RelayPort` | the relay adapter: for each call the set of outcomes (returned or raised, and the pin and flags afterwards) |
| `AccessController` | the controller: one action per public method, on top of the two above |
| `ReleaseContract` | what the controller promises of a release, as a three-phase abstract machine |
| `ReaderSupervisor` | the supervisor, the loop around it, the serial ports and the devices at them |
| `RecordStream`, `MCRecordStream` | the wire, the reads that cut it, `feed()` and the loop that submits what it returned; an instance with records of three bytes |
| `HardwareService` | the host's control thread, extending `AccessController`: each call it makes is one of the controller's actions |
| `StatusSnapshot` | what that thread publishes and what the API answers from it, extending `HardwareService` |
| `EventPaging` | a page walk of the API over the audit table, its writer and the wall clock |
| `ApiServer` | the server's thread and any number of threads that call `start()` and `stop()` |
| `ApiHost` | what the host does about the API and the health file, extending `ApiServer` with one caller |
| `NotificationQueue` | the notification file, its writers and workers, failing writes and restarts |
| `AuthorizationInstall` | installers of the authorization file and the store that reloads it |
| `Filtering` | the list comprehension that leaves elements out, for the queue and the host |
| `SequenceLemmas` | lemmas on least numbers and on what `Filtering` returns |
| `EscalationTrackerProofs`, `EscalationProofs`, `HardwareServiceProofs` (with `AccessController` and `StatusSnapshot`), `ReaderProofs` (supervisor and record stream), `EventPagingProofs`, `ApiServerProofs` (with `ApiHost`), `DurableFileProofs` (queue and installer) | theorems, section 6 |

Operators whose names start with `Mut` are deliberate bugs: each stands for a
plausible mistake in the definition after it and exists so that every property
can be shown to notice one.

### How state and actions correspond to the code

*AccessController.* `now` is `Clock.monotonic()`, in whole seconds; `NoTime` is
Python's `None`. `state`, `release_deadline` and `tracker` have the code's names,
`last_command` is `_last_relay_command_high`; `relay` is the adapter with the pin
it drives. `call` (the events the last call appended, whether it raised),
`past` (was an append ever lost, a relay fault ever recorded) and `notified` (what
became of the notifications of the tracker's present cycle: queued, recorded as
lost, cut off by an append that raised) are observations of caller, queue and
database, not variables of the program.
A method is one action: the thread runs it to its end, and every way it can end
is a disjunct. A raising append ends it at once, with what was assigned before;
that is why, for instance, `HighFailed` can leave the state READY.
Authorization is a free choice: `ProcessGrant` and
`ProcessSuspicious` are the possible classifications. `snapshot()` and
`_last_credential_processed_at` change nothing the properties see and are left out.

*RelayPort.* A GPIO call that raises may or may not have reached the pin. That is
the nondeterminism all the safety properties are about. `input` is a channel that
is not an output: before `setup()` and after `GPIO.cleanup()`.

*ReaderSupervisor.* `pc` marks where the thread is between two system calls:
`opening` between discovery and open, `waiting` in the backoff wait. `bus` has the
device at each port, `found` is the port the discovery chose. The environment is
`DeviceChanges`: a device appears, vanishes or is exchanged for another between any
two steps, and the kernel hangs up an open tty. Whether a device matches the
identity is a property of the device; `Discovered` is exactly one match. An emit
that raises, the listing of `/dev/serial/by-id`, and the tty configuration are
switched by constants, because the question "does an expected failure take the
loop down?" only makes sense with the unexpected ones off. How long a wait is makes
no difference to the properties, so that of the delay only its overflow is kept.

*RecordStream.* One step per read, per iteration of `feed()`'s loop, and per record
submitted. `wire` is the history of all bytes fed, and a result carries its places
in it, so that the properties can compare records with the wire. What
`parse_reader_record` accepts is a set of byte sequences, of which only what the
framing relies on is assumed (`StreamAssumption`). `Connects` and `Disconnects` do not
touch the buffer, because nothing in the code does.

*HardwareService.* `pc` is the call the thread is in. The runtime's reading and
the reader are reduced to what the loop sees. Every call of the loop takes time: it
blocks first, for up to `LongestCall` ticks (`Elapses`), and then does at once what
it does (`Thread`); `spent` counts the ticks. A serial `select()` and an
interval of a wait block for up to one tick, 50 ms in the code. A discovery with the
open blocks for up to `DiscoveryTicks` (`udevadm` has 0.5 s for each device that is
listed, ten ticks, with no tick of the controller between two of them), the start of the API for
up to `HostingTicks`, and any call for up to `WriteTicks` more in its SQLite and
`fsync()` writes. The increment-4 document lists these under its blocking-operation
policy; the code bounds neither the number of devices nor a write, so they are
parameters. A release or a stop that comes due in a call waits
for its end. The model begins once `runtime` exists; what fails before
that is raised with no relay set up.

*StatusSnapshot.* Each step of the thread at whose end the code publishes also
replaces `published`: the end of `start()`, every way out of `run_once`
(`PublishesIteration`), every interval of a wait, `handle_failure()` unless the
controller raised, and `shutdown()` in any case. What `on_ready` and the start of the
API write comes after the publication, and so does the time they take. A request changes nothing, so that
an answer is an operator of a snapshot and a time (`Answer`, `Healthy`), and what
holds of answers is said of every state: the request may come at any of them. Both
clocks are the same here; one that is set back is a hazard without a property.

*EventPaging.* A request is one `SELECT`, so one step; appends and settings of the
clock come between any two. Ids are random, so any free one may be taken. A
`SELECT` is defined by what `ORDER BY` and `LIMIT` leave (`IsTop`), `Page` by its
look-ahead of one row. Only `Begin` has `before`, which cannot go with a cursor.

*ApiServer.* One step per critical section of the server's lock, and one for each
statement outside it that another thread can see: the spawn, the cancel, the joins
and the wait. `api` is `_state`; `failures` keeps the kind of each exception;
`verdict` is how a caller's last call ended. A bounded wait may end at any time,
with what it waits for come or not: that is what a timeout means when nothing is
known of the speeds. `raised` and `returned` are the moments between the end of
`run()` and `_thread_main`'s lock; `finished` is a thread that still logs and is
still alive.

*ApiHost.* The host is the only caller. The reader is a Boolean that the loop sets
and clears, the runtime's reports are those of `runtime.py`; a report replaces the
file, or raises and leaves it. A reconnect replaces it twice, and is two steps: `Connects`
is the runtime's `ready` (`runtime.py:94`), `Announces` the host's `on_ready`, which
writes the state of the API over it (`hardware_service.py:236`). A report of the loop
that raises ends the loop (`raised`), and `faulted` is reported before the exit. `retained` is the host's `failures` as far as they
concern the API; of the health file's own exceptions `unwritten` says whether there
is one. Exceptions are compared by kind where the code compares them by
identity: the host calls `start()` and `stop()` once, so that of one server each kind
arises once at most (`FailuresOnce`, proved), and the two comparisons agree. The API is enabled; disabled, none of this runs.

*NotificationQueue.* The file is its terminated lines and what follows the last
newline (`tail`). Each operation of the queue is one step, as its lock makes it;
the worker's three calls are three steps. A write that fails, or is cut off by a
kill, leaves nothing, a part of a line (`Bad`), or the line without its newline.
What `fsync` returned for is kept; power loss is not modelled. The service itself
starts no worker: the class is there for a process that will.

*AuthorizationInstall.* One step per stage of the installer. A content is a value
the parser accepts or not. Another installer's cleanup may unlink this one's
temporary file between any two stages. Temporary files left to nobody are not
kept: no path of the code reads them.

## 3. Runs

| Run | Module, cfg | Question |
|---|---|---|
| `escalation` | `Escalation` | does the pruned deque answer what the whole history calls for? |
| `controller` | `AccessController` | every order of calls, every failure: all safety properties, the contract, and does every release end? |
| `reader` | `ReaderSupervisor` | supervisor against two ports, their devices and callbacks that do anything |
| `record_stream` | `MCRecordStream`, `RecordStream` | every wire of up to seven bytes, every cutting, two sessions: are the records those of the wire, and is each decided? |
| `hardware_service` | `StatusSnapshot` | the whole thread, with calls that block, and what it publishes: how late can a release end, are exits safe, does a stop end it; is what the API answers true, and how old can it be? |
| `event_paging` | `EventPaging` | every walk, filter and page size through a table that grows under a clock that is set: in order, once, complete? |
| `api_server` | `ApiServer` | three callers against the server thread: do states, failures and verdicts agree, and does every call end? |
| `api_host` | `ApiHost` | does the health file show the API's failures after every reconnect, is each retained once, and does the host get past the API? |
| `notification_queue` | `NotificationQueue` | two workers, restarts, failing and torn writes: is an accepted event kept until it is delivered, and none passed over? |
| `authorization_install` | `AuthorizationInstall` | is the live file always valid, the store always whole? |
| `reader_overflow`, `reader_hangup` | `ReaderSupervisor`, `ReaderOverflow` and `ReaderHangup` | violated: section 5 |


### Bounds, and why they are enough

* `MaxTime` stops the clock. It is the sum of what a behaviour needs to be
  interesting: in `Escalation` two full quiet periods and a window (10), with up
  to 8 events against thresholds 2 and 5; in `AccessController` a release, a
  quiet period beside it and a second release (5, release 2), which is also two
  cycles that get critical, each with its three events at one time; in `StatusSnapshot`
  a release granted before a discovery and a reconnect wait that outlast it (8,
  release 2, wait 3).
* The tracker's quiet period (3) lies between its windows (1 and 4): a reset cuts
  the critical window, which behaves differently from one that follows a window, as
  it does the warning's; and a level can outlast the burst that raised it.
* `MaxEvents` in `AccessController` bounds the deque, at more than
  `CriticalCount`, so warnings, criticals and repeats of both occur.
* `ProcessGrant` needs `now + ReleaseSeconds <= MaxTime`: no deadline beyond the
  clock. In `HardwareService` records are read only while that holds, because a
  grant the bound forbids would be a stuck thread the code does not have.
* Two ports: none, one and several matches, and an exchange behind the
  discovery's back. `MaxAttempts` of an outage: 6 passes the threshold (3) and the
  repeated-failure event; 1026 for the overflow, whose
  threshold is Python's, 1024. In that run nothing unexpected fails, so that its
  counterexample is the whole answer: no attempt before the 1025th escapes.
* `StatusSnapshot`: a discovery takes up to two ticks, the start of the API one, the
  writes of any call one more. With these `LongestStretch` is 6 and `LongestPass` 7, and
  both bounds are reached: with one tick less either property is violated. `MaxBatch`
  1 and `MaxEvents` 1 keep the 745 391 states within two minutes. What a longer batch
  adds are more submissions between two ticks, which the two bounds count and their
  proofs cover; criticals, and the other records of a batch of which one
  raises, are the `controller` and `record_stream` runs'. `StaleAfter` 2 is shorter than the
  reconnect wait, so that answers of both kinds occur.
* `RecordStream`: seven bytes of four kinds (the two marks, an accepted datum, one
  that is not) in reads of up to five hold two records with noise between them,
  an overrun of the buffer (3) with a record behind it, and a record cut by a
  disconnect. Longer data adds bytes of the last two kinds only.
* `EventPaging`: four ids, three times and pages of one or two: events of equal
  time on both sides of a page border, a walk of four pages, appends before and
  behind the cursor.
* `Callers` 3: one in `start()` and two in `stop()`, so that a `stop()` that waits
  for another and one that joins overlap a startup. `MaxFailures` 2 still lets a
  `stop()` begin after a startup timeout and after another's timeout; the list
  grows beyond it, by what calls under way add. In `ApiHost` 4 is more than one
  caller can reach.
* `MaxEvents` 4 of the queue: one event in each worker's hands, one before and one
  behind. Two workers are one more than the class has users.
* Two installers, two reloads, two valid contents and one invalid: an overtaking
  of each kind, with contents that can be told apart.
* Deadlock is not checked: every one of these systems really may stop (the
  clock's bound, a closed supervisor, a finished process, a drained queue).

### Fairness

`AccessController.FairSpec`: weak fairness of `Tick` and of time. The host calls
`tick()` on every pass of its loop and every 50 ms of a wait; that this is what it
does is itself checked, in `HardwareService`, where the thread as a whole is
weakly fair (`StatusFairSpec`) and nothing else is assumed (`ReleaseEndsOnTime` is a safety property
there). `ReaderSupervisor.FairSpec`: the thread's own steps, and a read of a
hung-up tty, which comes round again and again. Nothing is assumed of the device,
of the stop request or of the outcomes of calls.

`ApiServer.ApiFairSpec`: weak fairness of each caller's call in progress, whose
waits all have timeouts (`uvicorn_server.py:128`, `155`, `182`, `189`). Nothing is
assumed of the server thread: it may never come up, never return and never die.
`ApiHost.HostFairSpec`: the same of the one control thread; that it leaves the loop
is not assumed, so that its liveness is stated for the ways in and out.

## 4. What the checks show

*Controller.* `HighIsAccountedFor` is the central one: through every sequence of
calls with any failure, a HIGH pin is a release being timed, or a relay fault is
in the audit database, or the database itself refused an event out of a method
(which the host answers with its fail-secure exit). `ReleasedIsTimed`,
`ClaimsAreTrue` and `FaultIsRecorded` say what each state is worth (they are
proved, and no run repeats them).
`CriticalIsNotSilent` ties the tracker's level to the notification or the record
of its loss, cycle by cycle: it matters because the tracker announces a level once per cycle, so a
notification that is not queued then is never queued, and what became of an earlier
cycle's does not excuse the loss of this one's. `HighOnlyAfterGrant` is
about steps; so is `ContractHolds`, the refinement of `ReleaseContract`, and
`ReleaseRunsItsCourse` and `HaltIsFinal`, which say parts of it without the abstract
machine, are proved. `EveryReleaseEnds` is the liveness that goes with it.

*Tracker.* `LevelMatchesHistory` compares the level with `ReferenceLevel`, which
knows neither deque nor pruning nor reset; `DequeIsLiveSuffix` says the deque is
exactly what a window ending now can still see; `NoticesRiseOncePerCycle` is about
the answers, and so is `LevelFallsOnlyAfterQuiet`.

*Reader.* `HealthTellsTheTruth` and `RepeatedFailureOncePerOutage` relate the
counters, flags and health to the session and to the outage they are about. `Reconnects`, `DisconnectIsDetected` and
`StopIsAnswered` are its liveness.

*Host.* `ReleaseEndsOnTime`: a release may be on after its deadline, since the call in
which it comes due ends first, and another may come before the next tick. The delay is
bounded by `LongestStretch`: one discovery with its writes, or one read with the
decisions of its records. The reconnect backoff is no part of it. With four
devices listed and `udevadm` at its timeout it is two seconds and the writes.
`LoopNeverHidesAHighPin`: in the loop a HIGH without a release is always a
recorded fault. `NoReleaseWhileExiting`, `ExitIsSafe`, `StopEndsTheProcess`: the
way out releases nothing, ends, and ends normally only with the pin given back.

*Records.* `ChunkingDoesNotMatter` compares the results with `Frames`, a definition
over the whole wire that knows neither chunks nor buffer.
`ParsedIsARecordOfItsOwn` is FR-004: nothing that was dropped comes back as a part
of a credential, and no record that was begun and not ended is passed over to get at
one behind it. It speaks of the wire, which is all that `feed()` sees and which joins
the sessions; that a credential may be put together of two sessions is item 9 of section 5. `SyncedRecordsAreDecided` is the promise that survives noise,
overruns and disconnects: a good record behind a terminator is parsed and decided.

*Snapshots.* `PublishedIsCurrent` says that what is published is what is, whenever a
pass of the loop begins and while the host itself acts after `start()` or a reconnect. A pass that
ends by an exception does not come round to there; of its publication no property
speaks, of those of the exit it leads to `EndIsPublished` does. `LiveLoopIsFresh`: the snapshot of
a loop that lives is at most `LongestPass` old, however long it waits to reconnect. A
threshold above that separates a hang from a long reconnect. The code does not ask for
one (`configuration.py:201` accepts any positive number; the default is 10 s): below it,
a live loop is called stale during a long discovery. `ActiveReleaseIsReal`
qualifies the estimated deadline of a release: it is late by the snapshot's age,
and with the age taken off it is right. `EndIsPublished`: after the shutdown, with
any of its steps failed, health is not 200.

*Page walks.* `NewestFirst` and `NothingSkipped` hold although the table grows at
both sides of the cursor, because the cursor is a place in the total order of times
and ids and not a count of rows. `CursorLeadsOn` is the look-ahead's.

*API.* `FailureExplainsState` and `RunningIsServed` say what the state that the host
and the status page show is worth, through every overlap of calls and thread;
`CallsEnd` that Uvicorn keeps nobody. With the host as the one caller `StoppedIsStopped` holds at
every moment, which with two it does not (section 5); `EachFailureOnce` and
`NothingUnreported` follow a failure from the thread to the host's exit code.
`ApiFailureIsDegraded` is about a file that the runtime and the API part write in
turn: whenever a pass begins or the server is observed the known failure is in it, but
not in the moment of a reconnect between the two reports (section 5); `HostGoesOn` says that neither the
way into the loop nor the way out depends on the server.

*Queue.* `UntornIsKept` is FR-018's durability as far as the file keeps it, with
every failure but a torn line (section 5), `NoneIsPassedOver` its order of
delivery with two workers that may both hold the first event: delivery is at least
once, and twice is possible.

*Installer.* `DestinationIsValid` holds although the candidate may change between
its validation and its copy, because the copy is validated again, and although
installers delete each other's files, because a missing file cannot be renamed.
`StoreIsWhole` follows a reload across that.

## 5. Disagreements with the documents

The first two are runs that TLC must find violated, and findings in `PROJECT.json`.

1. **A long outage ends the service** (`reader_overflow`). `BackoffPolicy.delay`
   takes the power before the cap; attempt 1025 raises `OverflowError`. FR-010
   asks for retries without a reboot. The exception reaches the host, which fails
   secure and exits; the service then depends on the container's restart policy.
2. **A hung-up reader is never noticed** (`reader_hangup`): its tty reads as end of
   file, which `read_once` takes for silence, and nothing calls `os_disconnected`.
   FR-010 lists OS-detected disconnects.

The others are stated as definitions that no run keeps, or narrower, or out of the
service's own reach. Naming the definition as the only INVARIANT of a copy of the
module's `.cfg` shows the behaviour.

3. **Ready without a reader** (`ReadyMeansReader` of `ApiHost`): the API's RUNNING
   is written as the status of the service. REL-006 asks for degraded until the
   required components are usable. The next report of the reader's absence corrects it.
4. **A torn line swallows the next event** (`AcceptedIsKept` of
   `NotificationQueue`): nothing checks that the file ends with a newline before
   appending, and one line that is not JSON makes every later `pending()` raise.
   FR-018 asks that events survive a restart.
5. Unplugging the last serial device while `/dev/serial/by-id` is listed ends the
   loop: `is_dir()` and then `iterdir()` (`posix_serial.py:60-63`), outside any
   `try`. `ReaderOverflow.cfg` with `EnumerationMayRaise = TRUE` shows it.
6. So does a device that fails while it is configured: `termios.error` is not an
   `OSError` (`reader.py:307`). The same with `OpenMayRaise = TRUE`.
7. `docs/architecture-refactor-increment-4.md:87-88` calls a failed shutdown
   retryable, but the controller swallows a relay failure in `shutdown()`, and the
   runtime marks itself complete (`ShutdownAccess` and `StoppedReport` of
   `HardwareService`). The fault is on record and the host's own `relay.cleanup()`
   still follows, which is why `ExitIsSafe` holds.
8. A `stop()` between `start()`'s STARTING and the start of the thread claims
   STOPPED, and the server that is then spawned has nobody to stop it
   (`StartBegins`, `StopAtOnce`, `Spawn` of `ApiServer`). The test of overlapping
   calls (`tests/test_hardware_adapters.py:470`) asserts the opposite for its own
   timing. The host calls both from one thread, where `StoppedIsStopped` holds.
9. A session that ends within a record leaves its bytes in the stream, and the next
   session's first record, received complete, closes them and is reported malformed
   (`FirstRecordIsDecided` of `RecordStream`). AC-002 asks that a complete record be
   decided. The credential has to be presented again. In the same way the halves of
   two records in two sessions are joined to one that parses, if the checksum happens
   to be right (`ParsedInOneSession`). `docs/reader-contract.md:10` says that
   "Empty, partial, overlong, badly framed [...] records cannot become credentials".
10. The port that the discovery chose is opened by its path, and nothing compares the
   device again: exchanged in between, another device gets the session
   (`SessionIsTheReader` of `ReaderSupervisor`). AC-010 asks that the
   application connects to the correct reader. Its bytes would still have to be a record.
11. With VID and PID configured `_matches` (`reader.py:139-150`) does not look at
   `by_id_path`, which `docs/reader-contract.md:15` lists among the constraints.
12. `docs/read-only-api.md:101` tells callers to retain the same filters while
   following a cursor, but `before` is refused beside one (`query_service.py:142`).
   Left out it makes no difference, which `NewestFirst` includes.
13. On each reconnect with a known failure of the API the health file says `ready` from
   `runtime.py:94` until `hardware_service.py:236` corrects it (`Connects` and `Announces`
   of `ApiHost`), where `docs/read-only-api.md:58` has the failure written to it as
   degradation. A thread that is held up in between, or a process that is killed there, leaves it so.
14. `reload()` takes the file's metadata after its content, and may give one
   file's revision to another's records (`PublishLoaded`). The service reloads only
   at its start.

## 6. What is proved

All proofs are for every value of the constants allowed by `PolicyAssumption`
(what `EscalationPolicy.__post_init__` accepts), `ControllerAssumption` (a positive
release time; the bounds are naturals), `BoundAssumption`, `ServiceAssumption`
and `StatusAssumption` (of the host's waits, batch and age), `SupervisorAssumption`,
`StreamAssumption` (what the framing relies on of the accepted records), `QueueAssumption`,
`PagingAssumption` (ids are ordered; a page has at least one row), `ApiAssumption` and
`HostAssumption` (there is a caller, the host is one) and `InstallAssumption` (the
valid contents are contents). Nothing is assumed of how long a call blocks but that it is
a number of ticks (`ServiceAssumption`). The bounds are parameters like the others: the
theorems hold for every clock, deque, outage, wire, file and table. Every safety
property and every action property of the passing runs is stated by a theorem.

* **`SequenceLemmas`**: a set of numbers has a least one (`LeastNumber`), from which
  what holds at the start and is passed on holds up to any number (`UpTo`); and what
  leaving elements out of a list leaves: each one that stays, and no other, in the old
  order (`DroppingFacts`).

* **`EscalationTrackerProofs`**: lemmas about the operators. The popleft loop
  returns a sequence of times (`PrunedType`); `record()` keeps the tracker's type and never lowers the
  level within a cycle (`RecordedType`, `LevelFalls`); a level of CRITICAL was
  answered now or was there before (`CriticalIsAnswered`).
* **`EscalationProofs`**: all properties of the `escalation` run.
* **`HardwareServiceProofs`**: all safety properties of the `controller` run and of the
  `hardware_service` run, and
  that a thread that publishes is a control thread (`StatusImplementsHost`), by which
  what is proved of `HardwareService` is proved of `StatusSnapshot`.
* **`ReaderProofs`**: `HealthTellsTheTruth` and `RepeatedFailureOncePerOutage`, for any
  ports and threshold, whatever raises; all properties of the `record_stream` run, for
  any alphabet, set of accepted records, chunk and buffer size and number of sessions.
* **`EventPagingProofs`**: all properties of the `event_paging` run, for any finite
  table, filters and page sizes.
* **`ApiServerProofs`**: `ApiTypeOK`, `FailureExplainsState` and `RunningIsServed`, for
  any number of callers; that the host is one of them (`HostImplementsApi`), and, with
  it as the only one, all safety properties of the `api_host` run.
* **`DurableFileProofs`**: all properties of the `notification_queue` run, for any
  number of events and workers; `DestinationIsValid` and `StoreIsWhole`, for any
  installers, reloads and contents.

The inductive invariant `IInv` of the controller is the conjunction of `TypeOK`,
its five safety invariants and `RelayShape` (before `start()` the adapter is
untouched; a channel given back, or never set up, is not HIGH). The five lean on
each other and on `RelayShape`, so none is inductive alone: that RELEASED can be
left HIGH only with a record needs that its deadline and channel are what
`ReleasedIsTimed` says; that STOPPED is true needs that a LOW that succeeded had a
usable channel; that nothing is HIGH in READY needs how RELEASED is left. The
argument has three layers: what one call on the port can do (`CommandFacts`,
`CleanupFacts`, `SetupFacts`); what the end of a method leaves in the database
(`EndsFacts`, `AuditThenEndsFacts`: it forgets nothing and gains what was
appended); and one lemma per method that it preserves `IInv`. From `Inductive`
follow the invariants, and with the facts about where each method leads
(`ShutdownFacts`, `RecoverableFacts`, `GrantFacts`) the action properties and
`Refinement`, that every step is a step of `ReleaseContract` or a stutter.

`HardwareServiceProofs` builds on the controller's proof. `StepKeepsIInv`: a step of
the thread is a call of the controller, and keeps its `IInv`, or leaves it alone.
`HostInv` adds what the thread contributes. `Unharmed`: a call that does not raise has
lost no audit event, so that the loop only ever goes on in states in which
`HighIsAccountedFor` leaves nothing but a timed release or a recorded fault.
`Timely` counts the time of the calls: when one begins, `Left` is what it and those after it
may take until the next tick; when it ends its own time is used up; and a tick, after which no
release is due, begins the account anew. `ShutDown`:
what follows the loop is halted, which is why the host's own `relay.cleanup()` may end
normally only with the pin given back. `StatusInv` adds `Recent` (`Passed`, the same
account from one publication to the next), `StillOpen` (a release of which the snapshot
leaves more than its age is still on: releases end only when they are due) and
`LastWord` (the exit ends with a publication, in whatever order its steps fail).

Of the reader's supervisor `ReaderProofs` needs `FlagCounts`, that the flag of the repeated failure and
the outage's reports agree. The event is emitted first and the flag set after it
(`reader.py:340`); an emit that raises leaves the flag as it was, and the loop with it, so
that no later attempt reports the outage again. And it needs `OpensFound`.

Of the record stream, `feed()` forgets the bytes it has reported, so that the
invariant `StreamInv` speaks of the wire, which is never shortened. `Suffix`: the buffer
is the wire's end. `Told`: of the places before the buffer everything has been
said. Unless a buffer has been dropped, the results closed by a terminator are the
wire's frames, all of them and no others (`FramedIn`); dropped or not, a good record
behind a terminator is among the results (`CaughtIn`), because what is dropped never
ends within one (`SettledIn`); the results stand in the order of their places (`OrderedIn`);
and each start of a record before the buffer was followed by a terminator or dropped whole
(`NoneOpenIn`), as it was where each parsed record begins (`NonePassedOver`).
`AtRest`: what `feed()` leaves is one unterminated
beginning within the limit, and everything it returned is decided before the next
read. None of these needs an induction over the wire: each of
`feed()`'s iterations moves the buffer's start over bytes it then accounts for, and
`ReadTells`, `SkipTells`, `CutTells` and `DropTells` say so of a read and the three kinds of iteration.
`StreamAssumption`, that an accepted record starts and ends with the marks and has
neither within, is what makes a record of the wire a frame of its own.

`EventPagingProofs` has two ideas. `PageSplits`: a page is all of what its request
selects, or has a last item with everything shown at or above it and something left
below. `CursorIsLast`: the cursor is the least of everything seen, so that a request
selects only from below all earlier pages. `TableGrows`: nothing is deleted.

`NoticesRiseCorrect` is about an unbounded history, in which the reference finds
its cycle by `CHOOSE`. `CycleInv` carries the cycle's first event as a witness: there is
an event that began one, no event since has been quiet for `ResetAfter`, and the
notices from it on rise to the tracker's level. `BeginsAtIsCycleStart` shows that the
reference chooses the same event; `RecordKeepsCycleInv` begins a new cycle at the
new event or keeps the old one.

`HistoryInv` carries the same witness for the level and the deque. `HoldsFrom` names
the place from which the deque holds the history: what lies before it in the cycle
is older than a critical window ending at the last event. That is enough, because
times never go back (`Sorted`). The popleft loop moves the place to the least event
that is not too old (`PrunedIsSuffix`, `DequeNext`). With sorted times "`count` events
since a time" says that the event `count` places from the end is no older
(`CountIsSuffix`), which neither a cardinality nor the deque has a part in, so that
what `record()` counts in the deque is what the history calls a burst
(`CountIsBurst`). It uses that no window is longer than the critical one. A level that stays
is the bursts that were closed before (`BurstNext`, `FollowsNext`).

`ApiServerProofs` strengthens its three invariants by three facts. `StartingIsOpen`,
that a server still STARTING has not reported its end, and `StartedWasSpawned`, that
what came up was spawned, are why `start()` may claim RUNNING when it sees
`started`; `NewIsUnstarted`, that only a `start()` that has left NEW spawns, is why a
`stop()` of a NEW server leaves nothing behind. One lemma per step, over small
lemmas on what a retained failure and a caller's return do.

Of the host, `HostAll` follows a failure from the server to the health file and the
exit. `CallsFollowPhases` ties each phase of the host to the call it has under way;
`FailuresOnce` says why no kind of failure comes twice, which is the one thread's
doing and not the server's; `OutlivedIsKnown` that a thread that survives `stop()` has been
reported by it, and so `DoneIsTold` that at the end nothing is left unread;
`RetainedIsFailed` that with a failure retained the loop's state is a failing one and
the file degraded, through each report of the reader's. What the host has not yet
seen is what it leaves out of the server's list, so `DroppingFacts` says what it retains.

Of the queue, `QueueInv` has the order as its center: the lines stand in the order in which their
events were accepted (`InOrder`), so the first line, which a worker takes, is older
than everything else that waits, and what a worker holds has nothing undelivered
before it (`Holds`), also while the other worker removes lines and the process is
restarted. `Keeps` is the durability: an accepted event has been delivered or is in the
file, or there is a torn line in it. That a rewrite keeps both is
`DroppingFacts` (`RewriteInOrder`, `MarkKeeps`).

Of the installer `DurableFileProofs` needs `ValidatedIsValid`, that what was validated as a
temporary file is still valid or gone when it is renamed, and `LoadedWasLive` and
`StoredWasLive`, that what a reload holds and the store has was live and valid once,
which is why `installed` remembers the contents that were.

**Only model-checked.** Liveness (`EveryReleaseEnds`, `Reconnects`,
`DisconnectIsDetected`, `StopIsAnswered`, `StopEndsTheProcess`, `CallsEnd`,
`HostGoesOn`): the prover does not reach liveness under fairness. So are the two
violations of section 5, which are counterexamples and need no proof.

Induction over data is out of the prover's reach as a theorem about any operator.
Where an argument needs it (`SequenceLemmas`, for a list being filtered), it is done
for a set: the numbers for which the fact fails would have a least one. Everywhere
else the induction is over the program's steps, with an invariant that
speaks of the history instead of the data structure.

## 7. Not modelled, and the plan

Not modelled: configuration parsing and the CLI (no state of their own, and no
behaviour after the start), the simulation (the same controller and runtime over an
in-memory relay and reader), HTTP request mapping, SQLite's own atomicity (an append
happened or raised), the contents of events and logs, `get_event` and the counts in a
status answer (single reads), deployment scripts.

What would come next:

1. The runtime's thread and the API's part of the host in one model, so that the
   health file is written by the real reader and the real shutdown.
2. An abstract specification of the queue (at-least-once, first in first out) that
   `NotificationQueue` without torn lines implements, and one of the installer
   (the file changes from valid to valid in one step).
3. A wall clock of its own in `StatusSnapshot`, with what the age of a snapshot is
   worth while it is set.
