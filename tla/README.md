# NMS-Custom: a TLA+ verification project

NMS-Custom is a network management system: it receives traps, syslog lines and
telemetry from devices, keeps alarms and KPIs in PostgreSQL, and lets a set of
worker processes react to what happens through one Redis stream. This directory
holds TLA+ models of the parts of it where concurrency, failure and ordering
decide whether it works, the TLC runs that check them on small instances, and
proofs, checked by TLAPS, of what holds on every instance.

Paths below are relative to `src/backend/app/` unless they begin with `src/`.

- [1. The system](#1-the-system)
- [2. What is modelled](#2-what-is-modelled)
- [3. What the runs show](#3-what-the-runs-show)
- [4. What is proved](#4-what-is-proved)
- [5. What the code does not do](#5-what-the-code-does-not-do)
- [6. Bounds, fairness and abstractions](#6-bounds-fairness-and-abstractions)
- [7. What is not modelled, and the plan](#7-what-is-not-modelled-and-the-plan)

To check a run: `tlc -config X.cfg M` with module and configuration from the table
in section 3; to check the proofs: `tlapm EventConsumerProofs.tla`, and so on.

## 1. The system

### Processes and how they interact

`workers/supervisor.py` runs a dozen loops, either all in one process
(`start`, :24) or one per container (`workers/run.py:40`, one service per kind in
`src/docker-compose.yml`, two replicas of most of them in
`src/helm/nms-custom/values.yaml`). The FastAPI application is a further process
that writes the same tables. There is no lock shared between any two of these
processes: they meet in the database, each request or handler in a transaction
of its own under READ COMMITTED, and in the Redis stream `nms:events`.

```
 devices --traps, syslog--> receivers --task per datagram--> AlarmCorrelator --+--> alarms table <-- operators' API
        \                                                        | publish     |        ^
         \--gRPC telemetry--> ingestion --> KPI rows             v             |        | enrichment
                                  | publish                 nms:events --------+-> worker-alarm
                                  +------------------------->    |-------------+-> worker-discovery --> device.status
                                                                 +-------------+-> worker-telemetry --> thresholds --> AlarmCorrelator
```

### Components

| Component | State | Operations | What is hard | What makes it correct |
|---|---|---|---|---|
| Event bus, consumers (`services/events/bus.py`, `consumers.py:41-142`) | the stream, one consumer group per worker kind and its pending entries (Redis); `processed_event_ids` per process | publish, claim stale, read, handle, acknowledge | crash between handling and XACK, lost replies, two owners of one entry, trimming, failing handlers | nothing delivered is forgotten; only handled events are acknowledged; the handler's effect is repeated only by a new process; every event is settled in the end |
| Alarm table (`services/alarms/correlator.py`, `api/alarms.py`, enrichment) | `alarms` rows | raise, repeat, clear, acknowledge, suppress, enrich | read-modify-write without a lock, by tasks, operators and consumers | one active alarm per key, counting every raise; an operator's decision stands |
| Discovery consumer (`consumers.py:239-322`) | `device.status`, `_last_status` per process | report a status, announce a device that came up, refresh it | a cache per replica, by id, over a row with several writers; reports by address, and of a status that is refused, reach one of the two only | a device that comes up is announced, and once |
| Refresh orchestrator (`processors/discovery_refresh.py`) | debounce times, in-flight set, rate window, all per process | decide, run a refresh | time, several processes | no more refreshes than the limits say |
| Telemetry (`services/telemetry/ingestion.py`, `processors/telemetry_fanout.py`, `services/kpi/thresholds.py`) | raw and KPI rows, threshold alarms | ingest, fan out, evaluate | the group consumes what it publishes; samples out of order; customers' rules rewrite what a threshold says | each sample is evaluated, and the alarm follows the last evaluation and the rules |
| KPI engine (`services/kpi/engine.py`, `mapper.py`) | snapshots of octet counters, in the engine object | poll a device, store KPIs, compute rates | wraps of two widths, restarts of the device, answers that overtake each other | a rate is of what the interface counted |
| Monitoring policies (`services/monitoring/policies.py`, `workers/sharding.py`) | `monitoring_policies` rows with `next_run_at` | run due, run now, edit, delete, create the defaults | due rows are not claimed, shards share a column, names are not unique | every device of an enabled policy is polled again and again; one copy of a default |
| Report schedules (`services/reports/scheduler.py`) | `report_schedules` with `next_run_at`, `generated_reports` | run due, run now, store, prune, edit | runs overlap, an edit during a run | the newest reports stay, and no more than those |
| Bulkstats collectors (`services/bulkstats/watch_collector.py`, `pull_collector.py`) | the drop directory and its `processed/` and `failed/`; the list of names already pulled | watch, pull, ingest, move, note | crashes between commits, files written meanwhile, a window of 200 names | each file is ingested, once |
| Bulkstats ingestion (`services/bulkstats/ingest.py`) | counters per source, next to the samples | store a file | the counters are read, added to and written by several collectors | the counters say what is stored |
| Rate limiter (`security/rate_limit.py`) | a sorted set in Redis, or a window in memory | allow | fail-over between two stores, pipelines that mix, calls that were given up | no client has more than its budget; nobody is refused without cause |
| Discovery engine (`services/discovery/engine.py`) | devices | scan, persist | two scans insert one address or wait for each other, an operator renames meanwhile | an operator's name stands; every scan ends |
| Topology builder (`services/topology/builder.py`) | nodes, links | build, for one device or all | worker and requests insert the same nodes; foreign keys | every pass ends; neighbours are linked |
| Assurance (`services/assurance/`, `api/assurance/`) | `service_score_history` | compute scores, write snapshots, search what a node affects | races of requests and alarms; circles, depths and directions; limits | scores follow the network; the history is bounded; the search is exact |
| Configuration and interfaces (`api/devices/config_ops.py`, `interface_ops.py`) | `config_backups`; `admin_status` of interfaces | collect, promote, compare; enable, disable | a device is asked or changed between the read and the write of a row | backups are the history of the configuration; the row says what the device was told |
| Import of devices (`api/devices/bulk_import.py`) | devices and credentials | import a table | one transaction with a savepoint per row, imports that overlap, deadlocks | a row that fails takes back itself and nothing else |
| Commands (`services/ssh/command_runner.py`, `api/command_schedules.py`) | `commands`, `command_schedules`, `command_runs` | run one, many, or a schedule now | a session, and a connection, held while devices work; several writers of one column | every request is answered; a row says what a recent run gave |
| Retention (`services/retention.py`) | the policy of a hypertable, the setting | seed, save | starting processes and administrators | a setting survives |
| Heartbeat (`services/observability/heartbeat.py`) | a hash with a time to live per kind of worker | beat, count, read | three commands that each may fail, replicas that share a record | stale means dead |
| Alarm rules (`services/alarms/rules.py`, `api/alarm_rules.py`) | `alarm_rules` | match, rewrite; add, edit, delete | rules change between the two traps of a port, and treat one and not the other | an alarm is open as long as its cause is |
| Chassis view (`api/devices/chassis.py`, `services/snmp/engine.py`) | a table of parts and a list of them, per device | collect, show | columns walked one after the other, between the read and the write of the rows, while parts are replaced, each may fail; collects that overlap | what is shown is no older than the last collect |
| Services (`api/services.py`, `models/service.py`) | services, members, dependencies | create, rename, delete; add and remove | a check and an insert with a delete in between | nothing names what is gone |
| Users and roles (`api/settings/users_roles.py`, `services/account_audit.py`) | `app_users`, `app_roles`, the file of the trail | create, change, delete; list, which also writes | a line before the commit, roles put right by what was read | the trail says what happened; a role keeps what it was given |
| SNMP, SSH, forwarding, rendering, CRUD, frontend | | | input, output or one transaction each | |

`PROJECT.json` lists every component with its files and whether it is modelled,
and every hazard with its line.

## 2. What is modelled

```
 AtLeastOnce          <--refines--  EventConsumer      <-- MCEventConsumer,     EventConsumerProofs
 (the bus's promise)                AlarmCorrelator    <-- MCAlarmCorrelator,   AlarmCorrelatorProofs
        |--assumed by-->            DiscoveryConsumer  <-- MCDiscovery,         DiscoveryProofs
        \--assumed by-->            Telemetry          <-- MCManagement,        TelemetryProofs
                                      \-- Thresholds

 PullCollector, WatchCollector, DiscoveryPersist,    \            LoopProofs (PullCollector, WatchCollector,
 MonitoringPolicies, CommandRuns                      >- MCLoops              MonitoringPolicies)
 TopologyBuild  --  MCTopologyBuild                  /            DiscoveryProofs (DiscoveryPersist)

 PolicySuite, CounterRates, ReportSchedules,         \
 InterfaceAdmin, RetentionPolicy, IngestStats,        \            OperationProofs (to ConfigBackups)
 BulkImport, CommandRuns, ConfigBackups                \
 ScoreSnapshots, ServiceScores, Heartbeat,              >- MCOperations
 BlastRadius                                           /           ObservationProofs (the row before)
 RateLimit, RefreshLimits                             /            LimitProofs
 AlarmRules                                          /             AlarmCorrelatorProofs

 Telemetry, ChassisInventory                         \             ObservationProofs (ChassisInventory)
 ServiceCatalog, AccountTrail, RoleCatalog            >- MCManagement
                                                     /             OperationProofs (this row)
```

`MCLoops`, `MCOperations` and `MCManagement` check components that share no state: an
execution follows one of them, chosen at the start, and the others keep their initial
state. `MCLoops` has those whose liveness is checked.

A definition that begins with the comment "Mutant of" is a defect the runs must
detect and is used by no specification.

### AtLeastOnce and EventConsumer

`EventConsumer` is one consumer group and the processes that share it. What Redis
keeps (`stream`, `trimmed`, `lastDelivered`, `pending`, `stale`) outlives a
crash; what a process keeps (`phase`, `batch`, `processed`) does not. A stream
entry is named by its position; `stream[i]` is the `event_id` it carries, and two
entries may carry the same one, as the tests of the consumers do.

| Action | Code |
|---|---|
| `Publish` | `EventBus.publish`, `bus.py:38-51`; XADD with an approximate MAXLEN may trim to the cap or keep more |
| `Start`, `Crash` | the loop of `supervisor.py:72-80`; the death, or the stop, of the process at any await |
| `GrowStale` | an entry has been idle for `event_consumer_stale_ms`, whatever its worker does |
| `ClaimStale`, `ClaimStaleFails` | `EventBus.claim_stale`, `bus.py:127-153`, which swallows errors |
| `ReadGroup`, `ReadGroupFails` | `EventBus.read_group`, `bus.py:107-125`, which does not |
| `SkipDuplicate`, `HandleReturns`, `HandleRaises` | `EventConsumer.process_one`, `consumers.py:82-99` |
| `Ack`, `AckFails` | `EventBus.ack`, `bus.py:155-160`, and the loop of `poll_once`, `consumers.py:124-129` |

`phase` says which await of `poll_once` a worker is at, so every interleaving of
workers at awaits is a behaviour. The history variables `effects`, `starts` and
`acked` are read by no guard but the bound on starts.

`AtLeastOnce` is the promise the rest of the system builds on: an event stays
owed until it is settled, is settled only after a handler finished with it, and
leaves unsettled only when pushed out by newer ones. `EventConsumer` implements
it with `log <- stream`, `settled <- acked`, `expired <- trimmed` and, as what was
handled, the events any worker has an effect of.

### AlarmCorrelator

The rows of the alarm table and all their writers: `Receive`, `FindActive`,
`FindNone`, `CommitInsert`, `CommitUpdate`, `CommitClear` and `HandlerFails` are
the steps of `_handle_classified_event` (`correlator.py:204-304`) split at its
query and its commit; `Acknowledge`, `Clear`, `Suppress` and `Unsuppress` the API
calls, of one row or in bulk (`api/alarms.py:512-659`); `EnrichLoad`,
`EnrichMerge`, `EnrichCommit` and `EnrichFails` the enrichment in `worker-alarm`
(`consumers.py:168-219`, `alarm_enrichment.py:35-79`), split where the alarm is
loaded, where `session.merge` reads the row again, and at the commit.

The classification of an event and the customer's rules are pure functions of the
event: an event may have any key and may raise or clear. The operators' calls
write a state without looking at it, so each is one step. SQLAlchemy writes the
columns that differ from the row that was read, and the model does so as well:
`CommitUpdate` writes a count and `raw_varbinds`, but not the state. Of
`raw_varbinds` the model keeps whether it holds an `_enrichment`.

`streak`, `mixed`, `hits`, `held` and `reopened` are history: the raises since
the last clear, the keys that somebody wrote while somebody else was at them, the
raises committed to a row, the rows an operator parked while nobody was at them,
and the rows an operator or an enrichment made active again.

### DiscoveryConsumer

Replicas of `worker-discovery`, built on what `AtLeastOnce` promises and no more:
any replica may handle any event of the log, in any order and more than once, but
one start of a replica handles it once, as `process_one` sees to. `done` counts
how often, per content of an event.

A report carries an id (`name`), which is what `_last_status` goes by, or none, and leads
to a row (`device`) by that id, or by its address when the id is no device's or there
is none (`consumers.py:263-286`). `BeginStatus` and `CommitStatus` are
`_apply_device_status` split between its query and its commit; `DecideToEmit` is
`_maybe_emit_refresh` up to its publish (:288-309), which has no await before that and so
belongs to the same step as the end of the commit; `Publish` is the rest of it. An event
with no status, with one that is refused (:266) or with no row writes nothing and comes
to the same decision (`BeginRequest`): a refused status is remembered all the same (:306,
:309). A report without an id is neither remembered nor announced (:298-300), although it
may have written the row. `BeginRefresh` and `EndRefresh` are the refresh of
a device (`discovery_refresh.py:67-88`), which never writes the status of a row
that exists (`services/discovery/engine.py:174-180`). `Edit` is
`PATCH /devices/{id}`, `Restart` a process that dies and comes back.

`told`, `passed` and `disturbed` are history: the ids a replica announced and has seen
nothing but up of since; the devices whose row it wrote for another name than the one it
remembers, or for none; and the devices for which two replicas, an operator or
a failed commit were at work.

### Telemetry and Thresholds

`Telemetry` is the way of a sample to the alarm of a threshold, for one threshold
and one device. It composes the ingestion (`Ingest`, `Publish`:
`telemetry/ingestion.py:68-117`), the replicas of `worker-telemetry` (`Handle`,
`PublishEvaluated`, `Restart`: `telemetry_fanout.py:75-136`), the polling engine
(`Poll`, `EvaluatePolled`: `kpi/engine.py:133-152`), the correlator that both call
(`ReadRules`, `FindActive`, `FindNone`, `CommitInsert`, `CommitUpdate`, `CommitClear`), edits of
the threshold (`Edit`) and of the customers' rules (`EditRules`), operators at the alarms
(`Operate`) and other sources of alarms (`OtherRaises`). Events come from a
log that promises what `AtLeastOnce` does, as for `DiscoveryConsumer`; the event
`telemetry.kpi.evaluated` that a worker publishes goes on the same log, since the
default rule is `telemetry.*`.

`Thresholds` translates `crossed` and `should_clear` (`kpi/thresholds.py:51-68`)
and what `evaluate` does with them, and has the reference they are compared with:
a trigger with hysteresis (`Alert`), and the message such a trigger sends (`Says`).

Before the correlator raises or clears, the first rule that matches the event may give it
another severity, "clear" among them, and another key (`correlator.py:214-235`,
`alarms/rules.py:88-105`). `rules` is what the rules that there are make of each message,
any function of the message, a kind and the value it quotes, to whether it clears and by
which key; `ReadRules` applies it when the correlator reads the rules, which is after
`evaluate` has read the threshold. `AlarmRules` has the rules themselves.

`due` is the keys of which an alarm should be on, by the reference and the rules, after
the evaluations so far; `mixed` notes that two evaluations met at the alarms, or that an
operator or another source was at them. A deleted threshold is a disabled one.

### PullCollector and WatchCollector

`PullCollector` is `_pull_from_device` (`pull_collector.py:92-149`) with a step for
each call that may fail: the listing (`BeginPass`), `Read`, `Ingest`, `Note`, each
with its failure, and `PullCrash`. The device at the other end keeps its newest
`Capacity` files and the list of pulled names its last `Window` ones.

`WatchCollector` is `run_watch_pass` (`watch_collector.py:31-76`): `ReadText`, `Commit`,
`Move` to `processed/`, and `SetAside` into `failed/` after any of these raised,
against a job that creates, writes and renames files (`Transfer`, `Rename`) at any
time. A version is what a file holds after one write, so a file that is still
being written is one whose version changes.

### DiscoveryPersist

The transaction that stores what a scan found (`discovery/engine.py:109-193`), for
scans that overlap. The session reads the row of a device (`Upsert`), and sends
what it has before it reads the next (`Flush`): the point where an insert may meet
a row that another scan inserted, and where it waits for a lock. `Deadlocked` is
the database choosing a victim, `Operator` an operator who adds, renames or deletes
a device. `behind` is history: the rows an operator wrote in between.

### MonitoringPolicies, PolicySuite, CounterRates, ReportSchedules

- `MonitoringPolicies`: one policy, the replicas of the poller and the API. `Due`,
  `Load`, `Poll` and `Save` are `run_due` and `run_policy` (`policies.py:110-221`),
  `RunNow` a run by hand; `RunFails`, `LoopFails` and `Dies` fail in a run, in the
  loop that waits for it (whose other runs go on) and in the process. `Targets` is
  `filter_for_shard` (`workers/sharding.py`). Time is ticks until the policy is due.
- `PolicySuite`: `ensure_default_policy_suite` (`policies.py:228-252`), for one of
  the default names: `Look` and `Create`, by any number of callers.
- `CounterRates`: the octets of one interface. A poll takes the time (`StartPoll`),
  the device answers some time later (`Answer`), and `MapInterfaces` compares the
  answer with the snapshot it finds then (`mapper.py:53-157`), modulo 2^32 or 2^64.
  `NewEngine` is a pass of the loop, which makes an engine without snapshots.
- `ReportSchedules`: one schedule. `ListDue` or `AskForRun`, `Fetch`, `Store`,
  `Prune`, `DeleteStale` are the sessions of `run_schedule` (`scheduler.py:46-162`),
  which any number of runs pass through at the same time; `Switch` and `Retain` are
  edits. `stored`, `least`, `most` and `unpruned` are history.

### TopologyBuild

A pass of the worker, or of a request, over all devices (`topology/builder.py:51-100`)
is `StartPass`, and for each device `LookUp`, which finds the nodes and links there
are (:128-215), and `CommitDevice` or `Refused`: the transaction is refused when
another builder made a node of the same key, or when a link names a node that does
not exist. A link has two foreign keys to the `id` of a node (`models/topology.py:41-42`),
a fresh UUID; the builder gives it the `node_id` of each, as `Constraints` has it.

### RateLimit and RefreshLimits

`RateLimit` is one key of the sliding window (`rate_limit.py:104-186`, 221-262), for
any number of API processes. `Send` starts the pipeline of a request, `Execute` runs
one of its commands in Redis (`RemoveOld`, `Add`, `Count`), so the commands of several
requests mix; `Abandon` is a process that gets an error or no answer, counts in its
own memory and stays there for a cooldown (`CountLocally`), while what it sent may
still be executed. The member a request adds is its time and the address of an object
(`Member`), which the next request may get again.

`RefreshLimits` is what `should_refresh` and `refresh` decide in one process
(`processors/discovery_refresh.py:57-88`): `StartRefresh` with its tests and notes,
`EndRefresh`, whenever the refresh ends. The class is written for callers that overlap;
the one that there is (`consumers.py:260`) awaits each refresh before it takes the next
event, so of two refreshes of one device at a time, which the first part of
`RefreshesLimited` excludes, that caller never asks.

### ConfigBackups, InterfaceAdmin, RetentionPolicy, Heartbeat

- `ConfigBackups`: a request fetches the configuration (`FetchConfig`), compares its
  hash with the latest backup (`Compare`), inserts a row (`Flush`) and commits, or
  not (`api/devices/config_ops.py:81-123`); `Promote` makes a golden copy, and `Drifted`
  is the drift between the two.
- `InterfaceAdmin`: `Load`, `Session` and `Finish` of a request that enables or
  disables an interface (`interface_ops.py`): the row is read, the device configured,
  and the row written, if the value differs from the one read.
- `RetentionPolicy`: `LookForPolicy` and `Seed` of a starting process
  (`retention.py:113-170`), against an administrator who saves a setting (`Save`).
- `Heartbeat`: a loop passes, tells Redis in three commands (`SetFields`, `Expire`,
  `CountRun`, `heartbeat.py:84-137`), any of which may fail (`BeatFails`), and sleeps;
  `IsStale` is `_parse_status`.

### CommandRuns

The runs of a saved command (`command_runner.py:36-145`): alone (`POST /run`), on several
devices (`/run-bulk`) and for a schedule (`/run-now`). `Admit` gives a request its own
session, `LoadCommand` a run its slot of the semaphore and a session of its own, which
keeps its connection to the database until `EndRun` or `Fails`; `TimesOut` is a run
that waited for a connection too long; `Reply` notes the status of a schedule. `Held`
counts the connections of the pool (`database.py:10`). A session writes the columns that
differ from what it read (`Written`). Nothing runs a schedule when it is due: section 5.

### BulkImport

`POST /devices/bulk` (`bulk_import.py:130-192`), by any number of requests: `Begin`, and for each
row `LookUpHost` (the query for the address, and the credential), `Insert` (the device),
`TakeBack` (the savepoint is rolled back) or `RowFails`, then `CommitImport` or `Lose`. The
database is external: an address another import has inserted is waited for (`Waits`),
and one of those that wait in a circle gets an error (`Victim`). `AddOne` and
`DeleteOne` are operators. `asked` and `given_up` are history.

### IngestStats

The counters of one source (`bulkstats/ingest.py:74-100`), in the transaction that stores
a file: `BeginFile` reads the row, `CommitFile` writes what was read plus one, or fails
because the row was made meanwhile, also by the pull collector that noted a name
(`NoteFirst`, `pull_collector.py:72-82`). PullCollector and WatchCollector have the
same transaction as one step.

### ScoreSnapshots, ServiceScores, BlastRadius

- `ScoreSnapshots`: the history of one score. `ReadAlarms`, `LookForSnapshot`,
  `WriteSnapshot` are the statements of a request that lists the services
  (`services_impact.py:31-118`), or of a task that handles an alarm that matters
  (`snapshot_trigger.py`), which looks for none.
- `ServiceScores`: the score itself, as operators: penalties of alarms
  (`services/assurance/scoring.py`), the score of a member, the weighted mean of the
  members, and the penalties of dependencies (`api/assurance/scoring.py:161-254`), in
  integers, rounded as Python rounds. Its actions are what changes a score: alarms
  raised, repeated and cleared, and interfaces going up and down.
- `BlastRadius`: the breadth-first search of what a node affects
  (`topology_impact.py:70-190`), a step for each round of its loop, over every small graph.

### AlarmRules

What a customer's rules make of the traps of a port, one trap at a time: `ReceiveTrap` is
the trap with the rule that counts (`FirstMatch`, the first by priority, and the older of
two), as `ApplyRule` and `Rewritten` have it (`rules.py:103-152`, `correlator.py:217-247`); `TouchAlarm`
raises or clears by the key that came out. `CreateRule`, `UpdateRule` and `DeleteRule` are
the API. `adrift` is history: the keys
that the rules have set adrift (`OpenForCause`).

### ChassisInventory

A collect (`chassis.py:481-515`) reads the device, and with it, as the two relations are
loaded eagerly (`models/device.py:43-50`), its rows and its list (`BeginCollect`); it walks
the columns of the device's table one by one
(`WalkColumn`, `WalkFails`, `snmp/engine.py:175-223`), while parts are put in and pulled
(`InsertPart`, `PullPart`); it reads the rows and the list again (`ReadStored`), which leaves
those that the session has as they were (`Loaded`); it writes rows and the
list by what differs from that (`Upsert`, `Written`), and commits, is refused by a unique
key (`Refused`) or fails. `Shown` is the table, or the list if there is no table. The value
of a column is the age of its part.

### ServiceCatalog

Each request of `api/services.py` that writes is split between what it looks up and its
commit: `CheckName`, `CreateService`; `FindService`, `RenameService`; `LoadService`, `DeleteService`;
`CheckMember`, `AddMember`; `CheckDependency`, `AddDependency`; `EditFails`. `Cascaded` is what the
database deletes with a service. `DeleteDevice` is the API of devices.

### AccountTrail and RoleCatalog

- `AccountTrail`: one user. A request reads the user (`BeginChange`), flushes the new role
  (`FlushRole`), which keeps the row locked (`RowHeld`), writes its line into the file
  (`WriteLine`), and commits or fails (`users_roles.py:210-339`).
- `RoleCatalog`: `ListRoles` reads the roles and decides which built-in ones to put right
  (`Ensured`, `Preserved`, `_schemas.py:633-655`), `CommitList` writes that; `CreateRole`, `ChangeRole` and
  `DropRole` with their commits are the other requests. `chosen` and `raced` are history.

## 3. What the runs show

| Run | Module, configuration | Checks | States, time |
|---|---|---|---|
| `event_delivery` | `MCEventConsumer`, `EventConsumer.cfg` | `NothingForgotten`, `AckedWasHandled`, `OncePerStart`, `ImplementsAtLeastOnce` | 798,088, 14 s |
| `event_liveness` | `MCEventConsumer`, `EventConsumerLiveness.cfg` | `EventuallySettled` under `FairSpec` | 32,352, 75 s |
| `alarm_table` | `MCAlarmCorrelator`, `AlarmCorrelator.cfg` | `SerialIsExact`, `DuplicatesBounded`, `NeverOvercounts`, `OperatorDecides` | 695,693, 40 s |
| `discovery` | `MCDiscovery`, `Discovery.cfg` | `AnnouncedRightly` | 2,581,454, 115 s |
| `management` | `MCManagement`, `Management.cfg` | `AlarmFollowsEvaluations`; `ShownFresh`; `CatalogueSound`; `TrailTrue`; `RolesStand` | 5,696,481, 190 s |
| `loops` | `MCLoops`, `Loops.cfg` | `PulledOnce`, `EventuallyPulled`; `AccountedOnce`, `EventuallyMoved`; `NamesKept`, `ScansEnd`; `PolicyPolled`; `PassesEnd`; `RequestsAnswered` | 171,418, 183 s |
| `operations` | `MCOperations`, `Operations.cfg` | `BackupsTrue`; `StatusNoted`; `SnapshotsBounded`; `CustomSurvives`; `BudgetExact`; `RefreshesLimited`; `StaleMeansDead`; `SearchExact`; `RateExact`; `SuiteCopies`; `PrunedToKeep`; `LastIsRecent`; `RowsIsolated`; `StatTrue`; `OpenForCause`; `WorseNeverBetter` | 3,619,218, 230 s |
| `alarm_duplicates`, `alarm_link_up`, `alarm_enrichment` | `MCAlarmCorrelator` | one property each, violated: section 5 | seconds |
| `discovery_transition` | `MCDiscovery`, `DiscoveryTransition.cfg` | one property, violated: section 5 | seconds |
| `topology_links` | `MCTopologyBuild`, `TopologyLinks.cfg` | one property, violated: section 5 | seconds |

Times are of two workers. The type invariants of the components are proved (section
4), and each is a conjunct of the inductive invariant it is proved with; no run
spends its time on them.

**Delivery.** No crash, claim, lost reply, trimming or failing handler makes the
group forget an entry it delivered (`NothingForgotten`), nor acknowledge one whose
event no handler finished with (`AckedWasHandled`); deduplication by `event_id`
reaches exactly as far as one start of one process (`OncePerStart`): handlers must
be idempotent across processes, and section 5 shows what happens when one is not.

**Settling.** `EventuallySettled`: each event that can be handled is acknowledged
or trimmed, under the fairness of section 6 and *if* two things hold of the poll
(`PollNotClogged`). The code guarantees neither. `poll_once` claims the oldest
stale entries first, so as many always-failing entries as a batch holds (25 in the
workers) starve everything younger; and it reads new entries only when it claimed
none, so at least now and then a poll must find nothing stale.

**The alarm table.** Handled one at a time the correlator is exact: after a
clear no active alarm, after raises one that counts them all, whatever the
enrichment does in between (`SerialIsExact`). Concurrently, a key has at most as
many raised alarms as there are tasks (`DuplicatesBounded`), a count never
exceeds the raises committed to the row (`NeverOvercounts`), and what an operator
acknowledged or suppressed while nobody was at the row stays so until an operator
decides otherwise (`OperatorDecides`).

**Device status.** The cache decides each announcement once (`AnnouncesOnce`),
whoever rewrites the row, for ids that are no device's too. As long as one replica at a
time is at work on a device and nobody else writes it, the row takes what is reported
(`AnnouncesTransitions`), and of the reports by its id those are announced that bring the
device up, restarts included, but for two cases that the property names: the
replica has written the row past what it remembers, for a report by address, and may then
not announce the next up; or it remembers a status that was refused, and announces an up
that the row was before. Section 5 has both. `AnnouncedRightly` is the two properties.

**Telemetry.** An event never names a row that is not there (`EventsNameRows`, which is
proved and has no run): the bus may lose an event of a committed row, and never
announces one that is not committed. `AlarmFollowsEvaluations`: evaluated one at a time,
and with no operator and no other source at the alarms, samples switch the alarm of each
key as a trigger with hysteresis and the customers' rules would: a key has one alarm if
the last message that the rules gave it raised, by the threshold its evaluation read and the
rules the correlator read, and none otherwise, whatever edits of both, redeliveries,
echoes and failed handlers come in between. It follows the order of the *evaluations*:
since a worker consumes the echo of each evaluation, an old sample is evaluated
again after a newer one even by a single worker, and the alarm follows that. And it follows
the rules: the clear of a message that was raised by another key, before or after an edit,
or by a rule that matches one of the two, leaves the alarm that was raised.

**The collectors.** `PulledOnce`: a file is stored twice only if a note was lost,
*provided* the window holds 2 * `Capacity` - 1 names, where `Capacity` is how many
files the device keeps; with one name less the run fails, because a file that could
not be read at first is pulled after younger ones and pushes their names out. The
200 names of the code therefore suffice for devices that keep about 100 files.
`EventuallyPulled`: whatever else fails, a file that stays on the device is stored.
`Accounted` and `WatchedOnce`, which make up `AccountedOnce`, say the same of the watch path, and name exactly
what may happen to a file: it may be replaced, it may arrive between the read
and the move (then it lies in `processed/` and was never ingested), and it may be
committed without being moved (then it is ingested again, or lies in `failed/`).
`EventuallyMoved`: nothing waits in the watch path for ever.

**Scans.** However scans of the same devices overlap, each of them ends
(`ScansEnd`): by its commit, by a unique address that another inserted, which loses
all it found, or as the victim of a deadlock. `NamesKept`: a scan replaces a name
an operator gave only if he gave it between the scan's read and write of that row.

**Schedules.** `PolicyPolled`: with one shard every device of a policy that stays
enabled is polled again and again, although due policies are not claimed and
whatever fails, dies or is run by hand; section 5 has what happens with two shards.
`SuiteCopies`: racing callers make copies of a default policy, no more than there
are callers. `RateExact`: a rate is of what the interface counted between two
answers, whichever way the counter wrapped, unless the device restarted between
them, the answers overtook each other, or the counter went around once more, which
for a counter of 64 bits, taken for one of 32 when it was small, means that it
counted nearly 2^64. `NewestKept`: however runs of a schedule
overlap, none deletes one of the newest reports, as many as the schedule was ever
asked to keep; `NoneLeftOver`: and when the last of them has pruned, no more are left.
`PrunedToKeep` is both.

**Topology.** `PassesEnd`: however builders get in each other's way, each pass ends,
by its last device or by a row that is refused. Which links there are then is a
matter of section 5.

**Requests and refreshes.** `Budget`: whatever mixes, fails over or is given up,
Redis lets at most the limit through in a window, less the time an answer takes, as
long as members are unique, which the code does not see to (section 5); and the memory
of each process does so by itself, so a client may spend one budget in Redis and
one in each process. `RefusedForCause`: nobody is refused but for that many others,
counting those that were on their way or whose process gave up. `BudgetExact` is both.
`RefreshesLimited`:
no two refreshes of a device at a time in a process, nor sooner after each other than
the debounce, and no more in a minute than the rate, counted at both ends of the minute.

**Records that are read, and written later.** Each of these properties says what is
exact when nobody gets in between, and how far off the record may be otherwise.
`BackupsTrue`: backups are the history of the configuration, and drift is between
what was collected last and promoted last; with overlapping requests at most as many
copies of one configuration follow each other as there are requests. `StatusNoted`: a
row says what the device was told, unless requests crossed or one was not noted.
`SnapshotsBounded`: listings write as many snapshots in the time of the throttle as
run at a time, and a snapshot is followed by fewer older scores than there are
writers. `CustomSurvives`: a starting process resets an administrator's setting only
if it had looked before there was one, and once. `StatTrue`: the counter of a source
says what is stored as long as no two files of it are ingested at a time, and never
more. `LastIsRecent`: what a command says of its last run is what the last one to end
gave, or one that ended while that was under way; the last run is not always the
one, since a session that gets the output it had read before writes nothing.

**Imports.** `RowsIsolated`: between rows each credential has its device, and each row
of a committed import has its device in the inventory, or about to be, but for rows
in error and for hosts that an operator deleted or that a lost import had inserted:
a row that is refused because of an import that is then lost is one of these.

**Commands.** `RequestsAnswered`: requests that hold the connections their own runs
wait for do not wait for ever, because the wait for a connection times out; with no
such timeout the run finds the deadlock.

**Workers.** `StaleMeansDead`: a replica that is up and whose last heartbeat got
through is not flagged, provided its loop goes round in three of the intervals it
announces; when none has been up for that long the worker is flagged, and stays so.

**What a node affects, and scores.** `SearchExact`: the search finds just the nodes within
the limit, each at its distance, in whatever order links come; and in mode `auto`
everything that is, or may be, downstream, whichever way a link is stored.
`WorseNeverBetter`: another or a repeated alarm, a severer one, or an interface that
goes down never makes the score of a service better, through no weights, clamps,
roundings and dependencies, circles among them, as long as no more alarms stand than
are loaded. With more than that a repeated alarm may push one out of the 2000 that
are read, and a score rises.

**What is kept of devices and of those who manage them.** `ShownFresh`: no column of a part
that is shown is older than the part that was in its slot when the earliest collect began
that the last committed one overlapped, although the columns are walked one by one, some
fail, and each collect writes what differs from what *it* had read before its walk; and each part that is
listed has a row. `OpenForCause`: between traps the alarms that are open are those of the
ports that are down, by the rules that held when they went down, but for the alarms that
the rules set adrift: those whose port's next trap went by another key, as the rules
were changed in between or match only one of the two, and those another port cleared. `CatalogueSound`: a dependency is between two
services that are there, and once; a member is of a service that is there, and names
an element that is, unless it was made without one or its device was deleted. `TrailTrue`: no
role is changed without a line that says so, and a line of a committed change says what
happened, unless somebody else was at the user. `RolesStand`: however often roles are
listed, a role has the permissions it was last given, but for the shipped ones that are
locked, or that were given none, and for roles that others changed under a request.

For every property a mutant in the module makes TLC report a violation; the list
is `mutants` in `PROJECT.json`.

## 4. What is proved

The theorems hold for any sets of workers, events, keys, hosts and devices, any
batch size and cap, and any bounds, under the named assumptions of each module
(`ConsumerAssumption`, `AlarmAssumption`, `DiscoveryAssumption`,
`TelemetryAssumption`, `PullAssumption`, ...), which say no more than that bounds
are natural numbers, that a batch has at least one entry and a table one row, that
failing events are events, that each key has a host, that tasks and callers that are
counted are finitely many, that "none" is no value, and that the window of
`PullCollector` is wide enough for the device. Where a property depends on more, the
assumption names it: a request of `RateLimit` reaches Redis within its window
(`Delay < Window`, else what it counts is gone before it is there); the weights of
`ServiceScores` are natural numbers, as one below zero counts as zero, over finitely
many parts and services; and the nodes of `BlastRadius` are finitely many.

| Module | Theorems |
|---|---|
| `EventConsumerProofs` | `TypeCorrect`, `ForgetsNothing`, `AcksOnlyHandled`, `HandlesOncePerStart`, `ImplementsPromise` |
| `AlarmCorrelatorProofs` | `TypeCorrect`, `SerialExact`, `BoundsDuplicates`, `CountsNoMoreThanRaised`, `KeepsOperatorsDecision`, `AlarmsAreOpenForCause` |
| `DiscoveryProofs` | `TypeCorrect`, `AnnouncedOnce`, `AnnouncedTransitions`, `AnnouncedAsReported`, `PersistTypeCorrect`, `OperatorNamesKept` |
| `TelemetryProofs` | `TelemetryTypeCorrect`, `TelemetryEventsNameRows`, `TelemetryAlarmFollows` |
| `LoopProofs` | `PullTypeCorrect`, `PullOnce`, `WatchTypeCorrect`, `WatchAccounted`, `WatchOnce`, `WatchAccountedOnce`, `PolicyTypeCorrect` |
| `LimitProofs` | `RefreshesAreLimited`, `BudgetsAreExact` |
| `OperationProofs` | `SuiteCopiesBounded`, `RatesAreExact`, `ReportTypeCorrect`, `ReportsNewestKept`, `ReportsNoneLeftOver`, `ReportsPrunedToKeep`, `AdminStatusNoted`, `RetentionCustomSurvives`, `IngestStatTrue`, `CommandLastIsRecent`, `ImportRowsIsolated`, `ServicesSound`, `TrailIsTrue`, `RolesStandForAll`, `BackupsAreTrue` |
| `ObservationProofs` | `HeartbeatStaleMeansDead`, `ChassisShownFresh`, `ScoreSnapshotsBounded`, `SearchesAreExact`, `WorseIsNeverBetter` |

Every invariant and every action property that a passing run checks is the property of a
theorem. Each module proves an inductive invariant with lemmas for its actions, and
draws the properties from it. The invariants say more than
the properties because none of these is inductive alone:

- *Delivery.* `AckedWasHandled` needs that a worker about to acknowledge has
  processed the event (`AckPhase`) and that what it remembers had an effect
  (`ProcessedHasEffect`); `OncePerStart` needs a budget: a running worker that does
  not remember an event has an effect of it less than it has starts
  (`EffectBudget`). `NothingForgotten` needs that a read leaves no hole behind:
  lemma `OldestClosed`, an argument about cardinalities.
- *Refinement.* `ImplementsPromise` maps every step to a step of `AtLeastOnce` or
  a stutter: `Publish` to `Post`, `HandleReturns` to `Perform` or a stutter, an
  executed XACK to `Settle`, which is where `AckPhase` is used.
- *Alarms.* `NeverOvercounts` needs that what a task or a consumer read was not
  above the raises committed by then (`TasksKnowRows`, `CopiesKnowRows`);
  `OperatorDecides` that nobody is about to commit to a held row
  (`HeldUnclaimed`). `DuplicatesBounded` is an argument about cardinalities: an
  insert turns a task that counts into a row that counts, and a task may enter
  that state only when there is no row.
- *Discovery.* `AnnouncesOnce` needs that a told id was last seen up
  (`ToldIsUp`); `AnnouncesTransitions` that cache and row agree, unless the row was
  written past the cache or the cache holds a refused status (`CacheAgrees`),
  and that one replica at a time has hold of an undisturbed device (`OneWriter`).
- *Serial handling.* `SerialIsExact` needs a second invariant, `SerialInv`: a key
  that is not mixed has one task or one consumer at it at most (`Alone`), what that
  one has read is still what the rows say (`TasksExact`, `CopiesExact`), and the
  active alarm counts the streak also in between. The lemma `Untouched` says once
  that a step for another key disturbs none of it.
- *Telemetry.* Two layers. `RowsInv`: what a task is at, and what the log names, is
  a committed row. `Agreed`: while nothing is mixed at most one evaluation decides,
  what it found of the alarm is still so (`Settled`), and when none decides a key
  has its alarm exactly if it is due. The rules are any function, so what they
  make of a message is carried from `ReadRules` to the commit. It rests on `EffectIsTrigger`: the rules of
  `evaluate` are the trigger with hysteresis, for every operator, limit, clear value
  and sample.
- *Pulling.* `PullInv` says of the names in the window that no file is so much
  older than one noted before it that the device could not have kept both
  (`Spread`). When a name has left a full window, 2 * `Capacity` - 1 different names
  came after it within that spread, and one of them is so young that the device has
  dropped the file by now: the pigeonhole argument of lemma `HeadIsGone`.
- *Watching.* `WatchInv` says where the version is that the collector has read:
  still in the file (`Apart`), or replaced, and how often it was stored by then
  (`Once`).
- *Scans.* `NamesKept` needs that a scan about to rename a row read a name that is
  not an operator's, or has been overtaken (`Renames`).
- *Schedules.* `SuiteCopies`: copies and callers that will create one are together
  no more than callers, unless there was none. `RateExact` is arithmetic about
  counters modulo their width (`CounterSteps`, `DeltaExact`). `NewestKept` and
  `NoneLeftOver` relate what each run has selected to what others stored since
  (`Old`, `FewUnmarked`, by an injection into the newest stamps).
- *Status and retention.* `AdminInv`: as long as requests have not crossed, the one
  under way has read what the row still says. `RetentionInv`: who found no policy looked
  before any was saved by somebody else, and resets it at most once, so resets and
  callers that may still do so are together no more than callers.
- *Counters of a source.* `IngestInv`: with no overlap the one session at a file has
  read what is stored (`AtFile`); with overlap a session has read no more than that;
  and a session that found no row while there is one is to lose its file, which happens
  to each at most once (`FirstFile`, an argument about cardinalities).
- *Commands.* A session's `base` and `since` belong together: the row says what the
  session has read, or something that was written since. That carries `LastIsRecent`
  through the case in which a session writes nothing.
- *Imports.* `ImportInv`: of each import by itself which rows have a credential and which
  a device (`RowsSound`), and that the hosts of the rows it is through with are
  *somewhere*: in the inventory, inserted by an import, or given up. A commit then only
  has to move them (`KeepsSomewhere`, `TakenBack`).

- *Services.* `CatalogueInv`: a service that was never created is not there (`Unmade`),
  so the cascade of a deletion has nothing to miss, and a request about to write a
  dependency has two different ends (`EndsDiffer`).
- *Accounts.* `TrailInv`: a request that nobody overtook has read what the role still
  is, and its line says so (`LineFits`). `CatalogInv`: what a request was not told of has
  not changed since it read it, and what it was not told is gone is there (`Told`), so a
  listing puts right the rows that it read and no others.
- *Heartbeats.* `BeatInv`: time does not pass a replica by (`OnTime`); between HSET and
  EXPIRE the record is as HSET left it (`LivingFresh`); and of a replica that was heard,
  how late its next stage may be is bounded by both times in the record (`InTime`), which
  no command of another replica moves back (`RecordKeeps`).
- *Chassis.* All collects under way go by the same earliest one (`OneSince`). So a column
  that a collect need not write, as it read the same value, holds that value or one that
  was written since by a collect that goes by the same (`StoredFresh`), and what any
  collect has as its base, from before its walk, is so as well (`GoodBase`).
- *Scores.* A listing that is to write has looked since its own last snapshot
  (`LookedSince`), and what a writer has read is no older than what was there before its
  last one (`ReadSince`). The bounds are injections of snapshots into writers
  (`FewWriters`).
- *Refreshes.* `RefreshInv` says that the window has a place for each start that still
  counts, and a different one (`Placed`): a pruned window is cut in front of what
  counts, so the places move along. With starts of one device apart (`StartsApart`) that
  bounds, by an injection, what a minute holds.
- *Requests.* `RateInv` says of the sorted set in Redis that what a request added and is
  young is there, and that the set outlives it (`Present`, `Outlived`); that each
  member has an owner (`Owned`); and that a request that has removed the old finds none
  but what one that gave up added late (`Fresh`). A bucket in memory holds the times of
  different requests, in order (`MemoryHolds`). The budget, and the others a refusal is
  for, are injections of members and of times into requests.
- *Rules.* `RulesInv` is about the alarms as they will be when the trap under way has
  touched its own (`Touched`), so that it also holds between two writes of one trap.
- *Backups.* `BackupInv` says that there is an assignment of backups to requests such
  that between two like backups of one request there lies a different one (`Collected`).
  In a row of copies each is then another request's. Of requests one after the
  other it says that the rows are the history of the configuration (`History`), and that
  the one under way knows its end (`KnowsRows`).
- *What a node affects.* `RadiusInv`: the queue is ordered by depth and holds two depths
  at most (`Ordered`); each found node is at its distance (`Distant`); and each
  is queued, at the limit, or looked at, with its neighbours found (`Done`). So what is
  no farther than the head of the queue is found (`FoundSoFar`), by induction over
  distances.
- *Comparing scores.* Nothing is to be strengthened but types: the argument is that each part
  of the computation is monotone. After a worse step the alarms of before map one to one
  to alarms of now that weigh no less (`WorseIsHeavier`); sums compare along an
  injection (`TotalsCompare`); and clamps, weighted means and the rounding keep the order
  (`ClampKeeps`, `Quotients`, `RoundKeepsOrder`), for a base and then for a penalty of
  what a service depends on (`BasesWorse`, `PenaltyOrder`).

**Induction.** The library's induction theorems take an operator, which the provers cannot
instantiate. The lemma `LeastNumber` stands in for them: a set of natural numbers that is
not empty has a least one, from `WFMin` and `NatLessThanWellFounded`, which speak of sets
only. A statement about all numbers holds because the set of those it fails for has no least
member (`FoundSoFar`, `SubsetInduction`). A recursive function is a CHOOSE; that there is a
function with its equations is proved in this way first (`RoundsExist`, `SumsToExist`), and
then that it obeys them (`WithinSteps`, `SumTakes`). The operators of the community
modules that take an operator are reasoned about through one of ours that applies them to a
function (`Total`).

Only model-checked are the liveness properties, which with fairness and ENABLED are out of
the prover's reach: `EventuallySettled`, `EventuallyPulled`, `EventuallyMoved`,
`ScansEnd`, `PolicyPolled`, `PassesEnd`, `RequestsAnswered`. `TopologyBuild`, which has no
other property that holds, has therefore no theorem.

## 5. What the code does not do

Five runs end in a violation, each of a sentence of the repository.

- `alarm_duplicates`: `correlator.py:3` and `src/docs/ARCHITECTURE.md:427`
  promise deduplication. Two tasks that handle one key at once both find no active
  alarm and both insert one (`correlator.py:263`); nothing merges them.
- `alarm_link_up`: `correlator.py:3`, "linkUp clears linkDown". `_apply_clear`
  looks for state `active` only (:363), so an acknowledged alarm outlives its
  linkUp.
- `alarm_enrichment`: the docstring of `enrich` says the result is put into
  `raw_varbinds`. Merging a detached alarm (`alarm_enrichment.py:75`) also writes
  back its old state and count, over an acknowledgement, a clear or an occurrence
  committed in the meantime.
- `discovery_transition`: `src/docs/NMS_ARCHITECTURE_EXECUTION_PLAN.md:779`, a
  device that transitions to up is announced. The cache of the process goes before
  the status just read (`consumers.py:304`), so after another replica, or an
  operator, wrote "down", the report that brings the device up is not announced by
  a replica that last saw it up.
- `topology_links`: `src/docs/FUNCTIONAL_MANUAL.md:134-135` and the docstring of
  `build_for_device` (`topology/builder.py:52`) say that neighbours are stored as nodes and
  links. `_upsert_link` (:196) gives the keys of the nodes for the ids the foreign keys
  of `models/topology.py:41-42` refer to: the database refuses the row of every link, the
  device's transaction is rolled back with its nodes, and the error ends the pass
  for the devices after it.

Other sentences of the repository and the code differ without a run of their own,
some because no code is there to be modelled:

- The same transition is missed by one replica alone when a report that names the device
  by its address wrote "down" or "up": it is written (`consumers.py:277-285`) and not
  remembered (:298-300), so it is not announced itself, nor is the next "up" by id if the
  replica remembers "up". And a status that is no status of a device is refused for the row
  (:266) and remembered (:306, :309), so the next "up" is announced though the row was
  up. These are `passed` and "refused" in `AnnouncesTransitions`.
- `kpi/thresholds.py:3-5` has alarms raised and cleared with hysteresis, with customer rules
  applied. A rule that gives raises the severity "clear", or clears another one, makes an
  alarm that is never on, or never off; a rule that gives a key to only one of the two, or
  is edited between them, leaves an alarm that nothing clears (`ReadRules`).
- `src/docs/SCALING.md:271` has the devices split among the replicas of the poller,
  each of which polls its own. The shards share `next_run_at`
  (`monitoring/policies.py:149`): the one that runs a policy first makes it not due for the
  others, and if it is the same one every time, their devices are never polled
  (`DevicesPolled` of `MonitoringPolicies` fails with two shards).
- `rate_limit.py:144`: the member of a request is "unique per call". It is a time and
  the address of an object that is free by the next statement (`UniquePerCall` of
  `RateLimit` fails with two requests of one millisecond).
- `config_ops.py:87`: a configuration is stored "deduplicated by hash". Two requests
  at once compare with the same row and both store it (:107); hence the number of
  requests in `BackupsTrue`.
- `src/docs/NMS_ARCHITECTURE_EXECUTION_PLAN.md:1038`: snapshots are "throttled to one write
  per service per 60s". Looking and writing are two statements (`services_impact.py:42`);
  hence the number of readers in `SnapshotsBounded`.
- `src/docs/NMS_ARCHITECTURE_EXECUTION_PLAN.md:310`: workers are stale when their last run is
  more than three intervals ago. `_run_bulkstats_pull_loop` announces 60 s and sleeps for
  900 by default (`supervisor.py:281`), so it is flagged while it is well: the first
  condition of `StaleMeansDead` does not hold of it.
- `heartbeat.py:90-92`: "a removed worker eventually disappears". When a beat is cut off
  between its fields and its time to live, or only the counter gets through after
  the record has expired, the record has none and stays.
- `src/docs/ACCEPTANCE_TEST_PROCEDURE.md:88` expects a command schedule to run at its time.
  Rows are stored (`api/command_schedules.py`) and run by `run-now` only. Runs that
  overlap may leave `last_status` "ok" next to the `last_error` of another.
- `api/assurance/scoring.py:221` divides by the number of members when their weights add
  up to nothing, and then sums by weight all the same: such a service scores 0
  however well it is (`BaseScore`). `_interface_alarm_match` (:101-108) finds `:1` in a
  correlation key that ends in `:12`; hence alarms that match several interfaces
  (`Reach`). Nothing under `src/` fills the table of interfaces.

- `services.py:257`: "device_id or interface_id required". `create_service` (:187) stores members
  that name neither, and deleting a device leaves its members without one; hence the two
  exceptions in `CatalogueSound`.
- `models/mib.py:11` has the checksum of a MIB "computed at upload time so subsequent tamper
  checks can re-verify the stored file". An upload opens the file of its name for writing
  (`api/mibs.py:189`) and inserts a row of its own: the rows of earlier uploads keep the
  checksums of texts that are no longer stored, also when the later upload fails.
- `snmp/engine.py:134-135` has columns walked separately "so a single failure doesn't poison the
  whole inventory". Of parts, a column whose walk fails is None, and the update of the row
  writes that over what was known (`Written` of `ChassisInventory`).
- `api/settings/security_profile.py:1` calls the profile full; the section of bulkstats is not in it.
- `src/helm/nms-custom/templates/deployments.yaml:129` says the shard of a pod is
  derived from its name. Nothing derives it: `WORKER_SHARD_ID` is 0 in every replica,
  and in the API, so a policy run by hand polls shard 0 only.
- `ensure_default_policy_suite` is to create the defaults "once, without overwriting
  user edits"; a default that was renamed or deleted comes back with the next pass
  (`Remove` and `Look` of `PolicySuite`).
- `src/docs/ARCHITECTURE.md:589` lets the report worker scale freely; each replica
  runs the due schedules, and `ReportSchedules` shows what remains true then. The
  lease in Redis for discovery (:593) has no code.
- `src/docs/NMS_ARCHITECTURE_EXECUTION_PLAN.md:780` has `telemetry.kpi.evaluated`
  published after an evaluation; the group evaluates that event too and publishes
  again, for ever (`PublishEvaluated` of `Telemetry`).
- The docstring of the watch collector says that a file that fails "doesn't vanish
  silently"; in `failed/` it is overwritten by the next file of its name
  (`replaced` in `Accounted`). A move that fails after the commit puts an ingested
  file into `failed/`.
- The rates of `KPIEngine` need a snapshot, and `MonitoringPolicyRunner` makes a new
  engine in every pass: a rate is computed only between policies that are due in
  the same pass, and raw counters are stored otherwise (`NewEngine`).

## 6. Bounds, fairness and abstractions

**Bounds.** `event_delivery` has two workers, two events of which one always
fails, three entries, batches of two, a cap of two and two starts per worker. That is
enough for an entry to be delivered, to be claimed by the second worker while the
first still handles it, to be trimmed while pending or undelivered, for a batch
with a failing entry before a good one, for a repeated `event_id`, and for a crash
at each await; a property that fails needs two workers and at most one
restart. The last start of a worker never crashes, which is what bounds the runs
(`MaxStarts`). `event_liveness` has two entries, which suffice for a failing entry
to precede a good one. `alarm_table` has two tasks, one consumer, two keys of one
host (the consumer may pick an alarm of the same host and another key) and three
events: raise, raise, clear. The runs of section 5 need one key. Symmetry is used in safety runs only.

`discovery` has two replicas, which are symmetric, three reports and one request
for a device (no step reads or writes two of them): any status by its id, the refused among
them, some with a request, a status by its address, and an id that is no device's, with an
address or none.

In `management`, telemetry has one worker and one poll, two rows of three values around a limit,
six thresholds (each operator, with and without a clear value, without automatic
clearing, a clear value on the wrong side, disabled), one echo per row and two
alarms: that is enough for an echo of an older sample after a newer one, for a
redelivery after a restart, for a poll and a worker deciding at once, and for an
edit between them. There are two keys and four sets of rules: none, all messages raise, all
clear, and those of one value, which are raises of some thresholds and clears of others, go
by another key. What follows once something is `mixed` is not explored (`Unmixed`), as
`AlarmFollowsEvaluations` says nothing of it. The chassis has two collects that overlap, one
slot, two columns and two parts, so that a row is made of both; the services are two
with two names, an element that can be deleted and one that cannot, and two requests;
there are three requests at one user with two roles, and two requests at a locked and an open
built-in role with three sets of permissions. In each part of `management` and `operations`
there are the actors it takes for one to
overtake another, and the rows for them to disagree on.

In `loops` a device keeps two files of five and the window has the three names that
suffice; the watch path has a final and a temporary name, three writes, one of them
malformed; two scans share two addresses, the least with which they wait for each
other; two failures at any place. The policy has two replicas, an API process, two
runs, an interval of two ticks, one shard and a failure. Two builders, a worker and a
request, meet at three devices, one of which has a neighbour that is not managed.
Two requests run a command on one device, with one slot and two connections, the
least with which all connections are held by requests whose runs wait for one.

In `operations` there are two collectors and two configurations, up to four rows; two
operators of an interface; two readers and a handler that write snapshots, with two
alarms and two ticks around a throttle of one; two starting processes, two settings,
three saves; two API processes, two addresses, three requests, a limit of one in a
window of three ticks, an answer that takes one, so that a window passes, fails over
and comes back; two targets and seven seconds around a "minute" of three;
two replicas and three failing commands in ten ticks of a heartbeat, long enough
to expire and come back; every graph of three links on four nodes, and a ring of five,
with and without a depth limit and ranks; the counters have the widths 2 and 4
instead of 2^32 and 2^64, and five octets, so that both wrap; three callers create
defaults; a report worker and a request make four runs that keep one, two or all;
two requests run a command on two devices with two outputs, so that a session gets
what it had read; two imports of tables of up to two hosts, in either order, and one
that has a host twice, so that they wait for each other in a circle; three sessions
and four files of a source; four services (in a circle, with shared members, with a
member of no weight, with none), a device and two interfaces, three alarms of which
two are loaded, seven occurrences, so that the count up to five is reached; two ports,
which may share a key, and two rules with two changes, so that one treats a raise and not
its clear. Processes and
addresses of the rate limiter are symmetric.

**Fairness** (`FairSpec`). A running loop goes on and a dead process is
restarted: `supervisor.py:76-100` catches everything but cancellation and polls
again, and the services run under `restart: unless-stopped`
(`src/docker-compose.yml`) or a Kubernetes deployment; hence WF of `Start`, of the
poll's steps and of the worker's next step. Idle time passes: WF of `GrowStale`.
Lost replies, handlers that raise and failing XACKs are outages, not properties of
an entry: of the attempts repeated for ever one succeeds, hence SF of the
successful claim, read, handling and acknowledgement. `Poison` events, whose
handler always raises, are exempt, and publishers, crashes and errors have no
fairness at all.

The supervisor's loops justify the rest in the same way: each pass is followed by a
sleep and another pass, so WF of the steps of the collectors (`Pull`, `Watch`), of
a due policy and of the next step of a run; time passes (`Tick`). Sessions that
wait for a row get it in turn, as the database queues them: SF of `Goes` for a scan.
A builder goes on with the next device or the next pass: WF of `BuildStep`. The wait for a
connection ends after 30 s and a device answers or times out: WF of what goes on for
a request (`ClientGoes`), which may be the timeout.
Failures, crashes, devices, transfer jobs and operators have no fairness;
`MaxFaults` and `MaxMishaps` bound how often something fails, so what is shown to
happen in the end happens after the last failure.

**Deadlock** is checked in the runs of the event consumer, in `management` and in `loops`. In
those of `AlarmCorrelator` and of `DiscoveryConsumer` and in `operations` it is not, as a
behaviour may end at a bound: `MaxEvents` events, or the last tick, row or request.

**Redis.** Claims follow Redis 7 (`redis:7-alpine`, `src/docker-compose.yml:108`):
XAUTOCLAIM drops entries that the stream no longer holds from the pending list, they
count towards COUNT, and at most ten times COUNT entries are looked at. Which
consumer a pending entry belongs to has no influence on anything and is left out.
Every row of the stream is a well-formed envelope, as every publisher makes it.
Redis loses nothing. A graceful stop ends a worker after the step it is at, which is
one of the places where `Crash` ends it.

**Alarms.** Severities, snapshots, texts and columns that only describe are left
out; which of several active alarms of a key a query returns (the newest) is a
choice; `ack` and `clear` of the correlator have the effect of the API calls of
that name. What the enrichment cascades to the device row is left out.

**Discovery.** "down" stands for every status of a device that is not "up"; whether a report
of one over another of these writes the row is a choice (`Writes`). "refused" stands for
every other status. An id that is no device's stands for an unknown one, for one that is no
UUID, and for a device's spelled otherwise, which leads to the row by the address only in the
second case and in the last; the model has both of each. Of the events of other kinds that
the group receives, only those that reach `_maybe_emit_refresh` with an id are kept.

**Telemetry.** One threshold and one device, as each pair has an alarm key of
its own; what other sources do to a key that rules have them share is `OtherRaises`, and
`Operate` closes what they would clear. What rules make of a message is any function of its
kind and of the value its text quotes; what else differs between the messages of a pair
changes with the threshold only, and rules may be edited whenever the threshold is. The retention of rows is left out, and so is `raw` telemetry, which is stored
and not evaluated. Of severities only whether they clear is kept; texts are left out.

**Collectors.** `ingest_file` is one transaction that succeeds, or raises for a
malformed file or a failing database. A file the device is still writing when it is
pulled is read once, as it is, and noted: the model has whole files only.

**Scans.** Of a device the model keeps its name, the one column that both scans and
operators write; a name equal to the address counts as none, as in the code.

**Policies and reports.** Which devices a policy targets, and what a report
contains, are data. Cadences are a choice of when the next run is due.

**Requests, heartbeats, topology.** The rate limiter is the one with the fallback, which is
the default; the one of Redis alone lets everything through when Redis fails. The
clocks of processes and Redis agree, and the commands of a heartbeat take no time. When
the topology is built all devices answer; confidence and protocols of links are left
out there and in `BlastRadius`.

**Scores.** Factors are hundredths and weights are integers, where the code has floats:
a product that is exactly half way may be rounded the other way there. The
breaches of a KPI baseline, which count for the list of interfaces and not for
services, are left out.

## 7. What is not modelled, and the plan

The components with status `not_modelled` in `PROJECT.json` carry their reason. Most
of them are input, output or one transaction each. What could still be modelled:

1. Groups of alarms (`api/assurance/groups.py`), the files of MIBs and the settings' profile:
   requests that read, and write later, as those of section 2 do.
2. That the alarm table, with one task and no operator, implements an abstract
   counter per key; `SerialExact` is the invariant such a refinement would rest on.
3. The loss of Redis: a consumer creates its group once (`consumers.py:103`), so when the
   group is lost every read fails until the process restarts.
4. Theorems about parts that a liveness property rests on and that are safety: that a pass
   of `TopologyBuild` and of `MonitoringPolicies` has ever less to do.

Receivers, the rest of SNMP and SSH access, forwarding, rendering, other CRUD, the
operations assistant, the frontend and the scripts have no state of their own that
outlives a call, or one that a single transaction writes, and are left out for good.
