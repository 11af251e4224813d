# DBClaw: a TLA+ model of monitoring, alerting and the chat agent

DBClaw collects metrics from databases and hosts, turns violations into alerts,
aggregates alerts into events, has a language model diagnose them, notifies
subscribers, draws the samples on a monitor page and lets users talk to an agent
that may run tools. The server is one Python process: asyncio coroutines over
one PostgreSQL database that they share with nothing but READ COMMITTED
transactions between them. The frontend is one page of JavaScript, whose
callbacks interleave with what the server sends.

This directory models the parts whose correctness depends on order: *whether
somebody is told* (from the sample to the message, and back when the metric
recovers), *whether a diagnosis is made once and is recent*, *whether the page
shows what was stored*, and *whether a tool runs only on an approval*.

## 1. Inventory

| Component (source in `src/backend/`) | State | Operations | What is hard | What makes it correct |
|---|---|---|---|---|
| Threshold checker (`services/threshold_checker.py`) | per datasource and level: start of the violation, last trigger (in memory) | `check_thresholds`, `clear_datasource` | levels change between samples, missing values, restarts; boundaries `>` and `>=` | no trigger before the duration, one per cooldown and incident |
| Metric collector (`services/metric_collector.py`) | table `alert_message`, the checker, silences, WebSocket queues | `collect_metrics_for_connection`, `_check_thresholds_and_trigger`, the auto-resolve functions, `_handle_connection_failure` | early returns, swallowed errors, failed collections, manual resolution, deduplication across awaits, a collection by hand beside the scheduled one | a sustained violation has an alert unless there is a reason why not |
| Alerts and events (`services/alert_service.py`, `services/alert_event_service.py`) | tables `alert_message`, `alert_event` | create, acknowledge, resolve, aggregate, auto-resolve | several transactions per operation, stale ORM rows, restarts between commits | no event without alerts, exact counts and severities, one active alert per metric, consistent resolution |
| Notification dispatcher (`services/notification_dispatcher.py`, `services/aggregation_engine.py`, `services/notification_service.py`) | `notified_at`, `alert_delivery_log`, `silence_until`, the locals of a long cycle | one loop every 30 s | batch read long before it is used, targets that fail, calls reported as failed that were received, restart between call and log, cooldowns on three levels | no storms, no recovery before or without an alert, everyone is told in the end |
| Event diagnosis (`services/alert_service.py`) | the diagnosis columns of `alert_event` | `run_sync_diagnosis` before a notification, `trigger_auto_diagnosis` after it, in the background | deduplication over a status that a timeout or a restart leaves behind, results written over escalations, rows loaded a minute earlier | a diagnosis is reused only while it is recent; every event is diagnosed in the end |
| Task manager (`services/task_manager.py`, `app.py`) | registry of tasks, one lock | register, cancel, wait, clean up | the wrappers of the tasks take the same lock | shutdown ends, statuses are true |
| SSH pool (`services/ssh_connection_pool.py`) | connections, locks, back-off per host | acquire, health loop, stop | health loop and stop against acquisitions in flight, cancelled attempts whose thread goes on | no closed connection is handed out; attempts do not overlap |
| Inspections, scheduled tasks, integrations (`services/inspection_service.py`, `scheduled_task_*.py`, `integration_*.py`) | rows with next-run times and run statuses | poll, run, reschedule | overlapping runs, restart during a run | each due run happens once |
| AI and baseline alerts (`services/alert_ai_service.py`, `baseline_service.py`) | confirmation counters, profiles | evaluate, confirm, recover | like the threshold checker, with an unreliable judge | confirmation and cooldown respected |
| Chat session and agent (`routers/chat.py`, `services/chat_orchestration_service.py`, `agent/`) | `PENDING_APPROVALS`, `ACTIVE_STREAM_TASKS`, `ACTIVE_STREAM_STATES` (memory), `chat_message` rows | message, cancel, resolve an approval, clear, delete, the agent loop | three dictionaries and a table that drift apart at cancellation, timeout, clear and restart | no risky tool without a recorded approval; turns are serial and end |
| Monitor page (`src/frontend/js/pages/monitor.js`, `js/utils/websocket.js`, with `routers/monitor_ws.py` and `routers/metrics.py`) | the selection, `_dataVersion`, `_historyRequest`, `_liveMetrics`, charts, cards, `_statuses`; the sockets and timers of the managers | select, pause, resume, refresh, retry, custom range; answers and packets in any order | late answers of an earlier selection, packets that overtake the history, charts that are full, a socket that reconnects after it was let go | the charts show the selection, in order, the newest samples complete; a lost feed is shown |
| Sessions, SQL console, bots, drivers, documents, the other pages; `src/frontend/lib` is vendored | mostly single rows or I/O | | | see `PROJECT.json` for why each is left out |

Interaction: the collector asks the checker, then calls the alert service, which
calls the event service; the dispatcher polls the alert table and writes
`notified_at` and delivery logs; API requests run the same services in other
sessions. The dispatcher runs the diagnosis of an event before it sends its alert and
starts a background one after it. The collector and the integration scheduler
push each stored sample to the WebSocket subscribers of its datasource, where
the monitor page merges it with the history the API returns. The chat router
starts an asyncio task per turn, and a request that answers an approval goes on
with the turn the agent had left. Otherwise nothing is sent between components
except through the tables, the checker's dictionaries and direct calls.

## 2. Modules

### `AlertLifecycle`

The two tables are functions from ids to rows. A *task* is one coroutine with
its session; its record holds the program counter and exactly the values the
code keeps across an await: the alert, the event row as it was loaded, the
status after `db.refresh`. An action is the code between two points where
another session can interfere, that is a SELECT whose result is used later or a
COMMIT:

| Action | Code |
|---|---|
| `Detect` | the deduplication SELECT in `_check_thresholds_and_trigger` |
| `TouchEvent` | `update_active_event_time` |
| `InsertAlert` | `create_alert` up to its first commit |
| `FindEvent`, `JoinEvent`, `OpenEvent` | `process_new_alert`, `_add_alert_to_event`, `_create_new_event`, with the link and the second commit |
| `ResolveAlert`, `CheckEvent`, `CloseEvent` | `resolve_alert` and `check_and_auto_resolve_event` |
| `AcknowledgeAlert`, `AcknowledgeEvent`, `ResolveEvent` | the API operations of that name |
| `Crash` | the process stops anywhere; tables stay, coroutines are gone |

`Flush` models the unit of work of SQLAlchemy, which the lost updates depend
on: a column is written only if its new value differs from the *loaded* one, so
a stale session may overwrite one column of a row and leave another alone.

There may be any number of collectors: the scheduled collection of a datasource
and `POST /metrics/{id}/refresh` share global semaphores only, so both may be
between any two of these steps. `raced` and `overlapped` are history variables
that record when two coroutines were about to raise the same alert and when two
were adding alerts to the same event; what the properties say of counts,
severities and deduplication they say of everything else without exception.

### `ThresholdChecker`

The two dictionaries of the checker for one metric with several levels and for
the expression rule, which differs only in having a key of its own. `incident`
and `firedAt` are history variables. Evaluating an expression is a Boolean
input (an expression that raises counts as false, as in the code).

### `ThresholdAlerting`

Extends `ThresholdChecker` by what a collection does with its answer: recovery
below the lowest threshold, deduplication, the KeyError of expression violations
(the collection fails after the checker has triggered), silences, the connection
alert and the failure path, which asks the checker only to learn what has
recovered. The functions of a collection swallow the errors of what they call, so
resolving an alert and raising one may each come to nothing after the checker has
counted its trigger; and a collection may return before it asks the checker
(`NotChecked`). The histories `lost` and `dismissed` remember which levels'
triggers came to nothing and whether a user resolved the incident's last alert. A
collection is atomic here; the interleavings within one are those of
`AlertLifecycle`.

### `NotificationDispatcher` and `AlertNotices`

One record `cycle` holds the locals of `_process_pending_alerts` and
`_process_recovery_notifications`; the two loops have the same shape and share
actions, with `mode` telling them apart. `Call` is the external call. Its outcome
is one of three: it succeeds, it fails, or it is reported as failed although the
target receives the message ("unsure"): `execute_notification` gives up after 60
seconds and a webhook after 30, when an SMTP thread still runs or the other side
has read the request. `LogAlert` and `LogRecovery` are the later commit of the
delivery log, with what was reported. Raising, linking, acknowledging, resolving,
silencing and deleting happen at any point of the cycle. Times are ages that stop
growing just past the last comparison the code makes, so time never ends and
liveness can be stated.

History variables relate what was received to what is on record: `heard` and
`cured` say what a target has received of an alert and of its recovery, whatever
was reported; `excused` holds the alerts whose last delivery to a target is not on
record as sent (or was sent before the alert had its event), `doubted` the
recoveries that are not. A message that arrives after its call was given up is
dated by the call.

`AlertNotices` is what the receivers are promised, as an abstract specification
without cycles, batches, tables or time: a target is told of an alert or of its
recovery (`Tell`, `Recover`), and the sender either knows, so that the delivery
then comes on record or is lost with the process (`Record`, `Lose`), or never
learns of it. The property `Notifies` maps the histories to who was told and who
was told of the end, the delivery between `Call` and its log to `open`, and
`doubted` to `doubt`, and says that the dispatcher implements the promise. It adds
to the single properties that notices known to be out are recorded one at a time
and go to what matches, and that the recovery any target receives is the last
notice of the alert for all of them. In the run every subscription matches the
alert; that filters are respected rests on the proof.

### `SshConnectionPool`

One host: its pooled connection, its asyncio lock (holder and waiters, served in
order), the users inside `get_connection` or `get_collector_connection`, the
health loop and `stop()`. An action is the code between two awaits; the loop
copies the dictionary and examines the copy later, because other hosts may come
first.

| Action | Code |
|---|---|
| `Request`, `Reuse`, `Replace`, `Created`, `CreateFailed` | `_acquire_connection` up to the lock, and under it: reuse, closing the unhealthy one with or without a back-off error, outcome of the attempt |
| `Release` | the end of `_yield_connection`, with or without an exception |
| `Cancel`, `AbandonedEnds` | cancellation of a coroutine at the lock or in the attempt, and the end of the thread it may leave behind |
| `CopyConnections`, `Examine`, `CloseExpired`, `Probe` | `_health_check_loop` |
| `StopLoop`, `CloseAll` | `stop()` before and after it has awaited the loop |
| `Break` | the remote side or the network ends a transport |

The failure count and its exponent are kept as the delay they amount to: the
code's `min(max, base * 2 ** (n - 1))` doubles with each failure up to the
maximum (its cap of 30 on the exponent lies far beyond it). Ages and connection
ids are forgotten once nothing can read them, so time and the number of
connections made are unbounded. `threads` counts the executor threads that are
connecting and `abandoned` those among them whose coroutine was cancelled: the
lock is free then, and nobody takes, closes or records what the thread brings.

### `EventDiagnosis`

The diagnosis columns of the events of one identity (datasource, alert type,
metric), with the dispatcher and the background tasks that write them. A task
keeps the *copy* of the row it has loaded, and `Written` models what the flush
of SQLAlchemy does with it: a column is written only if its new value differs
from the loaded one. The model that answers is nondeterministic (a text
with or without a summary in it, an empty text, a failure, 60 seconds without an
answer). `is_diagnosis_refresh_needed`
and its reason are one value, "no", "needed" or "recovered".

| Action | Code |
|---|---|
| `Attempt` | the dispatcher takes an alert whose event needs a diagnosis |
| `Load` | `trigger_auto_diagnosis` reads the row, and ends at a cached diagnosis |
| `Reuse`, `NothingRecent` | `_find_recent_diagnosis`, `_reuse_diagnosis_from_event` |
| `Wait`, `NothingInProgress` | `_find_in_progress_diagnosis`, with the status "pending" |
| `Mark` | the commit that announces the diagnosis ("in_progress") |
| `SyncAnswer`, `SyncGivenUp` | what follows in `run_sync_diagnosis`: the answer, the timeout or an exception |
| `BackgroundAnswer`, `BackgroundFails` | `_run_auto_diagnosis` |
| `Sent`, `NextAlert` | the dispatcher after the notification |
| `Refresh` | an escalation or a recovery asks for a diagnosis (`apply_event_diagnosis_lifecycle`) |
| `Tick`, `Crash` | time and restarts |

Times are ages. The window is minutes long, so `Tick` happens while models
answer and alerts are sent, and not from one statement to the next. Left out:
deleted datasources, the stale recheck (it never gets past the check of the
cached diagnosis), and the row as a later alert of the same dispatcher cycle
meets it.

### `ChatSession` and `ChatApproval`

`ChatApproval` is an abstract specification: requests are asked, answers are
given, and a tool runs on an approved answer that no tool has run on (`Ask`,
`Give`, `Run`). `ChatSession` is the code of one session, and the property
`Approved` says, through `INSTANCE ChatApproval WITH ...`, that it implements
the promise; `chat_message` rows stand for what was asked and answered. A task
is the asyncio task of a turn or of a request that answers an approval.

| Action | Code |
|---|---|
| `Message`, `Cancel` | `chat_websocket`; check and registration have no await between them |
| `Start`, `Prepare`, `Handle`, `Close` | `_run_stream`: its first step, the commit of the message, the handlers of its exceptions, its finally |
| `Talk`, `Finish`, `Timeout`, `Fail` | `process_stream_events` and its limit of 600 seconds |
| `Ask`, `StoreAsk` | `_store_approval_request` before and after its commit |
| `Resolve`, `Lookup`, `Remember`, `CommitAnswer`, `Resolved` | `resolve_chat_approval`, `resolve_pending_approval`, `_load_pending_approval_from_db` |
| `Run`, `ToolReturns` | `execute_skill_call` and what follows it |
| `Clear`, `ClearCommit` | `clear_session_messages` and `delete_session` |
| `Crash` | a restart: the rows stay |

### `WSManager` and `MonitorPage`

`WSManager` is `js/utils/websocket.js`: the methods are functions on the
sequence of managers a page has ever made (`New`, `Disconnect`), the socket's
events and the timer are actions (`Opened`, `Closed`, `Reconnect`, `Received`).
A manager that was let go may still have a timer, and then connects again.

`MonitorPage` extends it by the page and the two server sides the page meets.
A sample is its place in the sequence of stored samples; a call of the API is a
record of what was asked and when, and may return in any order, with whatever
the server could have read since (`Answers`), or fail.

| Action | Code |
|---|---|
| `Render`, `Cleanup`, `SelectDatasource`, `SelectTimeRange`, `PauseRealtime`, `ResumeRealtime`, `Refresh`, `RetryRefresh`, `Retry`, `LoadCustomRange` | the user's operations, each up to its first await, with `_reloadData`, `_startMonitoring`, `_stopMonitoring` and `_loadData` as operators; the retry button clicks refresh after a failed refresh and loads the data otherwise |
| `LatestReturns`, `HistoryReturns`, `CustomReturns`, `RefreshReturns` | the code after the await of `_loadLatestData`, `_loadHistory`, `_loadCustomRange`, and the refresh handler |
| `SocketOpens`, `SocketCloses`, `TimerFires`, `PacketArrives` | the socket's callbacks with the page's handlers |
| `Collect` | `collect_metrics_for_connection` or the integration scheduler stores a sample and pushes it |

`Listening(m)` is the test with which each handler drops what a stale manager
says. The collector pushes a sample with a later time than it stores, the
integration scheduler with the stored one; the model keeps that difference.
`Merged` is the map of snapshots of `_loadHistory` and `ByTime` its sort; no two
points have the same time unless they are the same, so that the keys of the map
lose nothing.

Charts are bounded: `Capacity` is `_setChartMaxPoints`, which leaves some room
(`Margin`) above the last history, and `LastOf` what `ChartPanel.update` and
`_batchUpdateCharts` keep of the points. `get_metrics` answers from the newest
samples whatever range is asked for (`Snapshots`); both bounds are `MaxPoints`, as
both are 10000 in the code.

### MC modules

`MCAlertLifecycle`, `MCThresholdAlerting`, `MCNotificationDispatcher`,
`MCSshConnectionPool` and `MCMonitorPage` extend these with the functions a
configuration needs for its constants, and with symmetry sets. `ThresholdChecker`
is checked inside `ThresholdAlerting`, `WSManager` inside `MonitorPage`,
`ChatApproval` as a property of `ChatSession` and `AlertNotices` as one of
`NotificationDispatcher`, each by a module that drives it with everything its
user can do.

## 3. What the runs check

| Run | Instance | Result |
|---|---|---|
| `alerts` | 2 collectors of one metric, 1 resolving request, 3 alerts, 2 events, 2 severities, one operation of a user or restart, 1 clock tick | holds: types; no event without an alert of its key; `alert_count` and severity are those of the event's alerts unless two collectors were adding to it at once, and even then not too high; one active alert per metric and type unless two collectors looked for it before either inserted |
| `alerts_resolve_event` | 1 collector, users resolving events | **violated**: a resolved event with an open alert |
| `alerting` | 2 levels (thresholds 1 and 3, values 0..4), durations 2 and 1, cooldown 3, both kinds of rules, with failed and unchecked collections, swallowed errors, silences, manual resolution, restarts and rule changes, 4 ticks | holds: types; no trigger before the duration; one per cooldown within an incident; only a trigger of the same level less than a cooldown ago withholds the alert of a sustained violation, and only if the level has not triggered in this incident, its last trigger came to nothing or a user resolved the alert |
| `dispatch_storm` | 2 alerts of one event with rising severity, one subscription with 2 targets, silences, all outcomes of a call, restarts | holds: types; within the cooldown a target hears only of rising severities, unless the earlier delivery is not on record |
| `dispatch_recovery` | 1 alert, 2 subscriptions, one with time ranges, one target for the alert and two for the recovery, all outcomes of a call, acknowledge, resolve, delete, restart | holds: one recovery per target and alert unless the first is not on record, only to subscriptions that received the alert, no alert after its recovery; the dispatcher implements `AlertNotices` |
| `dispatch_live` | 1 alert, a network probe alert, 2 subscriptions, resolve | holds under fairness: every matching subscription is told of an alert that stays active and is not withheld |
| `ssh_pool` | 1 collector, 1 request, the health loop, 2 connections, idle time 1, back-off 1 to 2, cancellation, 1 thread left behind, broken transports, stop | holds: types; nothing the pool has closed is handed out; one attempt at a time besides the threads of cancelled ones; collectors wait out the whole delay; under fairness every waiting call returns |
| `monitor` | 2 datasources, one of them an integration, 2 samples, charts of 1 to 2 points, 3 calls in flight, 2 loads, 3 changes of the selection (leaving the page and coming back included), 2 managers with one reconnection each, 1 failure, one custom range | holds: types; the charts hold the selected datasource only, in order, lose a sample of the window only when full and only for newer ones, and show one of an integration once; the cards agree with them; a lost feed is shown |
| `chat` | 1 approval, 3 turns or answers, cancellation, timeout, clear, delete, restarts | holds: types; turns are serial until an approval is answered; the session implements `ChatApproval`; under fairness every turn ends |
| `chat_busy` | the same | **violated**: a message starts a second turn beside a running one |
| `diagnosis` | 2 like events, the dispatcher and one background task, answers with and without a summary, window 1, 1 escalation, recovery or restart | holds: types; a diagnosis is reused only within the window of the answer it is from |
| `diagnosis_live` | 2 like events, the dispatcher, 2 escalations, recoveries or restarts | holds under fairness: every event is diagnosed at last |

The two violated properties quote sentences of the repository that the code
contradicts; the findings in `PROJECT.json` say which. Every property of a
passing run has a mutant of the modelled code that breaks it.

Why the bounds are enough. Two collectors that add an alert each to an event a
third alert has opened, beside one request, are what every lost update, stale read
and wrong aggregation of `AlertLifecycle` needs, with a second event for what comes
after the aggregation window; the invariants that are proved (section 5) do not
depend on the bounds at all. Thresholds lie on odd
values so that a value can be below, on, between and above them; the duration of
the milder level exceeds that of the severer one as in the default rules; the
clock reaches the shorter duration plus the cooldown, so that a level can
trigger twice. A dispatcher instance has the fewest alerts, subscriptions and
targets with which one can fail while the other succeeds. The SSH pool has three
parties at its lock, two connections, one old and one new, and one thread that a
cancellation has left behind. On the monitor
page two samples, two loads and two managers let each of history, packet,
latest sample and reconnection be late with respect to each other, on the same
or on the other datasource; a chart of one point has to drop it for the next
packet, and one of two points is as full as it can be. Two samples do not exceed the limit of a query, and
one failure neither exhausts the reconnections nor breaks both a refresh and the
feed, which the retry button then starts again; what is said of those cases is
proved for any bounds. Three tasks of a chat session are a turn that asks,
an answer, and either a second answer or a message beside it. Two events of one
identity can hand a diagnosis back and forth and wait for each other;
`diagnosis_live` has no background task, because one that ends without a result
leaves the row as a restart does, and one that succeeds is the answer the
property waits for.

Ages saturate in the dispatcher, the pool and the diagnosis, so their runs are
unbounded in time. The bounds on counters are `MaxTime`, `MaxValue`, `MaxSilence`,
`MaxTasks`, `MaxChanges` (what users do and restarts, in `AlertLifecycle` and
`EventDiagnosis`), `MaxAbandoned`, and of `MonitorPage` and `WSManager`
`MaxSamples`, `MaxCalls`, `MaxRequests`, `MaxVersions`, `MaxManagers`, `MaxFaults`
and `MaxReconnectAttempts`, the last of which is the code's own, as `MaxPoints` is.
Deadlock is checked except where a run ends by itself because such a bound is used
up: the two alert runs, `monitor`, `chat`, `chat_busy` and the two diagnosis runs.

### Exceptions and weaknesses

Exceptions stated inside the properties are real and reachable, and each is as
narrow as the code allows; most are kept by a history variable.

* `AlertCountExact` and `SeverityIsHighest` excuse events that two coroutines were
  adding an alert to at once (`overlapped`), and `OneActiveAlertPerMetric` metrics
  for which two had made the deduplication SELECT before either inserted (`raced`).
  `ResolvedEventHasNoOpenAlert`, the violated one, needs neither.
* `NoStorm` and `OneRecoveryPerAlert` excuse deliveries that are not on record:
  their log was lost in a restart, or the call was reported as failed although the
  message was received. Those are repeated with the next cycles: delivery is at
  least once. `NoStorm` also excuses alerts that the dispatcher read between insert
  and link: they carry no `event_id` and bypass the event's cooldown, as the policy
  document intends for alerts without event.
* `WithheldHasReason` lists its reasons: a cooldown left over from an earlier
  incident, a trigger that came to nothing, a user. The first two are the
  weaknesses named below.
* `OneAttempt` counts the threads that cancellations have left behind beside the
  one attempt.
* `NoLostSample` lets full charts drop their oldest points.
* `ReuseIsRecent` excuses texts that a late write has stamped as new, and `OneTurn`
  sessions in which an approval has been answered.

The following were met while modelling. They are described here and not listed
as findings, because they need an unlikely schedule or because what contradicts
them is too weak a statement, or because a run of its own would show nothing that
the line does not. (`POLICY` is `docs/ALERT_NOTIFICATION_POLICY_DESIGN.md`.)

Alerts and events:

* a collection started by hand (`routers/metrics.py:531`) beside the scheduled one
  of the same datasource may lose an increment of `alert_count` and the higher
  severity of an event, and may raise the same alert twice: the deduplication is a
  SELECT before an insert, with awaits in between and no constraint in the table;
* an alert resolved between its insert and its link leaves an open event all of
  whose alerts are resolved;
* with two levels, a level can trigger although some samples since its start
  did not exceed it, because a lower match neither continues nor clears it: the
  duration is proved for the incident, not for the level;
* the last trigger of a level whose start another level's trigger dropped
  survives the recovery, so its cooldown reaches into the next incident;
* a more severe trigger raises no alert while a milder alert of the metric is
  open: the deduplication ignores the severity, as POLICY:129 has it, so the
  escalation of one metric that POLICY:530 to 532 describe cannot come about;
* a failed collection, or an error that a collection swallows, consumes a trigger
  and raises no alert (`metric_collector.py:497`), so the alert that POLICY:513 to
  514 announce waits for the cooldown;
* a violation of an expression rule has no key for the metric, so the collection
  raises KeyError (`metric_collector.py:669`) and the trigger never becomes an
  alert (POLICY:146).

Notifications:

* the aggregation script of a subscription is never run
  (`aggregation_engine.py:238`; POLICY:337 and 344);
* a call reported as failed by a timeout (`integration_executor.py:239`) is logged
  as failed and repeated, although the message may have been received: neither the
  cooldown nor the single recovery holds for such a target;
* a target whose recovery failed is given up once another target of the
  subscription has accepted it (`alert_service.py:1246`; POLICY:518);
* clearing an expired silence wipes out one that a user sets between the read
  and the write.

SSH pool:

* an attempt that is cancelled while its thread connects frees the lock: the next
  attempt runs beside that thread, whose client nobody closes
  (`ssh_connection_pool.py:224` catches `Exception`, which a cancellation is not)
  and whose failure is not recorded;
* the health loop may close an idle connection that has been handed out again
  between its copy and the lock (`ssh_connection_pool.py:268`): the user's
  command fails, and the pool makes a new connection;
* a connection that replaced an expired one while the health loop waited for
  the lock is removed from the pool without being closed, and an attempt in
  flight during `stop()` puts its connection into the stopped pool;
* one user's exception marks the shared connection unhealthy, and the next user
  to come closes it under all others.

Diagnosis:

* an escalation during a running diagnosis is lost: at its end the dispatcher
  writes `is_diagnosis_refresh_needed = False` over it (POLICY:233);
* the stale recheck of POLICY:235 never gets past the check of the cached
  diagnosis (`alert_service.py:1584` and 1288);
* an empty answer of the model leaves the row of a background diagnosis "in
  progress" for good, and makes the synchronous one erase an existing summary,
  or stamp one that was saved meanwhile as new;
* a text from which no summary can be extracted completes a diagnosis and erases
  the summary that was there (`alert_service.py:1393`), which `Diagnosed` does not
  see;
* a "pending" event is not completed by the diagnosis it waits for: it needs
  another alert of its own;
* two like events can both start, each having looked before the other's commit.

Monitor page:

* when a newer load supersedes that of a custom range, the page goes back to
  live mode while the range stays on the charts (`monitor.js:944`; compare
  `tests/e2e/monitor.spec.js:255`);
* after a change of datasource the cards show the old one's values until the
  new one's arrive: `CardAgrees` holds of cards that have a time;
* a sample of a direct collection can be drawn twice, since its packet carries
  a later time than its row (`metric_collector.py:270`; the comment at
  `monitor.js:990`), which is why `IntegratedShownOnce` is about integrations;
* `get_metrics` applies its limit before the range (`routers/metrics.py:272` to
  283), so a dense history loses its old end, and a custom range in the past may
  be shown as empty although it has samples;
* the room a chart has is set by the last history (`monitor.js:86`): if samples come
  faster than they did when it was loaded, the oldest of the window leave the charts.

Chat session:

* the row of a request stays "pending", so that it can be answered again after
  a restart or while a first answer is worked on; each answer is recorded, and
  each approved one runs the tool once. `Approved` counts answers, not requests: a
  request approved twice runs its tool twice;
* a clear drops the pending approvals before it commits, and an answer in
  between loads the request again: the tool of a cleared approval still runs; one
  that had read the row before puts the request back among the pending ones;
* a cancelled answer emits no "done", nor does a turn that is cancelled a second
  time while its handler writes to the sockets (`chat.py:609`);
* the "done" of a turn is emitted before its registration is removed, so that a
  quick next message is rejected.

## 4. Fairness

`dispatch_live` assumes weak fairness of the dispatcher's steps (an asyncio loop
runs every ready coroutine, and `start_notification_dispatcher` is an endless
loop that survives every exception), weak fairness of time, and strong fairness
of a successful call per alert and target: a target that is called for an alert
again and again accepts it at last. Without the last, a target that is down for
good is never told, as in the code. Nothing is assumed of users, collectors or
the datasource: the alert may be resolved, and the property then has nothing to
say.

`ssh_pool` assumes weak fairness of each user's steps under the lock and of the
health loop's closing step. The event loop runs every ready coroutine, and an
attempt ends by itself: paramiko is given timeouts of ten seconds for the
connection, the banner and the authentication. Nothing is assumed of users that
hold a connection, of cancellation, of the network or of `stop()`; the lock's
own first-come order, asyncio's, is part of the model.

`chat` assumes weak fairness, per task, of what it does next when nothing of the
agent is involved (the database answers or raises, and a tool has a timeout of
its own in `skills/executor.py`) and of the limit of 600 seconds. Nothing is
assumed of the model, which may talk for ever, of users or of cancellation.

`diagnosis_live` assumes weak fairness of the steps of a diagnosis and of its
end (60 seconds, an exception or an answer), strong fairness of time, and two
things of the world: an event that needs a diagnosis gets alerts to notify again
and again (strong fairness of `Attempt`), and the model that is asked for it
again and again answers at last (strong fairness of `Answered`). Without the
first a pending event waits for ever, as in the code.

## 5. What is proved

TLAPS proves the following for every value of the constants, under the named
assumptions in the modules, which TLC evaluates in every run:
`ConstantsAssumption` (disjoint task sets, positive severities, finite alert
ids), `CheckerAssumption`, `AlertingAssumption`, `DispatcherAssumption` (targets
belong to one subscription each), `PoolAssumption`, `ReconnectAssumption`,
`MonitorAssumption`, `ChatAssumption` and `DiagnosisAssumption`.

`AlertLifecycleProofs`
* `TypeCorrect`: `TypeOK`.
* `EventsHaveAlerts`: `EventNeverEmpty`, for any number of collectors, requests,
  users and restarts. The invariant is not inductive: a task between insert and
  link must still own its alert. The strengthening says that the alert of a task
  at `find`, `join` or `open` exists, is not linked and is no other task's, and
  that the event a task is about to write exists and has the alert's key.
* `AggregationExact`, `CountsAreExact`: `SeverityIsHighest` and `AlertCountExact`,
  for any number of collectors. The strengthening (`LoadedFresh`) relates the row a
  collector has loaded to the table: users change status and end time only, so as
  long as no other collector is adding to the event, count and severity of the
  loaded row are those of the table; two that are have made the event overlapped.
* `DeduplicationSuffices`: `OneActiveAlertPerMetric`, for any number of collectors.
  What is needed (`SelectHolds`) is that the answer of the deduplication SELECT still
  holds at the insert, unless another coroutine has been given the same answer.

`ThresholdCheckerProofs`
* `CheckerTyped`, `TriggersWait`, `TriggersAreApart`: the invariants of the
  checker for any levels, thresholds, durations and cooldown. `Consistent` ties
  the dictionaries to the history: a tracked start lies within the incident, and
  a trigger of the incident is still remembered as the last one.

`ThresholdAlertingProofs`
* `OnlyCooldownWithholds`: `OnlyCooldownWithholdsAlert`. The property speaks of
  a history of samples, the checker of dictionaries; the strengthening
  `RunTracked` ties them: the level of the current run of samples is tracked by
  the checker, and since no later than the run began.
* `AlertsAreMissedForAReason`: `WithheldHasReason`. The strengthening
  `TriggersAreAnswered` is that a trigger of the incident which did not come to
  nothing has left an alert or a user has resolved it; the hard part is that an alert
  is resolved by the collector only when no level is exceeded, which ends the
  incident.

  Every step of a collector, user or restart is a step of the checker or leaves it
  alone (the lemma `AlertingStep`), so the theorems about the checker hold here too.

`NotificationDispatcherProofs`
* `DispatcherTyped`, `RecoveriesGoToReceivers`, `RecoveriesAreSingle`,
  `NothingAfterRecovery`, `NoStorms`: the types and all safety properties of the
  dispatcher, for any alerts, events, subscriptions, targets and cooldowns. The
  invariant has a part for the tables (`DataOK`), for the locals of a cycle
  (`CycleInv`), and for what each history says of the log: whoever has received
  an alert or a recovery is logged as having received it, no earlier than it
  was, or the dispatcher is just about to log it, or the delivery is one of those
  that never came on record, by a restart or by a call reported as failed
  (`ReceivedInv`, `RecoveryInv`, `ActiveInv`, `StormInv`).
* `NoticesAreKept`: `NotificationDispatcher` implements `AlertNotices`. Internal
  steps of a cycle map to `Record` or a stutter, a call to `Tell` or `Recover`, a
  restart to `Lose`, time and users to a stutter. A call is the only step that
  needs the invariant, each part for one guard of the promise: `ActiveInv` for
  what must not be told any more, `ReceivedInv` for the alert before its
  recovery, `RecoveryInv` for its being the first that can be on record, `MatchInv` for the
  filters.

`SshConnectionPoolProofs`
* `PoolTyped`, `HandsOutOpenConnections`, `AttemptsAreSerial`,
  `BackoffRespected`: types and safety of the pool, for any number of users and
  connections. The invariant adds that whoever is connecting holds the lock, that the
  threads are those of the cancelled and one for whoever is connecting, and
  that what remains of the back-off plus the time since the last failure is at
  least the delay, which is what makes a collector wait that only reads the
  remaining time.

`MonitorPageProofs`: all the properties of the run `monitor`, for any
datasources, window, ranges, number of samples, calls, managers and
reconnections. None of them is inductive; `PageInv` is, and has one part for
each place where something can be late:
* `FeedInv`: handlers ignore every manager but the page's own of the current
  version, so it says that a live page has a manager, that it is of the
  selection and the version shown, and therefore heard (`LossIsShown`).
* `InboxesTrue`: what waits in a socket, of a manager let go as well, is of the
  datasource in its URL, so that what `Listening` lets through is of the
  selection.
* `CallsInv`: no call is newer than the counters of the page, one load of the
  history has each number, and at most one refresh is out for the version shown.
  The last is what bounds `request` in `PageTyped`.
* `ChartInv`, `CardInv`: the live feed and the charts hold samples of the
  selection, each at its time, the charts in order up to `chartTime`, which the
  cards have reached (`ChartIsOfSelected`, `ChartIsOrdered`, `CardsAgree`,
  `IntegratedOnce`). They hold of a page that is not mounted too.
* `PendingKeeps`: what the charts show of the window was stored when the newest
  load was asked for, or came by the socket since then and is in the live feed. A
  load that comes back is the newest (`Fresh`), and its answer has all that was
  stored when it was asked for and is in the window, up to the limit of the query
  (`AnswerComplete`). So what the merge lacks was cut off by that limit or by the
  chart's, which take the oldest of a sequence in order (`NewestAre`), and the charts
  are full: this is `NoSampleIsLost`. For packets the case is easier, but for one
  that is drawn beside the stored sample it repeats (`PushedOrdered`).
* `ByTimeOrders` is the lemma about the merge: points of distinct times can be
  put in the order of their times, all of them and nothing else. The existence
  is an induction on their number, which is done here as a least counterexample
  (`WFMin` of the library), a set-theoretic form the provers can use.

`ChatSessionProofs`
* `TypeCorrect`: `TypeOK`.
* `ApprovedHolds`: `ChatSession` implements `ChatApproval`. Initial states map to
  initial states and every step to a step or a stutter; needed are that a task
  about to answer has a request on record (`TaskInv`) and that what a clear is
  about to delete was asked (`DoomedInv`).
* `OneTurnHolds`: `OneTurn`, from the invariant `TurnInv`.

`EventDiagnosisProofs`
* `DiagnosisTyped`, `ReusedInTime`: `TypeOK` and `ReuseIsRecent`, for any number
  of events, background tasks and restarts. The invariant (`AgeInv`) is that a
  text is as old as the completion time beside it says, unless a late write has
  stamped it.

Every invariant and every action property that a passing run checks is a theorem.
Only model-checked: liveness (`EveryoneIsTold`, `AcquireReturns`, `TurnEnds`,
`Diagnosed`), which with its fairness and ENABLED is out of the prover's reach.

## 6. What is not modelled

Wording, titles, locales and rendered payloads; the content of diagnoses and of
conversations; the time range arithmetic of subscriptions (a matching
subscription with ranges may or may not be in range); severity filters as such
(`Matches` says who passes them); integration code (its outcome is one of `Call`'s
three); a
second dispatcher (there is one per process). The identity map of the
dispatcher's session may serve it an older `silence_until` than the table has
within one cycle; the model reads the table.

On the monitor page: the health banner and the network rates, which follow the
pattern of the cards; a chart library that fails to load; a subscriber queue
that is full; the limit of 10000 on the live feed kept for a load in flight; charts
of values that only some samples have; a manual collection that overlaps a scheduled
one of the same datasource. In the chat session: sockets and what they carry, the records of
diagnostic sessions, the skills.

The background task manager is left out on purpose: it wraps asyncio tasks in a
registry, and the one path on which its lock and its wrappers could meet, the
replacement of a running task, has no caller. (A task cancelled before its first
step does keep the status "running".) `mark_connection_unhealthy` of the SSH
pool has no caller either.

Almost nine tenths of the repository's JavaScript are vendored under
`frontend/lib` (editors, syntax highlighting, charts), which is no part of this
program's logic. The map therefore covers a small share of the repository, and
would even with every component modelled. Components without a module are
listed with reasons in `PROJECT.json`.

## 7. Plan

1. Done: the path from sample to message, the SSH pool, the diagnosis of events,
   the monitor page with its socket manager, the chat session with its
   approvals, and the proofs above.
2. `ScheduledTasks` and `Inspections`: due runs against edits and restarts.
3. Baseline and AI branches of the collector, the network probe and the
   semaphores, as extensions of `ThresholdAlerting`.
4. The single-page router and the diagnosis page of the frontend, whose socket
   and stream handling resemble the monitor page.
5. Composition: `AlertLifecycle` with the dispatcher's reads replaced by the
   real tables, shown to implement `AlertNotices` extended with the events.
6. Proofs: the refinement of 5, and the theorems that a composition
   adds to those of its parts.
