--------------------------- MODULE AlertLifecycle ---------------------------
(* Alerts and the events that aggregate them: AlertService.create_alert,
   acknowledge_alert and resolve_alert, AlertEventService, and the
   detect-and-deduplicate step of the metric collector that calls them.

   The two tables are functions from row ids to rows; an id whose status is
   "none" has no row yet.  A task is one coroutine with one database session.
   Every action is the part of a coroutine between two points at which another
   session can change what it has read or see what it has written: a SELECT
   whose result is used later, or a COMMIT.  PostgreSQL runs READ COMMITTED
   and SQLAlchemy writes only the columns whose new value differs from the
   loaded one, so a task keeps the row it loaded and its commit leaves the
   other columns as they are in the table by then. *)
EXTENDS Integers, FiniteSets

CONSTANTS Collectors,     \* coroutines that collect metrics and detect alerts: the
                          \* scheduled job and POST /metrics/{id}/refresh may work on
                          \* one datasource at once
          Requests,       \* coroutines serving POST /alerts/{id}/resolve
          AlertIds, EventIds,
          Keys,           \* aggregation keys "datasource:metric"
          Kinds,          \* alert types raised for a key (threshold, baseline, AI)
          MaxSeverity,    \* SEVERITY_ORDER: low = 1 ... critical = 4
          Window,         \* ALERT_AGGREGATION_TIME_WINDOW_MINUTES, in ticks
          MaxTime,        \* bound on the clock
          MaxChanges,     \* bound on what users do and process restarts
          UserOps,        \* the API operations users issue in this instance
          NoAlert, NoEvent

Tasks == Collectors \cup Requests
Severities == 1..MaxSeverity
Times == 0..MaxTime
AllUserOps == {"ack_alert", "resolve_alert", "ack_event", "resolve_event"}

ASSUME ConstantsAssumption ==
    /\ MaxSeverity \in Nat \ {0}
    /\ Window \in Nat
    /\ MaxTime \in Nat
    /\ MaxChanges \in Nat
    /\ Keys # {}
    /\ Kinds # {}
    /\ IsFiniteSet(AlertIds)
    /\ NoAlert \notin AlertIds
    /\ NoEvent \notin EventIds
    /\ Collectors \cap Requests = {}
    /\ UserOps \subseteq AllUserOps

VARIABLES alerts,    \* table alert_message
          events,    \* table alert_event
          task,      \* program counter and locals of each coroutine
          clock,     \* now()
          changes,   \* operations of users and process restarts so far
          raced,     \* history: pairs <<kind, key>> two coroutines were about to raise
          overlapped \* history: events two coroutines were adding an alert to

history == <<raced, overlapped>>
vars == <<alerts, events, task, clock, changes, history>>

Statuses == {"active", "acknowledged", "resolved"}
Open == {"active", "acknowledged"}

Alert == [status : Statuses \cup {"none"}, key : Keys, kind : Kinds,
          sev : Severities, at : Times, event : EventIds \cup {NoEvent}]

Event == [status : Statuses \cup {"none"}, key : Keys, sev : Severities,
          ended : Times, count : Nat]

Pcs == {"idle", "touch", "insert", "find", "join", "open", "check", "close"}

Task == [pc : Pcs, key : Keys, kind : Kinds, sev : Severities,
         alert : AlertIds \cup {NoAlert}, event : EventIds \cup {NoEvent},
         alertStatus : Statuses,   \* alert.status after db.refresh
         loaded : Event]           \* the event row as this session read it

NoAlertRow == [status |-> "none", key |-> CHOOSE k \in Keys : TRUE,
               kind |-> CHOOSE k \in Kinds : TRUE, sev |-> 1, at |-> 0,
               event |-> NoEvent]

NoEventRow == [status |-> "none", key |-> CHOOSE k \in Keys : TRUE, sev |-> 1,
               ended |-> 0, count |-> 0]

IdleTask == [pc |-> "idle", key |-> CHOOSE k \in Keys : TRUE,
             kind |-> CHOOSE k \in Kinds : TRUE, sev |-> 1, alert |-> NoAlert,
             event |-> NoEvent, alertStatus |-> "active", loaded |-> NoEventRow]

-----------------------------------------------------------------------------
AlertsOf(e) == {a \in AlertIds : alerts[a].event = e}

(* Mutant: a deduplication that asks for open events instead of open alerts
   overlooks the alert a crash has left without an event. *)
OpenAlertWithEvent(kind, key) ==
    \E a \in AlertIds : /\ alerts[a].status \in Open
                        /\ alerts[a].event # NoEvent
                        /\ alerts[a].kind = kind
                        /\ alerts[a].key = key

OpenAlert(kind, key) ==
    \E a \in AlertIds : /\ alerts[a].status \in Open
                        /\ alerts[a].kind = kind
                        /\ alerts[a].key = key

(* WHERE aggregation_key = key AND status IN (active, acknowledged)
   AND event_ended_at >= since ORDER BY event_ended_at DESC LIMIT 1 *)
Candidates(key, since) ==
    {e \in EventIds : /\ events[e].status \in Open
                      /\ events[e].key = key
                      /\ events[e].ended >= since}

Latest(E) == {e \in E : \A f \in E : events[f].ended <= events[e].ended}

(* The row after a flush: a column is written iff its new value differs from
   the one the session loaded. *)
Written(value, loaded, current) == IF value # loaded THEN value ELSE current

Flush(row, loaded, new) ==
    [status |-> Written(new.status, loaded.status, row.status),
     key    |-> row.key,
     sev    |-> Written(new.sev, loaded.sev, row.sev),
     ended  |-> Written(new.ended, loaded.ended, row.ended),
     count  |-> Written(new.count, loaded.count, row.count)]

Init ==
    /\ alerts = [a \in AlertIds |-> NoAlertRow]
    /\ events = [e \in EventIds |-> NoEventRow]
    /\ task = [t \in Tasks |-> IdleTask]
    /\ clock = 0
    /\ changes = 0
    /\ raced = {} /\ overlapped = {}

-----------------------------------------------------------------------------
About(t, kind, key) == task[t].pc = "insert" /\ task[t].kind = kind /\ task[t].key = key

Joining(t, e) == task[t].pc = "join" /\ task[t].event = e

(* The collector found a violation: SELECT an open alert of the same type and
   metric.  None: create_alert follows.  Some: update_active_event_time
   selects the latest open event of the key, whatever its age. *)
Detect(t, key, kind, sev) ==
    /\ task[t].pc = "idle"
    /\ \/ /\ ~OpenAlert(kind, key)
          /\ task' = [task EXCEPT ![t].pc = "insert", ![t].key = key,
                                  ![t].kind = kind, ![t].sev = sev]
          /\ raced' = IF \E u \in Tasks : About(u, kind, key)
                      THEN raced \cup {<<kind, key>>} ELSE raced
       \/ /\ OpenAlert(kind, key)
          /\ \E e \in Latest(Candidates(key, 0)) :
                task' = [task EXCEPT ![t].pc = "touch", ![t].event = e,
                                        ![t].loaded = events[e]]
          /\ UNCHANGED raced
    /\ UNCHANGED <<alerts, events, clock, changes, overlapped>>

(* update_active_event_time: only event_ended_at is written. *)
TouchEvent(t) ==
    /\ task[t].pc = "touch"
    /\ LET old == task[t].loaded
       IN events' = [events EXCEPT ![task[t].event] =
                       Flush(@, old, [old EXCEPT !.ended = clock])]
    /\ task' = [task EXCEPT ![t] = IdleTask]
    /\ UNCHANGED <<alerts, clock, changes, history>>

(* create_alert: the row is committed before it belongs to any event. *)
InsertAlert(t, a) ==
    /\ task[t].pc = "insert"
    /\ alerts[a].status = "none"
    /\ alerts' = [alerts EXCEPT ![a] =
         [status |-> "active", key |-> task[t].key, kind |-> task[t].kind,
          sev |-> task[t].sev, at |-> clock, event |-> NoEvent]]
    /\ task' = [task EXCEPT ![t] = [IdleTask EXCEPT !.pc = "find", !.alert = a]]
    /\ UNCHANGED <<events, clock, changes, history>>

(* create_alert refreshes the alert, _find_matching_event selects the event. *)
FindEvent(t) ==
    /\ task[t].pc = "find"
    /\ LET a == task[t].alert
           E == Candidates(alerts[a].key, alerts[a].at - Window)
       IN \/ /\ E = {}
             /\ task' = [task EXCEPT ![t].pc = "open",
                                     ![t].alertStatus = alerts[a].status]
             /\ UNCHANGED overlapped
          \/ \E e \in Latest(E) :
                /\ task' = [task EXCEPT ![t].pc = "join", ![t].event = e,
                                        ![t].alertStatus = alerts[a].status,
                                        ![t].loaded = events[e]]
                /\ overlapped' = IF \E u \in Tasks : Joining(u, e)
                                 THEN overlapped \cup {e} ELSE overlapped
    /\ UNCHANGED <<alerts, events, clock, changes, raced>>

(* Mutant: the count is left to the link. *)
WithAlertUncounted(ev, alert, alertStatus) ==
    [ev EXCEPT !.ended  = alert.at,
               !.status = alertStatus,
               !.sev    = IF alert.sev > ev.sev THEN alert.sev ELSE ev.sev]

(* Mutant: the event takes the severity of its latest alert. *)
WithAlertLatestSeverity(ev, alert, alertStatus) ==
    [ev EXCEPT !.count  = ev.count + 1,
               !.ended  = alert.at,
               !.status = alertStatus,
               !.sev    = alert.sev]

(* _add_alert_to_event, the link and the commit.  The new values are computed
   from the loaded row. *)
WithAlert(ev, alert, alertStatus) ==
    [ev EXCEPT !.count  = ev.count + 1,
               !.ended  = alert.at,
               !.status = alertStatus,
               !.sev    = IF alert.sev > ev.sev THEN alert.sev ELSE ev.sev]

JoinEvent(t) ==
    /\ task[t].pc = "join"
    /\ LET a == task[t].alert
           e == task[t].event
           old == task[t].loaded
       IN /\ events' = [events EXCEPT ![e] =
                  Flush(@, old, WithAlert(old, alerts[a], task[t].alertStatus))]
          /\ alerts' = [alerts EXCEPT ![a].event = e]
    /\ task' = [task EXCEPT ![t] = IdleTask]
    /\ UNCHANGED <<clock, changes, history>>

(* Mutant: the event is committed before the alert is linked to it. *)
OpenEventThenLink(t, e) ==
    /\ task[t].pc = "open"
    /\ events[e].status = "none"
    /\ LET a == task[t].alert
       IN events' = [events EXCEPT ![e] =
            [status |-> task[t].alertStatus, key |-> alerts[a].key,
             sev |-> alerts[a].sev, ended |-> alerts[a].at, count |-> 1]]
    /\ task' = [task EXCEPT ![t] = IdleTask]
    /\ UNCHANGED <<alerts, clock, changes, history>>

(* _create_new_event, the link and the commit: one transaction. *)
OpenEvent(t, e) ==
    /\ task[t].pc = "open"
    /\ events[e].status = "none"
    /\ LET a == task[t].alert
       IN /\ events' = [events EXCEPT ![e] =
               [status |-> task[t].alertStatus, key |-> alerts[a].key,
                sev |-> alerts[a].sev, ended |-> alerts[a].at, count |-> 1]]
          /\ alerts' = [alerts EXCEPT ![a].event = e]
    /\ task' = [task EXCEPT ![t] = IdleTask]
    /\ UNCHANGED <<clock, changes, history>>

-----------------------------------------------------------------------------
Change == changes < MaxChanges /\ changes' = changes + 1

(* acknowledge_alert has no condition on the status. *)
AcknowledgeAlert(a) ==
    /\ "ack_alert" \in UserOps
    /\ Change
    /\ alerts[a].status # "none"
    /\ alerts' = [alerts EXCEPT ![a].status = "acknowledged"]
    /\ UNCHANGED <<events, task, clock, history>>

(* resolve_alert: the alert is committed as resolved, then its event is looked
   at in a second transaction.  Called by a request for any alert and by a
   collector for the open alerts whose metric has recovered. *)
ResolveAlert(t, a) ==
    /\ task[t].pc = "idle"
    /\ \/ t \in Requests /\ "resolve_alert" \in UserOps /\ alerts[a].status # "none" /\ Change
       \/ t \in Collectors /\ alerts[a].status \in Open /\ UNCHANGED changes
    /\ alerts' = [alerts EXCEPT ![a].status = "resolved"]
    /\ task' = [task EXCEPT ![t].pc = "check", ![t].alert = a]
    /\ UNCHANGED <<events, clock, history>>

AllResolved(e) == \A b \in AlertsOf(e) : alerts[b].status = "resolved"

(* check_and_auto_resolve_event, the SELECTs. *)
CheckEvent(t) ==
    /\ task[t].pc = "check"
    /\ LET e == alerts[task[t].alert].event
       IN IF e # NoEvent /\ events[e].status # "resolved" /\ AllResolved(e)
          THEN task' = [task EXCEPT ![t].pc = "close", ![t].event = e,
                                       ![t].loaded = events[e]]
          ELSE task' = [task EXCEPT ![t] = IdleTask]
    /\ UNCHANGED <<alerts, events, clock, changes, history>>

(* Mutant: the recovery is dated after the check that found it. *)
RecoveredLater(ev) == [ev EXCEPT !.status = "resolved", !.ended = clock + 1]

Recovered(ev) == [ev EXCEPT !.status = "resolved", !.ended = clock]

(* check_and_auto_resolve_event, the UPDATE and the commit in resolve_alert. *)
CloseEvent(t) ==
    /\ task[t].pc = "close"
    /\ LET old == task[t].loaded
       IN events' = [events EXCEPT ![task[t].event] = Flush(@, old, Recovered(old))]
    /\ task' = [task EXCEPT ![t] = IdleTask]
    /\ UNCHANGED <<alerts, clock, changes, history>>

(* acknowledge_event: no condition on the event's status; only active alerts
   are acknowledged with it. *)
AcknowledgeEvent(e) ==
    /\ "ack_event" \in UserOps
    /\ Change
    /\ events[e].status # "none"
    /\ events' = [events EXCEPT ![e].status = "acknowledged"]
    /\ alerts' = [a \in AlertIds |->
         IF a \in AlertsOf(e) /\ alerts[a].status = "active"
         THEN [alerts[a] EXCEPT !.status = "acknowledged"] ELSE alerts[a]]
    /\ UNCHANGED <<task, clock, history>>

(* resolve_event: the event row is locked by the autoflush before the alerts
   are selected, so no alert joins in between. *)
ResolveEvent(e) ==
    /\ "resolve_event" \in UserOps
    /\ Change
    /\ events[e].status # "none"
    /\ events' = [events EXCEPT ![e] = Recovered(@)]
    /\ alerts' = [a \in AlertIds |->
         IF a \in AlertsOf(e) THEN [alerts[a] EXCEPT !.status = "resolved"] ELSE alerts[a]]
    /\ UNCHANGED <<task, clock, history>>

(* The process stops and is started again: coroutines and their uncommitted
   transactions are gone, the tables stay. *)
Crash ==
    /\ Change
    /\ task' = [t \in Tasks |-> IdleTask]
    /\ UNCHANGED <<alerts, events, clock, history>>

Tick ==
    /\ clock < MaxTime
    /\ clock' = clock + 1
    /\ UNCHANGED <<alerts, events, task, changes, history>>

Collect(t) ==
    \/ \E key \in Keys, kind \in Kinds, sev \in Severities : Detect(t, key, kind, sev)
    \/ TouchEvent(t)
    \/ \E a \in AlertIds : InsertAlert(t, a)
    \/ FindEvent(t)
    \/ JoinEvent(t)
    \/ \E e \in EventIds : OpenEvent(t, e)

Resolve(t) ==
    \/ \E a \in AlertIds : ResolveAlert(t, a)
    \/ CheckEvent(t)
    \/ CloseEvent(t)

User ==
    \/ \E a \in AlertIds : AcknowledgeAlert(a)
    \/ \E e \in EventIds : AcknowledgeEvent(e) \/ ResolveEvent(e)

Next ==
    \/ \E t \in Collectors : Collect(t)
    \/ \E t \in Tasks : Resolve(t)
    \/ User
    \/ Crash
    \/ Tick

Spec == Init /\ [][Next]_vars

-----------------------------------------------------------------------------
(* Rows and coroutine locals hold values of their columns' types. *)
TypeOK ==
    /\ alerts \in [AlertIds -> Alert]
    /\ events \in [EventIds -> Event]
    /\ task \in [Tasks -> Task]
    /\ clock \in Times
    /\ changes \in 0..MaxChanges
    /\ raced \subseteq Kinds \X Keys /\ overlapped \subseteq EventIds

Exists(e) == events[e].status # "none"

(* No crash and no interleaving leaves an event without an alert of its own
   aggregation key: create_alert inserts the event and links the alert in one
   transaction, and an alert stays with the event it was linked to. *)
EventNeverEmpty ==
    /\ \A e \in EventIds : Exists(e) => AlertsOf(e) # {}
    /\ \A a \in AlertIds : alerts[a].event # NoEvent =>
          /\ alerts[a].status # "none"
          /\ Exists(alerts[a].event)
          /\ events[alerts[a].event].key = alerts[a].key

(* alert_count is the number of alerts linked to the event, although
   _add_alert_to_event computes it from a row loaded in an earlier step: only two
   coroutines that are adding an alert to the same event at once lose an
   increment, and the count is never higher than the number of alerts. *)
AlertCountExact ==
    \A e \in EventIds : Exists(e) =>
        /\ events[e].count \in 1..Cardinality(AlertsOf(e))
        /\ e \notin overlapped => events[e].count = Cardinality(AlertsOf(e))

(* "Update severity (keep highest)": an event has the severity of an alert that was
   linked to it, and is as severe as the most severe of them unless two coroutines
   were adding alerts to it at once. *)
SeverityIsHighest ==
    \A e \in EventIds : Exists(e) =>
        /\ \E a \in AlertsOf(e) : alerts[a].sev = events[e].sev
        /\ e \notin overlapped => \A a \in AlertsOf(e) : alerts[a].sev <= events[e].sev

(* The deduplication SELECT of the collector: a metric has at most one active
   alert of each type, changes between the steps of create_alert included, unless
   two coroutines made the SELECT before either of them inserted. *)
OneActiveAlertPerMetric ==
    \A a, b \in AlertIds :
        /\ a # b
        /\ alerts[a].status = "active"
        /\ alerts[b].status = "active"
        /\ <<alerts[a].kind, alerts[a].key>> = <<alerts[b].kind, alerts[b].key>>
        => <<alerts[a].kind, alerts[a].key>> \in raced

(* resolve_event: "Resolve event and all its alerts". *)
ResolvedEventHasNoOpenAlert ==
    \A e \in EventIds : events[e].status = "resolved" => AllResolved(e)
=============================================================================
