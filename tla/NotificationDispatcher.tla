----------------------- MODULE NotificationDispatcher -----------------------
(* notification_dispatcher.py: one coroutine that every 30 seconds notifies the
   subscriptions of the alerts that are due and then of the recoveries, while
   collectors and users raise, link, acknowledge, resolve and silence.

   Every step of a cycle is the code between two awaits that other coroutines
   can observe.  Time is kept as ages that saturate just past the last
   comparison the code makes, so that time never ends and no clock is bounded.

   The alerts that are not network probe alerts belong to one datasource.  The
   diagnosis that runs before the subscriptions are tried only takes time here. *)
EXTENDS Integers, FiniteSets

CONSTANTS Alerts, Subs,
          EventOf, Severity, \* Alerts -> events, Alerts -> Nat
          Probes,            \* alerts of metric network_probe (datasource_id 0)
          Matches,           \* pairs <<a, s>> passing datasource and severity filters
          TimeRanged,        \* subscriptions with time_ranges
          AlertTargets,      \* Subs -> sets of targets with "alert" in notify_on
          RecoveryTargets,   \* Subs -> sets of targets with "recovery" in notify_on
          Cooldown,          \* notification_cooldown_minutes
          Window,            \* minutes=60 of get_pending_recovery_notifications
          MaxSilence,        \* longest silence a user sets
          Ops,               \* what happens besides raising and notifying alerts
          None

Outcomes == {"sent", "failed", "unsure"}

Targets == UNION {AlertTargets[s] \cup RecoveryTargets[s] : s \in Subs}

ASSUME DispatcherAssumption ==
    /\ Severity \in [Alerts -> Nat \ {0}]
    /\ Probes \subseteq Alerts
    /\ Matches \subseteq Alerts \X Subs
    /\ TimeRanged \subseteq Subs
    /\ {Cooldown, Window, MaxSilence} \subseteq Nat
    /\ Ops \subseteq {"acknowledge", "resolve", "silence", "delete", "crash"}
    \* a target is an entry of one subscription
    /\ \A r, s \in Subs :
          r # s => (AlertTargets[r] \cup RecoveryTargets[r]) \cap
                   (AlertTargets[s] \cup RecoveryTargets[s]) = {}
    /\ None \notin Nat \cup Alerts \cup Subs \cup Targets

VARIABLES status,    \* AlertMessage.status, "none" before the insert
          linked,    \* AlertMessage.event_id has been set
          notified,  \* age of AlertMessage.notified_at
          resolved,  \* age of AlertMessage.resolved_at
          sent,      \* age of the latest alert delivery log with status "sent"
          recovered, \* there is a recovery delivery log with status "sent"
          silence,   \* time left of Datasource.silence_until, 0 once it has passed
          deleted,   \* the datasource is soft deleted
          cycle,     \* locals of _process_pending_alerts
          heard,     \* history: age of the last alert notification a target received
          cured,     \* history: how many recovery notifications a target received
          excused,   \* history: pairs <<a, t>>, the last alert notification of a that t
                     \* received is not on record as sent, or was sent for a without
                     \* its event
          doubted    \* history: pairs <<a, t>>, t received a recovery of a that is not
                     \* on record as sent

rows == <<status, linked, notified, resolved>>
logs == <<sent, recovered>>
datasource == <<silence, deleted>>
history == <<heard, cured, excused, doubted>>
vars == <<rows, logs, datasource, cycle, history>>

Idle == [pc |-> "idle", mode |-> "alert", batch |-> {}, withEvent |-> {}, probe |-> FALSE,
         alert |-> None, subs |-> {}, sub |-> None, targets |-> {}, target |-> None,
         ok |-> FALSE, any |-> FALSE]

-----------------------------------------------------------------------------
OfAlive(a) == a \in Probes \/ ~deleted

(* Mutant: an alert that was notified is never due again. *)
DueOnce == {a \in Alerts : status[a] = "active" /\ notified[a] = None /\ OfAlive(a)}

(* Mutant: the status filter is dropped. *)
DueAnyStatus == {a \in Alerts : /\ status[a] # "none"
                                /\ notified[a] = None \/ notified[a] >= Cooldown
                                /\ OfAlive(a)}

(* get_pending_notifications *)
Due == {a \in Alerts : /\ status[a] = "active"
                       /\ notified[a] = None \/ notified[a] >= Cooldown
                       /\ OfAlive(a)}

(* get_pending_recovery_notifications *)
DueRecovery == {a \in Alerts : /\ status[a] = "resolved"
                               /\ resolved[a] <= Window
                               /\ notified[a] # None
                               /\ OfAlive(a)}

(* Mutant: the cooldown is kept per alert instead of per event. *)
DeliveriesOfAlert(a, s) == {b \in {a} : linked[b] /\ sent[b][s] # None}

(* The sent alert deliveries of the alert's event to the subscription *)
Deliveries(a, s) ==
    {b \in Alerts : EventOf[b] = EventOf[a] /\ linked[b] /\ sent[b][s] # None}

Escalated(a, s) == \A b \in Deliveries(a, s) : Severity[b] < Severity[a]

(* _default_aggregation_rule; event_id is the one the batch was read with. *)
DefaultRule(a, s) ==
    (a \in cycle.withEvent /\ Deliveries(a, s) # {}) =>
        \/ Escalated(a, s)
        \/ \A b \in Deliveries(a, s) : sent[b][s] >= Cooldown

(* A custom script never gets to decide: building its context raises, and the
   handler falls back to the default rule. *)
ShouldSend(a, s) == DefaultRule(a, s)

(* _already_delivered.  Recovery logs would count too, but an alert that has
   one is never active again. *)
AlreadyDelivered(a, s) ==
    sent[a][s] # None /\ (Cooldown > 0 => sent[a][s] <= Cooldown)

(* Mutant: the recovery is sent to every matching subscription. *)
WantsRecoveryUnheard(a, s) == ~recovered[a][s]

(* Mutant: recoveries sent before are not looked up. *)
WantsRecoveryAgain(a, s) == sent[a][s] # None

WantsRecovery(a, s) == sent[a][s] # None /\ ~recovered[a][s]

Wants(a, s) == IF cycle.mode = "alert" THEN ShouldSend(a, s) /\ ~AlreadyDelivered(a, s)
                                       ELSE WantsRecovery(a, s)

-----------------------------------------------------------------------------
(* get_pending_notifications; without alerts straight to the recoveries *)
StartCycle ==
    /\ cycle.pc = "idle"
    /\ cycle' = [Idle EXCEPT !.pc = IF Due = {} THEN "recover" ELSE "probe",
                             !.batch = Due, !.withEvent = {a \in Due : linked[a]}]
    /\ UNCHANGED <<rows, logs, datasource, history>>

(* _process_recovery_notifications *)
StartRecovery ==
    /\ cycle.pc = "recover"
    /\ cycle' = IF DueRecovery = {} THEN Idle
                ELSE [Idle EXCEPT !.pc = "probe", !.mode = "recovery", !.batch = DueRecovery]
    /\ UNCHANGED <<rows, logs, datasource, history>>

(* _has_active_network_probe_failure, read once per batch *)
ReadProbe ==
    /\ cycle.pc = "probe"
    /\ cycle' = [cycle EXCEPT !.pc = "alerts",
                              !.probe = \E p \in Probes : status[p] \in {"active", "acknowledged"}]
    /\ UNCHANGED <<rows, logs, datasource, history>>

TakeAlert(a) ==
    /\ cycle.pc = "alerts"
    /\ a \in cycle.batch
    /\ cycle' = IF cycle.probe /\ a \notin Probes
                THEN [cycle EXCEPT !.batch = @ \ {a}]
                ELSE [cycle EXCEPT !.batch = @ \ {a}, !.alert = a, !.pc = "silence"]
    /\ UNCHANGED <<rows, logs, datasource, history>>

EndBatch ==
    /\ cycle.pc = "alerts"
    /\ cycle.batch = {}
    /\ cycle' = IF cycle.mode = "alert" THEN [Idle EXCEPT !.pc = "recover"] ELSE Idle
    /\ UNCHANGED <<rows, logs, datasource, history>>

(* Back to the loop over the alerts *)
NextAlert == [cycle EXCEPT !.pc = "alerts", !.alert = None]

(* On to the subscriptions unless the datasource is gone *)
Admit == cycle' = IF OfAlive(cycle.alert) THEN [cycle EXCEPT !.pc = "subs", !.subs = Subs]
                                          ELSE NextAlert

(* _is_datasource_silenced: the read *)
CheckSilence ==
    /\ cycle.pc = "silence"
    /\ IF cycle.alert \in Probes \/ deleted \/ silence = None THEN Admit
       ELSE cycle' = IF silence > 0 THEN NextAlert ELSE [cycle EXCEPT !.pc = "clear"]
    /\ UNCHANGED <<rows, logs, datasource, history>>

(* _is_datasource_silenced: an expired silence is cleared by a later write *)
ClearSilence ==
    /\ cycle.pc = "clear"
    /\ silence' = None
    /\ Admit
    /\ UNCHANGED <<rows, logs, deleted, history>>

(* Enabled targets by notify_on *)
TargetsOf(s) == IF cycle.mode = "alert" THEN AlertTargets[s] ELSE RecoveryTargets[s]

(* The checks of one subscription; they read what only this coroutine writes. *)
TakeSub(s, inRange) ==
    /\ cycle.pc = "subs"
    /\ s \in cycle.subs
    /\ s \notin TimeRanged => inRange
    /\ LET a == cycle.alert
           go == <<a, s>> \in Matches /\ inRange /\ Wants(a, s) /\ OfAlive(a)
       IN cycle' = IF ~go THEN [cycle EXCEPT !.subs = @ \ {s}]
                   ELSE [cycle EXCEPT !.subs = @ \ {s}, !.sub = s, !.pc = "targets",
                                        !.targets = TargetsOf(s)]
    /\ UNCHANGED <<rows, logs, datasource, history>>

EndSubs ==
    /\ cycle.pc = "subs"
    /\ cycle.subs = {}
    /\ cycle' = NextAlert
    /\ UNCHANGED <<rows, logs, datasource, history>>

(* execute_notification: it reports success, a failure, or, after a timeout, a
   failure for a message that is received all the same, now or later ("unsure").
   The histories date a message by its call. *)
Call(t, outcome) ==
    /\ cycle.pc = "targets"
    /\ t \in cycle.targets
    /\ cycle' = [cycle EXCEPT !.targets = @ \ {t}, !.target = t, !.ok = outcome = "sent",
                              !.pc = "log"]
    /\ LET a == cycle.alert
           out == outcome # "failed"
       IN \/ /\ out /\ cycle.mode = "alert"
             /\ heard' = [heard EXCEPT ![a][t] = 0]
             /\ excused' = IF outcome = "unsure" \/ a \notin cycle.withEvent
                           THEN excused \cup {<<a, t>>} ELSE excused \ {<<a, t>>}
             /\ UNCHANGED <<cured, doubted>>
          \/ /\ out /\ cycle.mode = "recovery"
             /\ cured' = [cured EXCEPT ![a][t] = IF @ < 2 THEN @ + 1 ELSE @]
             /\ doubted' = IF outcome = "unsure" THEN doubted \cup {<<a, t>>} ELSE doubted
             /\ UNCHANGED <<heard, excused>>
          \/ ~out /\ UNCHANGED history
    /\ UNCHANGED <<rows, logs, datasource>>

Logged == [cycle EXCEPT !.pc = "targets", !.any = @ \/ cycle.ok, !.target = None, !.ok = FALSE]

(* The delivery log of an alert is committed, "sent" or "failed". *)
LogAlert ==
    /\ cycle.pc = "log" /\ cycle.mode = "alert"
    /\ sent' = IF cycle.ok THEN [sent EXCEPT ![cycle.alert][cycle.sub] = 0] ELSE sent
    /\ cycle' = Logged
    /\ UNCHANGED <<rows, recovered, datasource, history>>

(* Mutant: the suffix ":recovery" is forgotten, so the log counts as an alert's. *)
LogRecoveryPlain ==
    /\ cycle.pc = "log" /\ cycle.mode = "recovery"
    /\ sent' = IF cycle.ok THEN [sent EXCEPT ![cycle.alert][cycle.sub] = 0] ELSE sent
    /\ cycle' = Logged
    /\ UNCHANGED <<rows, recovered, datasource, history>>

(* The delivery log of a recovery, on the channel with the suffix ":recovery" *)
LogRecovery ==
    /\ cycle.pc = "log" /\ cycle.mode = "recovery"
    /\ recovered' = IF cycle.ok THEN [recovered EXCEPT ![cycle.alert][cycle.sub] = TRUE]
                                ELSE recovered
    /\ cycle' = Logged
    /\ UNCHANGED <<rows, sent, datasource, history>>

(* Mutant: the loop variable is lost when a subscription is done. *)
EndTargetsForgets ==
    /\ cycle.pc = "targets"
    /\ cycle.targets = {}
    /\ cycle' = [cycle EXCEPT !.pc = "subs", !.sub = None, !.any = FALSE, !.alert = None]
    /\ notified' = IF cycle.any /\ cycle.mode = "alert"
                   THEN [notified EXCEPT ![cycle.alert] = 0] ELSE notified
    /\ UNCHANGED <<status, linked, resolved, logs, datasource, history>>

(* _mark_alert_notified after a subscription with a successful target *)
EndTargets ==
    /\ cycle.pc = "targets"
    /\ cycle.targets = {}
    /\ cycle' = [cycle EXCEPT !.pc = "subs", !.sub = None, !.any = FALSE]
    /\ notified' = IF cycle.any /\ cycle.mode = "alert"
                   THEN [notified EXCEPT ![cycle.alert] = 0] ELSE notified
    /\ UNCHANGED <<status, linked, resolved, logs, datasource, history>>

Dispatch ==
    \/ StartCycle \/ StartRecovery \/ ReadProbe
    \/ \E a \in Alerts : TakeAlert(a)
    \/ EndBatch \/ CheckSilence \/ ClearSilence
    \/ \E s \in Subs, b \in BOOLEAN : TakeSub(s, b)
    \/ EndSubs
    \/ \E t \in Targets, outcome \in Outcomes : Call(t, outcome)
    \/ LogAlert \/ LogRecovery \/ EndTargets

(* An exception ends the cycle, or the process dies and is started again. *)
Crash ==
    /\ "crash" \in Ops
    /\ cycle.pc # "idle"
    /\ cycle' = Idle
    /\ LET lost(mode) == IF cycle.pc = "log" /\ cycle.ok /\ cycle.mode = mode
                         THEN {<<cycle.alert, cycle.target>>} ELSE {}
       IN /\ excused' = excused \cup lost("alert")
          /\ doubted' = doubted \cup lost("recovery")
    /\ UNCHANGED <<rows, logs, datasource, heard, cured>>

-----------------------------------------------------------------------------
(* create_alert commits the alert, process_new_alert gives it its event. *)
Raise(a) ==
    /\ status[a] = "none"
    /\ status' = [status EXCEPT ![a] = "active"]
    /\ UNCHANGED <<linked, notified, resolved, logs, datasource, cycle, history>>

Link(a) ==
    /\ status[a] # "none" /\ ~linked[a]
    /\ linked' = [linked EXCEPT ![a] = TRUE]
    /\ UNCHANGED <<status, notified, resolved, logs, datasource, cycle, history>>

(* acknowledge_alert and resolve_alert take an alert in any status. *)
Acknowledge(a) ==
    /\ "acknowledge" \in Ops
    /\ status[a] # "none"
    /\ status' = [status EXCEPT ![a] = "acknowledged"]
    /\ UNCHANGED <<linked, notified, resolved, logs, datasource, cycle, history>>

Resolve(a) ==
    /\ "resolve" \in Ops
    /\ status[a] # "none"
    /\ status' = [status EXCEPT ![a] = "resolved"]
    /\ resolved' = [resolved EXCEPT ![a] = 0]
    /\ UNCHANGED <<linked, notified, logs, datasource, cycle, history>>

SetSilence(n) ==
    /\ "silence" \in Ops /\ ~deleted
    /\ silence' = n
    /\ UNCHANGED <<rows, logs, deleted, cycle, history>>

CancelSilence ==
    /\ "silence" \in Ops /\ ~deleted
    /\ silence' = None
    /\ UNCHANGED <<rows, logs, deleted, cycle, history>>

Delete ==
    /\ "delete" \in Ops /\ ~deleted
    /\ deleted' = TRUE
    /\ UNCHANGED <<rows, logs, silence, cycle, history>>

Older(age, cap) == IF age = None \/ age = cap THEN age ELSE age + 1

Tick ==
    /\ notified' = [a \in Alerts |-> Older(notified[a], Cooldown)]
    /\ resolved' = [a \in Alerts |-> Older(resolved[a], Window + 1)]
    /\ sent' = [a \in Alerts |-> [s \in Subs |-> Older(sent[a][s], Cooldown + 1)]]
    /\ heard' = [a \in Alerts |-> [t \in Targets |-> Older(heard[a][t], Cooldown)]]
    /\ silence' = IF silence = None \/ silence = 0 THEN silence ELSE silence - 1
    /\ UNCHANGED <<status, linked, recovered, deleted, cycle, cured, excused, doubted>>

Init ==
    /\ status = [a \in Alerts |-> "none"]
    /\ linked = [a \in Alerts |-> FALSE]
    /\ notified = [a \in Alerts |-> None]
    /\ resolved = [a \in Alerts |-> None]
    /\ sent = [a \in Alerts |-> [s \in Subs |-> None]]
    /\ recovered = [a \in Alerts |-> [s \in Subs |-> FALSE]]
    /\ silence = None /\ deleted = FALSE
    /\ cycle = Idle
    /\ heard = [a \in Alerts |-> [t \in Targets |-> None]]
    /\ cured = [a \in Alerts |-> [t \in Targets |-> 0]]
    /\ excused = {} /\ doubted = {}

Next ==
    \/ Dispatch
    \/ Crash
    \/ \E a \in Alerts : Raise(a) \/ Link(a) \/ Acknowledge(a) \/ Resolve(a)
    \/ \E n \in 1..MaxSilence : SetSilence(n)
    \/ CancelSilence
    \/ Delete
    \/ Tick

Spec == Init /\ [][Next]_vars

(* The event loop keeps running the dispatcher and time passes; a target that is
   called for an alert again and again accepts it at last. *)
Fairness ==
    /\ WF_vars(Dispatch)
    /\ WF_vars(Tick)
    /\ \A a \in Alerts, t \in Targets : SF_vars(cycle.alert = a /\ Call(t, "sent"))

FairSpec == Spec /\ Fairness

-----------------------------------------------------------------------------
Ages(cap) == 0..cap \cup {None}

(* Rows, logs and locals hold values of their types. *)
TypeOK ==
    /\ status \in [Alerts -> {"none", "active", "acknowledged", "resolved"}]
    /\ linked \in [Alerts -> BOOLEAN]
    /\ notified \in [Alerts -> Ages(Cooldown)]
    /\ resolved \in [Alerts -> Ages(Window + 1)]
    /\ sent \in [Alerts -> [Subs -> Ages(Cooldown + 1)]]
    /\ recovered \in [Alerts -> [Subs -> BOOLEAN]]
    /\ silence \in Ages(MaxSilence)
    /\ deleted \in BOOLEAN
    /\ cycle.pc \in {"idle", "recover", "probe", "alerts", "silence", "clear", "subs", "targets", "log"}
    /\ cycle.mode \in {"alert", "recovery"}
    /\ cycle.withEvent \subseteq Alerts /\ cycle.batch \subseteq Alerts
    /\ cycle.pc \in {"silence", "clear", "subs", "targets", "log"} => cycle.alert \in Alerts
    /\ cycle.pc \in {"targets", "log"} => cycle.sub \in Subs /\ cycle.targets \subseteq Targets
    /\ cycle.pc = "log" => cycle.target \in Targets
    /\ heard \in [Alerts -> [Targets -> Ages(Cooldown)]]
    /\ cured \in [Alerts -> [Targets -> 0..2]]
    /\ excused \subseteq Alerts \X Targets /\ doubted \subseteq Alerts \X Targets

(* The step calls the target for the alert, whatever comes of it. *)
Calls(a, t) ==
    /\ cycle.pc = "targets" /\ cycle'.pc = "log"
    /\ cycle.mode = "alert" /\ cycle.alert = a
    /\ cycle'.target = t

(* No target that has received an alert of an event is called for another one of
   it within the cooldown unless that one is more severe, whatever other targets
   fail, however the event's alerts interleave and however long the cycle takes.
   The only exceptions: a notification that is not on record as sent, because the
   process died before the log or the call timed out although the message went
   out, and one of an alert the dispatcher had read before it had its event. *)
NoStorm ==
    [][\A a, b \in Alerts, t \in Targets :
          /\ Calls(a, t)
          /\ EventOf[a] = EventOf[b]
          /\ a \in cycle.withEvent
          /\ <<b, t>> \notin excused
          /\ heard[b][t] # None /\ heard[b][t] < Cooldown
          => Severity[b] < Severity[a]]_vars

(* Recoveries only go to subscriptions a target of which has received the alert. *)
RecoveryOnlyToReceivers ==
    \A a \in Alerts, s \in Subs :
        (\E t \in RecoveryTargets[s] : cured[a][t] > 0)
            => \E t \in AlertTargets[s] : heard[a][t] # None

(* A target receives one recovery per alert, also when other targets of its
   subscription fail, and when a user acknowledges a resolved alert, resolves it
   again and so opens the recovery window anew.  Only one that is not on record as
   sent, because of a restart or a timeout, is repeated. *)
OneRecoveryPerAlert ==
    \A a \in Alerts, t \in Targets :
        <<a, t>> \notin doubted => cured[a][t] <= 1

(* No target is called for an alert after the call for its recovery, although the
   cycle works on alerts it read long before and the process may restart anywhere. *)
NoAlertAfterRecovery ==
    [][\A a \in Alerts, t \in Targets : Calls(a, t) => cured[a][t] = 0]_vars

(* What the receivers see of a state: who has received what, the notification that
   is not logged yet, and the recoveries that never came on record. *)
Notices == INSTANCE AlertNotices WITH
    told  <- {p \in Alerts \X Targets : heard[p[1]][p[2]] # None},
    cured <- {p \in Alerts \X Targets : cured[p[1]][p[2]] > 0},
    open  <- IF cycle.pc = "log" /\ cycle.ok THEN {<<cycle.mode, cycle.alert, cycle.target>>}
                                              ELSE {},
    doubt <- doubted

(* The cycle with its stale batches, failing targets, timeouts, cooldowns, silences
   and restarts sends only what AlertNotices allows: a recovery is the last notice
   any target gets of an alert, not only the target that has received it. *)
Notifies == Notices!Spec

(* The subscription was told of the alert's event at the alert's severity. *)
Told(a, s) ==
    \E b \in Alerts : /\ EventOf[b] = EventOf[a]
                      /\ Severity[b] >= Severity[a]
                      /\ sent[b][s] # None

(* The code means to withhold the alert: the network probe is failing, the
   datasource is silenced or deleted. *)
Withheld(a) ==
    /\ a \notin Probes
    /\ \/ \E p \in Probes : status[p] \in {"active", "acknowledged"}
       \/ silence \notin {None, 0}
       \/ deleted

(* Every matching subscription is told of an alert that stays active, also when
   its own target failed and another subscription's success marked the alert as
   notified, and also once a probe failure that kept it back is over. *)
EveryoneIsTold ==
    \A m \in Matches :
        status[m[1]] = "active"
            ~> Told(m[1], m[2]) \/ status[m[1]] # "active" \/ Withheld(m[1])
=============================================================================
