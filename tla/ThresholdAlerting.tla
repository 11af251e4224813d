-------------------------- MODULE ThresholdAlerting --------------------------
(* What one collection makes of the threshold checker's answer: the part of
   collect_metrics_for_connection that raises and resolves the connection alert
   and the threshold alert of one metric.  A collection that reached the
   database goes through _check_thresholds_and_trigger; one that did not still
   carries the host's metrics and goes through
   _auto_resolve_threshold_alerts_on_connection_failure.

   Each of its steps swallows the errors of the calls it makes, so resolving the
   recovered alert and raising a new one may each come to nothing, after the
   checker has counted its trigger.

   Collections are atomic here; their interleavings are AlertLifecycle's. *)
EXTENDS ThresholdChecker

CONSTANT Rules     \* the kinds of rule configured at one time or another

ASSUME AlertingAssumption ==
    /\ Rules \subseteq {"levels", "expression"}
    /\ Cooldown > 0      \* _trigger_cooldown = 3600

VARIABLES alert,      \* severity of the open threshold alert of the metric, or None
          connAlert,  \* there is an open connection failure alert
          silenced,   \* now() < datasource.silence_until
          collected,  \* what the last step collected: "none" if nothing,
                      \* "failed", "unchecked", or the rule that was checked
          run,        \* history: [level, from] of the unbroken samples of one level
          lost,       \* history: levels whose last trigger in this incident came to
                      \* nothing: the collection had failed, or an error was swallowed
          dismissed   \* history: a user has resolved the last alert of this incident

alerting == <<alert, connAlert, silenced, collected, run, lost, dismissed>>
allVars == <<vars, alerting>>

-----------------------------------------------------------------------------
(* Mutant: recovery is judged against the highest threshold. *)
Highest == {l \in Levels : \A m \in Levels : Threshold[l] >= Threshold[m]}

Lowest == {l \in Levels : \A m \in Levels : Threshold[l] <= Threshold[m]}

(* _auto_resolve_recovered_alerts: not a current violation, a value, and below
   the lowest configured threshold (the alert's own is never lower). *)
HasRecovered(v) ==
    /\ fired' = None
    /\ v # None
    /\ \E l \in Lowest : v < Threshold[l]

AfterRecovery(v) == IF HasRecovered(v) THEN None ELSE alert

(* The loop over violations: with an open alert of the metric only the event's
   time is refreshed, otherwise an alert of the violation's severity is created. *)
AfterViolations(a) == IF a = None /\ fired' # None THEN fired' ELSE a

(* History of the samples the checker has seen. *)
TrackRun(v) ==
    run' = IF v = None \/ Violated(v) = {} THEN None
           ELSE LET l == CHOOSE x \in Matched(v) : TRUE
                IN IF run # None /\ run.level = l THEN run
                   ELSE [level |-> l, from |-> clock]

(* History: a level has triggered in this incident. *)
Triggered == \E l \in Levels : firedAt[l] # None

(* check_thresholds and _auto_resolve_recovered_alerts under the rule in force,
   and the loop over the violations if the collection is to raise alerts: either
   of the last two may end in a swallowed error.  An alert whose metric has no
   rule any more is not resolved. *)
CheckAndResolve(raise) ==
    \/ \E v \in Values \cup {None} :
       /\ "levels" \in Rules
       /\ SampleLevels(v)
       /\ TrackRun(v)
       /\ \E open \in {alert, AfterRecovery(v)}, raises \in {raise, FALSE} :
            /\ alert' = IF raises THEN AfterViolations(open) ELSE open
            /\ lost' = {l \in Levels : /\ firedAt'[l] # None
                                       /\ IF fired' = l THEN ~raises ELSE l \in lost}
            /\ dismissed' = (dismissed /\ Triggered' /\ alert' = None)
       /\ collected' = IF raise THEN "levels" ELSE "failed"
    \/ \E holds \in BOOLEAN :
       /\ "expression" \in Rules
       /\ SampleExpression(holds)
       (* A violation of the expression rule has no current_value: building its
          reason raises KeyError and the round ends without an alert. *)
       /\ UNCHANGED <<run, alert, lost, dismissed>>
       /\ collected' = IF raise THEN "expression" ELSE "failed"

(* The collection returns, or fails, before it asks the checker: no metrics, no
   enabled inspection configuration, no rule, AI mode, an error of the reads. *)
NotChecked == UNCHANGED <<vars, alert, run, lost, dismissed>>

(* _auto_resolve_connection_alerts *)
ConnectionRestored == connAlert' \in {FALSE, connAlert}

(* _handle_connection_failure: one open alert, none while silenced *)
ConnectionFailed == connAlert' \in {connAlert, connAlert \/ ~silenced}

CollectOk ==
    /\ ConnectionRestored
    /\ \/ NotChecked /\ collected' = "unchecked"
       \/ ~silenced /\ CheckAndResolve(TRUE)
    /\ UNCHANGED silenced

(* The checker is asked here too, only to learn what has recovered. *)
CollectFailed ==
    /\ \/ NotChecked /\ collected' = "failed"
       \/ CheckAndResolve(FALSE)
    /\ ConnectionFailed
    /\ UNCHANGED silenced

(* resolve_alert or resolve_event through the API *)
UserResolve ==
    /\ alert # None
    /\ alert' = None
    /\ dismissed' = Triggered
    /\ collected' = "none"
    /\ UNCHANGED <<vars, connAlert, silenced, run, lost>>

(* POST and DELETE /datasources/{id}/silence, or the end of the period *)
SetSilence ==
    /\ silenced' = ~silenced
    /\ collected' = "none"
    /\ UNCHANGED <<vars, alert, connAlert, run, lost, dismissed>>

Restart ==
    /\ Reset
    /\ run' = None /\ lost' = {} /\ dismissed' = FALSE
    /\ collected' = "none"
    /\ UNCHANGED <<alert, connAlert, silenced>>

Wait ==
    /\ Tick
    /\ collected' = "none"
    /\ UNCHANGED <<alert, connAlert, silenced, run, lost, dismissed>>

AlertingInit ==
    /\ Init
    /\ alert = None /\ connAlert = FALSE /\ silenced = FALSE
    /\ collected = "none" /\ run = None /\ lost = {} /\ dismissed = FALSE

AlertingNext ==
    \/ CollectOk \/ CollectFailed
    \/ UserResolve
    \/ SetSilence
    \/ Restart
    \/ Wait

AlertingSpec == AlertingInit /\ [][AlertingNext]_allVars

-----------------------------------------------------------------------------
Sustained ==
    /\ collected = "levels"
    /\ run # None
    /\ clock - run.from >= Duration[run.level]

(* Whatever failed collections, users, restarts, silences and changes of the
   rule do, the alert of a sustained violation is withheld only while the
   checker counts a trigger of that very level as less than a cooldown ago. *)
OnlyCooldownWithholdsAlert ==
    Sustained /\ alert = None =>
        /\ last[run.level] # None
        /\ clock - last[run.level] < Cooldown

(* A sustained violation has an alert unless, since its incident began, its
   level has not triggered (a cooldown left over from an earlier incident
   withholds the trigger), or its last trigger came to nothing, or a user has
   resolved the alert.  In particular neither a recovery below one threshold of
   several nor another level's triggers take the alert away. *)
WithheldHasReason ==
    Sustained /\ alert = None =>
        \/ firedAt[run.level] = None
        \/ run.level \in lost
        \/ dismissed
=============================================================================
