---------------------------- MODULE AlertNotices ----------------------------
(* What the dispatcher promises the receivers of notifications: one notice is on
   its way to the record at a time, to a target of a subscription that matches the
   alert; a recovery follows an alert the same subscription has received, goes to
   a target once, and is the last that is sent of its alert.  Only a recovery that
   never came on record, because the process died or the call was reported as
   failed although it was not, may be sent again.
   NotificationDispatcher implements it. *)
CONSTANTS Alerts, Subs,
          Matches,         \* pairs <<a, s>>: the subscription takes the alert
          AlertTargets,    \* Subs -> the targets that are told of alerts
          RecoveryTargets  \* Subs -> the targets that are told of recoveries

VARIABLES told,   \* pairs <<a, t>>: the alert has been sent to the target
          cured,  \* pairs <<a, t>>: its recovery has been sent to the target
          open,   \* the notice <<mode, a, t>> sent and not on record, or {}
          doubt   \* pairs <<a, t>>: a recovery that never came on record

(* The sender knows that the notice is out, and will record it, or never learns. *)
Sent(mode, a, t, known) ==
    /\ open = {}
    /\ open' = IF known THEN {<<mode, a, t>>} ELSE {}
    /\ doubt' = IF known \/ mode = "alert" THEN doubt ELSE doubt \cup {<<a, t>>}

Tell(a, s, t, known) ==
    /\ Sent("alert", a, t, known)
    /\ <<a, s>> \in Matches /\ t \in AlertTargets[s]
    /\ ~\E p \in cured : p[1] = a
    /\ told' = told \cup {<<a, t>>}
    /\ UNCHANGED cured

Recover(a, s, t, known) ==
    /\ Sent("recovery", a, t, known)
    /\ <<a, s>> \in Matches /\ t \in RecoveryTargets[s]
    /\ \E u \in AlertTargets[s] : <<a, u>> \in told
    /\ <<a, t>> \in cured => <<a, t>> \in doubt
    /\ cured' = cured \cup {<<a, t>>}
    /\ UNCHANGED told

Record ==
    /\ open' = {}
    /\ UNCHANGED <<told, cured, doubt>>

Lose ==
    /\ open' = {}
    /\ doubt' = doubt \cup {<<n[2], n[3]>> : n \in {m \in open : m[1] = "recovery"}}
    /\ UNCHANGED <<told, cured>>

Init == told = {} /\ cured = {} /\ open = {} /\ doubt = {}

Next ==
    \/ Record
    \/ Lose
    \/ \E a \in Alerts, s \in Subs, known \in BOOLEAN :
          \/ \E t \in AlertTargets[s] : Tell(a, s, t, known)
          \/ \E t \in RecoveryTargets[s] : Recover(a, s, t, known)

Spec == Init /\ [][Next]_<<told, cured, open, doubt>>
=============================================================================
