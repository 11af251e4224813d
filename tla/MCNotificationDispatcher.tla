---------------------- MODULE MCNotificationDispatcher ----------------------
(* Two alerts of one event, the second more severe; one subscription with two
   targets, or two subscriptions with one target each or two for recoveries. *)
EXTENDS NotificationDispatcher, TLC

CONSTANTS a1, a2, s1, s2, t1, t2, t3

OneEvent == [a \in Alerts |-> "event"]
OwnEvents == [a \in Alerts |-> IF a = a1 THEN "first" ELSE "second"]
Rising == [a \in Alerts |-> IF a = a2 THEN 2 ELSE 1]
AllMatch == Alerts \X Subs
FirstMatches == {a1} \X Subs
BothTargets == [s \in Subs |-> {t1, t2}]
OwnTarget == [s \in Subs |-> IF s = s1 THEN {t1} ELSE {t2}]
TwoAndOne == [s \in Subs |-> IF s = s1 THEN {t1, t2} ELSE {t3}]
OneAndOne == [s \in Subs |-> IF s = s1 THEN {t2} ELSE {t3}]
NoTargets == [s \in Subs |-> {}]
TargetSymmetry == Permutations({t1, t2})
=============================================================================
