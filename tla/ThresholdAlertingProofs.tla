---------------------- MODULE ThresholdAlertingProofs ----------------------
(* Proofs about ThresholdAlerting: for every set of levels, thresholds, durations
   and cooldown only a cooldown withholds the alert of a sustained violation, and
   within an incident only one whose trigger came to nothing or whose alert a user
   has resolved. *)
EXTENDS ThresholdAlerting, ThresholdCheckerProofs

(* Every step of a collection is a step of the checker or leaves it alone. *)
LEMMA AlertingStep == [AlertingNext]_allVars => [Next]_vars
<1> SUFFICES ASSUME [AlertingNext]_allVars
             PROVE  [Next]_vars
  OBVIOUS
<1>1. ASSUME NEW raise \in BOOLEAN, CheckAndResolve(raise)
      PROVE  Next
  BY <1>1 DEF CheckAndResolve, Next
<1>2. CASE CollectOk
  BY <1>1, <1>2 DEF CollectOk, NotChecked
<1>3. CASE CollectFailed
  BY <1>1, <1>3 DEF CollectFailed, NotChecked
<1>4. CASE UserResolve \/ SetSilence
  BY <1>4 DEF UserResolve, SetSilence
<1>5. CASE Restart \/ Wait
  BY <1>5 DEF Restart, Wait, Next
<1>6. CASE UNCHANGED allVars
  BY <1>6 DEF allVars
<1> QED BY <1>2, <1>3, <1>4, <1>5, <1>6 DEF AlertingNext

-----------------------------------------------------------------------------
(* The checker tracks the level of the current run since the run began. *)
RunTracked ==
    run # None => /\ run.level \in Levels
                  /\ run.from \in Times
                  /\ start[run.level] # None
                  /\ start[run.level] <= run.from

AlertInv == Inv /\ RunTracked /\ OnlyCooldownWithholdsAlert

(* The sample matches one level at most. *)
LEMMA MatchedUnique ==
    ASSUME NEW v, NEW l \in Matched(v), NEW m \in Matched(v)
    PROVE  l = m
<1>1. l \in Nat /\ m \in Nat /\ l <= m /\ m <= l
  BY CheckerAssumption DEF Matched, Violated
<1> QED BY <1>1

(* One sample of the levels rule: the run it extends or begins is tracked, and
   an alert is missing only in a cooldown. *)
LEMMA SampleRun ==
    ASSUME Inv, RunTracked, NEW v \in Values \cup {None}, SampleLevels(v), TrackRun(v)
    PROVE  /\ RunTracked'
           /\ run' # None /\ fired' # None
                => last'[run'.level] # None /\ clock' - last'[run'.level] = 0
           /\ run' # None /\ fired' = None /\ clock' - run'.from >= Duration[run'.level]
                => last'[run'.level] # None /\ clock' - last'[run'.level] < Cooldown
<1> USE Constants DEF Inv
<1>1. CASE v = None \/ Violated(v) = {}
  BY <1>1 DEF TrackRun, RunTracked
<1>2. CASE v # None /\ Violated(v) # {}
  <2>1. PICK l \in Matched(v) : Violation(l, Levels \ {l})
    BY <1>2 DEF SampleLevels, CheckLevels
  <2>2. l \in Levels /\ l \in Key
    BY DEF Matched, Violated
  <2>3. (CHOOSE x \in Matched(v) : TRUE) = l
    BY MatchedUnique
  <2>4. run' = IF run # None /\ run.level = l THEN run ELSE [level |-> l, from |-> clock]
    BY <1>2, <2>3 DEF TrackRun
  <2>5. clock' = clock /\ clock \in Times
    BY DEF SampleLevels, TypeOK
  <2>6. Started(l) \in Times /\ Started(l) <= clock
    BY <2>2 DEF Started, TypeOK
  <2>7. start'[l] = Started(l)
    BY <2>1, <2>2 DEF Violation, TypeOK
  <2>10. ASSUME fired' # None
         PROVE  last'[l] # None /\ clock' - last'[l] = 0
    <3>1. last' = [last EXCEPT ![l] = clock]
      BY <2>1, <2>10 DEF Violation
    <3>2. last'[l] = clock
      BY <2>2, <3>1 DEF TypeOK
    <3>3. clock # None /\ clock \in Nat
      BY <2>5, CheckerAssumption DEF Times
    <3> QED BY <2>5, <3>2, <3>3
  <2>8. CASE run # None /\ run.level = l
    <3>1. run' = run /\ Started(l) = start[l]
      BY <2>4, <2>8 DEF RunTracked, Started
    <3>2. RunTracked'
      BY <2>6, <2>7, <2>8, <3>1 DEF RunTracked
    <3>3. ASSUME fired' = None, clock' - run'.from >= Duration[run'.level]
          PROVE  last'[l] # None /\ clock' - last'[l] < Cooldown
      <4>1. ~Due(l) /\ last' = last
        BY <2>1, <2>2, <3>3 DEF Violation
      <4>2. clock - Started(l) >= Duration[l]
        BY <2>2, <2>5, <2>6, <2>8, <3>1, <3>3 DEF RunTracked
      <4>3. last[l] # None /\ ~(clock - last[l] >= Cooldown)
        BY <4>1, <4>2 DEF Due
      <4>4. last[l] \in Int /\ Cooldown \in Int
        BY <2>2, <4>3, CheckerAssumption DEF TypeOK
      <4> QED BY <2>5, <4>1, <4>3, <4>4
    <3> QED BY <2>8, <2>10, <3>1, <3>2, <3>3
  <2>9. CASE ~(run # None /\ run.level = l)
    <3>1. run' = [level |-> l, from |-> clock]
      BY <2>4, <2>9
    <3>2. run'.level = l /\ run'.from = clock
      BY <3>1
    <3>3. RunTracked'
      BY <2>2, <2>5, <2>6, <2>7, <3>2 DEF RunTracked
    <3>4. ASSUME fired' = None, clock' - run'.from >= Duration[run'.level]
          PROVE  last'[l] # None /\ clock' - last'[l] < Cooldown
      <4>1. ~Due(l) /\ last' = last
        BY <2>1, <2>2, <3>4 DEF Violation
      <4>2. clock - Started(l) >= Duration[l]
        BY <2>2, <2>5, <2>6, <3>2, <3>4
      <4>3. last[l] # None /\ ~(clock - last[l] >= Cooldown)
        BY <4>1, <4>2 DEF Due
      <4>4. last[l] \in Int /\ Cooldown \in Int
        BY <2>2, <4>3, CheckerAssumption DEF TypeOK
      <4> QED BY <2>5, <4>1, <4>3, <4>4
    <3> QED BY <2>10, <3>2, <3>3, <3>4
  <2> QED BY <2>8, <2>9
<1> QED BY <1>1, <1>2

(* A sample of the expression rule leaves the levels alone. *)
LEMMA ExpressionRun ==
    ASSUME Inv, RunTracked, NEW b \in BOOLEAN, SampleExpression(b), UNCHANGED run
    PROVE  RunTracked'
<1> USE Constants DEF Inv
<1>1. \A l \in Levels : start'[l] = start[l]
  <2>1. CASE b
    BY <2>1 DEF SampleExpression, CheckExpression, Violation, TypeOK
  <2>2. CASE ~b
    BY <2>2 DEF SampleExpression, CheckExpression, Clear, TypeOK
  <2> QED BY <2>1, <2>2
<1> QED BY <1>1 DEF RunTracked

LEMMA AlertingNextInv ==
    ASSUME AlertInv, [AlertingNext]_allVars
    PROVE  AlertInv'
<1> USE DEF AlertInv
<1>1. Inv'
  BY AlertingStep, NextInv
<1>2. ASSUME NEW raise \in BOOLEAN, CheckAndResolve(raise)
      PROVE  RunTracked' /\ OnlyCooldownWithholdsAlert'
  <2>1. ASSUME NEW v \in Values \cup {None}, SampleLevels(v), TrackRun(v)
        PROVE  RunTracked' /\ OnlyCooldownWithholdsAlert'
    <3>1. /\ RunTracked'
          /\ run' # None /\ fired' # None
                => last'[run'.level] # None /\ clock' - last'[run'.level] = 0
          /\ run' # None /\ fired' = None /\ clock' - run'.from >= Duration[run'.level]
                => last'[run'.level] # None /\ clock' - last'[run'.level] < Cooldown
      BY <2>1, SampleRun
    <3>2. 0 < Cooldown
      BY CheckerAssumption, AlertingAssumption
    <3> QED BY <3>1, <3>2 DEF OnlyCooldownWithholdsAlert, Sustained
  <2>2. ASSUME NEW b \in BOOLEAN, SampleExpression(b), UNCHANGED run,
               collected' = IF raise THEN "expression" ELSE "failed"
        PROVE  RunTracked' /\ OnlyCooldownWithholdsAlert'
    BY <2>2, ExpressionRun DEF OnlyCooldownWithholdsAlert, Sustained
  <2> QED BY <1>2, <2>1, <2>2 DEF CheckAndResolve
<1>3. CASE CollectOk
  <2>1. CASE CheckAndResolve(TRUE)
    BY <1>1, <1>2, <2>1
  <2>2. CASE NotChecked /\ collected' = "unchecked"
    BY <1>1, <2>2 DEF NotChecked, vars, RunTracked, OnlyCooldownWithholdsAlert, Sustained
  <2> QED BY <1>3, <2>1, <2>2 DEF CollectOk
<1>4. CASE CollectFailed
  <2>1. CASE CheckAndResolve(FALSE)
    BY <1>1, <1>2, <2>1
  <2>2. CASE NotChecked /\ collected' = "failed"
    BY <1>1, <2>2 DEF NotChecked, vars, RunTracked, OnlyCooldownWithholdsAlert, Sustained
  <2> QED BY <1>4, <2>1, <2>2 DEF CollectFailed
<1>5. CASE UserResolve \/ SetSilence
  BY <1>1, <1>5 DEF UserResolve, SetSilence, vars, RunTracked, OnlyCooldownWithholdsAlert, Sustained
<1>6. CASE Restart
  BY <1>1, <1>6 DEF Restart, RunTracked, OnlyCooldownWithholdsAlert, Sustained
<1>7. CASE Wait
  BY <1>1, <1>7 DEF Wait, Tick, RunTracked, OnlyCooldownWithholdsAlert, Sustained
<1>8. CASE UNCHANGED allVars
  BY <1>1, <1>8 DEF allVars, vars, alerting, RunTracked, OnlyCooldownWithholdsAlert, Sustained
<1> QED BY <1>3, <1>4, <1>5, <1>6, <1>7, <1>8 DEF AlertingNext

(* The alert of a violation sustained for its duration is withheld only while a
   trigger of the same level is less than a cooldown ago, whatever failed
   collections, users, silences, restarts and rule changes do. *)
THEOREM OnlyCooldownWithholds == AlertingSpec => []OnlyCooldownWithholdsAlert
<1>1. AlertingInit => AlertInv
  BY InitInv DEF AlertingInit, AlertInv, RunTracked, OnlyCooldownWithholdsAlert, Sustained
<1>2. AlertInv => OnlyCooldownWithholdsAlert
  BY DEF AlertInv
<1> QED BY <1>1, <1>2, AlertingNextInv, PTL DEF AlertingSpec
-----------------------------------------------------------------------------
(* A trigger of this incident that did not come to nothing has left an alert, or
   a user has resolved it. *)
TriggersAreAnswered ==
    \A l \in Levels : firedAt[l] # None /\ l \notin lost => alert # None \/ dismissed

(* A value below the lowest threshold exceeds none. *)
LEMMA RecoveredIsClear ==
    ASSUME NEW v \in Values \cup {None}, HasRecovered(v)
    PROVE  v # None /\ Violated(v) = {}
<1>1. PICK l \in Lowest : v < Threshold[l]
  BY DEF HasRecovered
<1>2. v # None /\ v \in Nat
  BY CheckerAssumption DEF HasRecovered, Values
<1>3. \A m \in Levels : Threshold[l] \in Nat /\ Threshold[m] \in Nat /\ Threshold[l] <= Threshold[m]
  BY CheckerAssumption DEF Lowest
<1> QED BY <1>1, <1>2, <1>3 DEF Violated

(* One sample of the levels rule: a trigger that is followed up ends with an
   alert, and only a sample that ends the incident takes the alert away. *)
LEMMA SampleAnswered ==
    ASSUME Inv, TriggersAreAnswered, NEW v \in Values \cup {None}, SampleLevels(v),
           NEW open \in {alert, AfterRecovery(v)}, NEW raises \in BOOLEAN,
           alert' = IF raises THEN AfterViolations(open) ELSE open,
           lost' = {l \in Levels : /\ firedAt'[l] # None
                                   /\ IF fired' = l THEN ~raises ELSE l \in lost},
           dismissed' = (dismissed /\ Triggered' /\ alert' = None)
    PROVE  TriggersAreAnswered'
<1> USE Constants DEF Inv
<1>1. CASE v = None \/ Violated(v) = {}
  <2>1. \A l \in Levels : firedAt'[l] = None
    BY <1>1 DEF SampleLevels, Observe, TypeOK, Key
  <2> QED BY <2>1 DEF TriggersAreAnswered
<1>2. CASE v # None /\ Violated(v) # {}
  <2>1. open = alert
    BY <1>2, RecoveredIsClear DEF AfterRecovery
  <2>2. \A l \in Levels : firedAt'[l] = IF fired' = l THEN clock ELSE firedAt[l]
    BY <1>2 DEF SampleLevels, Observe, Key
  <2>3. ASSUME NEW l \in Levels, firedAt'[l] # None, l \notin lost'
        PROVE  alert' # None \/ dismissed'
    <3>1. l # None
      BY CheckerAssumption DEF Key
    <3>2. IF fired' = l THEN raises ELSE l \notin lost
      BY <2>3
    <3>3. CASE fired' = l
      BY <2>1, <3>1, <3>2, <3>3 DEF AfterViolations
    <3>4. CASE fired' # l
      <4>1. alert # None \/ dismissed
        BY <2>2, <2>3, <3>2, <3>4 DEF TriggersAreAnswered
      <4>2. alert # None => alert' = alert
        BY <2>1 DEF AfterViolations
      <4>3. Triggered'
        BY <2>3 DEF Triggered
      <4> QED BY <4>1, <4>2, <4>3
    <3> QED BY <3>3, <3>4
  <2> QED BY <2>3 DEF TriggersAreAnswered
<1> QED BY <1>1, <1>2

LEMMA AnsweredStep ==
    ASSUME Inv, TriggersAreAnswered, [AlertingNext]_allVars
    PROVE  TriggersAreAnswered'
<1>1. ASSUME NEW raise \in BOOLEAN, CheckAndResolve(raise)
      PROVE  TriggersAreAnswered'
  <2>1. ASSUME NEW b \in BOOLEAN, SampleExpression(b), UNCHANGED <<alert, lost, dismissed>>
        PROVE  TriggersAreAnswered'
    <3>1. \A l \in Levels : firedAt'[l] = firedAt[l]
      <4>1. \A l \in Levels : l \in Key /\ l # Expr /\ fired' \in {Expr, None}
        BY <2>1, CheckerAssumption
           DEF SampleExpression, CheckExpression, Violation, Clear, Key
      <4>2. \A l \in Levels : l # None
        BY CheckerAssumption DEF Key
      <4> QED BY <2>1, <4>1, <4>2 DEF SampleExpression, Observe
    <3> QED BY <2>1, <3>1 DEF TriggersAreAnswered
  <2>2. ASSUME NEW v \in Values \cup {None}, SampleLevels(v),
               NEW open \in {alert, AfterRecovery(v)}, NEW raises \in {raise, FALSE},
               alert' = IF raises THEN AfterViolations(open) ELSE open,
               lost' = {l \in Levels : /\ firedAt'[l] # None
                                       /\ IF fired' = l THEN ~raises ELSE l \in lost},
               dismissed' = (dismissed /\ Triggered' /\ alert' = None)
        PROVE  TriggersAreAnswered'
    BY <2>2, SampleAnswered
  <2> QED BY <1>1, <2>1, <2>2 DEF CheckAndResolve
<1>2. CASE CollectOk \/ CollectFailed
  <2>1. CASE NotChecked
    BY <2>1 DEF NotChecked, vars, TriggersAreAnswered
  <2> QED BY <1>1, <1>2, <2>1 DEF CollectOk, CollectFailed
<1>3. CASE UserResolve
  BY <1>3 DEF UserResolve, vars, TriggersAreAnswered, Triggered
<1>4. CASE SetSilence
  BY <1>4 DEF SetSilence, vars, TriggersAreAnswered
<1>5. CASE Restart
  BY <1>5 DEF Restart, Reset, Nothing, Key, TriggersAreAnswered
<1>6. CASE Wait
  BY <1>6 DEF Wait, Tick, TriggersAreAnswered
<1>7. CASE UNCHANGED allVars
  BY <1>7 DEF allVars, vars, alerting, TriggersAreAnswered
<1> QED BY <1>2, <1>3, <1>4, <1>5, <1>6, <1>7 DEF AlertingNext

(* A sustained violation without an alert has one of three reasons: its level has
   not triggered in this incident, the trigger came to nothing, or a user has
   resolved the alert. *)
THEOREM AlertsAreMissedForAReason == AlertingSpec => []WithheldHasReason
<1>1. AlertingInit => Inv /\ TriggersAreAnswered
  BY InitInv DEF AlertingInit, Init, Nothing, Key, TriggersAreAnswered
<1>2. ASSUME Inv /\ RunTracked /\ OnlyCooldownWithholdsAlert /\ TriggersAreAnswered,
             [AlertingNext]_allVars
      PROVE  (Inv /\ RunTracked /\ OnlyCooldownWithholdsAlert /\ TriggersAreAnswered)'
  BY <1>2, AlertingNextInv, AnsweredStep DEF AlertInv
<1>3. RunTracked /\ TriggersAreAnswered => WithheldHasReason
  BY DEF RunTracked, TriggersAreAnswered, WithheldHasReason, Sustained
<1>4. AlertingInit => RunTracked /\ OnlyCooldownWithholdsAlert
  BY DEF AlertingInit, RunTracked, OnlyCooldownWithholdsAlert, Sustained
<1> QED BY <1>1, <1>2, <1>3, <1>4, PTL DEF AlertingSpec
=============================================================================
