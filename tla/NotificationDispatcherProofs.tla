----------------------- MODULE NotificationDispatcherProofs -----------------------
(* The safety of NotificationDispatcher, for any alerts, subscriptions, targets,
   cooldowns and restarts. *)
EXTENDS NotificationDispatcher, TLAPS

CycleRecords ==
    [pc : {"idle", "recover", "probe", "alerts", "silence", "clear", "subs", "targets", "log"},
     mode : {"alert", "recovery"}, batch : SUBSET Alerts, withEvent : SUBSET Alerts,
     probe : BOOLEAN, alert : Alerts \cup {None}, subs : SUBSET Subs, sub : Subs \cup {None},
     targets : SUBSET Targets, target : Targets \cup {None}, ok : BOOLEAN, any : BOOLEAN]

(* The dispatcher is between the choice of a subscription and its last target *)
Sending(mode) == cycle.mode = mode /\ cycle.pc \in {"targets", "log"}

(* A target has received the notification that is not logged yet *)
Unlogged(mode) == cycle.mode = mode /\ cycle.pc = "log" /\ cycle.ok

CycleInv ==
    /\ cycle \in CycleRecords
    /\ cycle.pc \in {"silence", "clear", "subs", "targets", "log"} => cycle.alert \in Alerts
    /\ cycle.pc \in {"targets", "log"} => cycle.sub \in Subs /\ cycle.targets \subseteq TargetsOf(cycle.sub)
    /\ cycle.pc = "log" => cycle.target \in TargetsOf(cycle.sub) \ cycle.targets

(* Recoveries are sent where a delivery is logged, and that was received *)
ReceivedInv ==
    /\ \A a \in Alerts, s \in Subs :
          sent[a][s] # None => \E t \in AlertTargets[s] : heard[a][t] # None
    /\ Unlogged("alert") => heard[cycle.alert][cycle.target] # None
    /\ Sending("recovery") => sent[cycle.alert][cycle.sub] # None
    /\ \A a \in Alerts, s \in Subs : \A t \in RecoveryTargets[s] :
          cured[a][t] > 0 => sent[a][s] # None

(* A recovery that was received is logged or about to be, unless it is doubted *)
RecoveryInv ==
    /\ \A a \in Alerts, s \in Subs : \A t \in RecoveryTargets[s] :
          cured[a][t] > 0 /\ <<a, t>> \notin doubted =>
              \/ recovered[a][s]
              \/ Unlogged("recovery") /\ cycle.alert = a /\ cycle.sub = s /\ cycle.target = t
    /\ Sending("recovery") =>
          \A t \in cycle.targets :
              <<cycle.alert, t>> \notin doubted => cured[cycle.alert][t] = 0
    /\ OneRecoveryPerAlert

(* What has recovered is never active again, nor in a batch of alerts *)
ActiveInv ==
    /\ \A a \in Alerts, t \in Targets : cured[a][t] > 0 => status[a] \notin {"none", "active"}
    /\ \A a \in cycle.batch \cup ({cycle.alert} \ {None}) :
          IF cycle.mode = "alert" THEN \A t \in Targets : cured[a][t] = 0
                                  ELSE status[a] \notin {"none", "active"}

(* What was received lately is logged as lately or about to be, and what is being
   sent is more severe *)
StormInv ==
    /\ \A a \in cycle.withEvent : linked[a]
    /\ \A b \in Alerts, s \in Subs : \A t \in AlertTargets[s] :
          heard[b][t] # None /\ <<b, t>> \notin excused =>
              /\ linked[b]
              /\ \/ /\ sent[b][s] # None
                    /\ heard[b][t] < Cooldown => sent[b][s] <= heard[b][t]
                 \/ Unlogged("alert") /\ cycle.alert = b /\ cycle.sub = s /\ cycle.target = t
    /\ Sending("alert") /\ cycle.alert \in cycle.withEvent =>
          \A b \in Alerts, t \in cycle.targets :
              /\ EventOf[b] = EventOf[cycle.alert]
              /\ <<b, t>> \notin excused
              /\ heard[b][t] # None /\ heard[b][t] < Cooldown
              => Severity[b] < Severity[cycle.alert]

(* The part of TypeOK that is not about the cycle *)
DataOK ==
    /\ status \in [Alerts -> {"none", "active", "acknowledged", "resolved"}]
    /\ linked \in [Alerts -> BOOLEAN]
    /\ notified \in [Alerts -> Ages(Cooldown)]
    /\ resolved \in [Alerts -> Ages(Window + 1)]
    /\ sent \in [Alerts -> [Subs -> Ages(Cooldown + 1)]]
    /\ recovered \in [Alerts -> [Subs -> BOOLEAN]]
    /\ silence \in Ages(MaxSilence)
    /\ deleted \in BOOLEAN
    /\ heard \in [Alerts -> [Targets -> Ages(Cooldown)]]
    /\ cured \in [Alerts -> [Targets -> 0..2]]
    /\ excused \subseteq Alerts \X Targets /\ doubted \subseteq Alerts \X Targets

IndInv == DataOK /\ CycleInv /\ ReceivedInv /\ RecoveryInv /\ ActiveInv /\ StormInv
-----------------------------------------------------------------------------
LEMMA TargetsAreTargets ==
    ASSUME NEW s \in Subs
    PROVE  /\ TargetsOf(s) \subseteq Targets
           /\ AlertTargets[s] \subseteq Targets
           /\ RecoveryTargets[s] \subseteq Targets
BY DEF TargetsOf, Targets

(* A target belongs to one subscription *)
LEMMA OneOwner ==
    ASSUME NEW r \in Subs, NEW s \in Subs,
           NEW t \in AlertTargets[r] \cup RecoveryTargets[r],
           t \in AlertTargets[s] \cup RecoveryTargets[s]
    PROVE  r = s
BY DispatcherAssumption

LEMMA InvTyped == IndInv => TypeOK
BY TargetsAreTargets DEF IndInv, DataOK, CycleInv, CycleRecords, TypeOK

LEMMA InitInv == Init => IndInv
<1>. SUFFICES ASSUME Init PROVE IndInv
    OBVIOUS
<1>1. DataOK
    <2>1. \A cap : None \in Ages(cap)
        BY DEF Ages
    <2>2. sent \in [Alerts -> [Subs -> Ages(Cooldown + 1)]]
        BY <2>1 DEF Init
    <2>3. heard \in [Alerts -> [Targets -> Ages(Cooldown)]]
        BY <2>1 DEF Init
    <2>4. cured \in [Alerts -> [Targets -> 0..2]]
        BY DEF Init
    <2>5. recovered \in [Alerts -> [Subs -> BOOLEAN]]
        BY DEF Init
    <2>6. /\ notified \in [Alerts -> Ages(Cooldown)] /\ resolved \in [Alerts -> Ages(Window + 1)]
          /\ silence \in Ages(MaxSilence)
        BY <2>1 DEF Init
    <2>. QED BY <2>2, <2>3, <2>4, <2>5, <2>6 DEF Init, DataOK
<1>2. CycleInv
    BY DEF Init, CycleInv, CycleRecords, Idle
<1>3. ReceivedInv
    <2>1. \A a \in Alerts, t \in Targets : cured[a][t] = 0
        BY DEF Init
    <2>2. \A s \in Subs : RecoveryTargets[s] \subseteq Targets
        BY TargetsAreTargets
    <2>. QED BY <2>1, <2>2 DEF Init, ReceivedInv, Idle, Unlogged, Sending
<1>4. RecoveryInv
    <2>1. \A a \in Alerts, t \in Targets : cured[a][t] = 0
        BY DEF Init
    <2>2. \A s \in Subs : RecoveryTargets[s] \subseteq Targets
        BY TargetsAreTargets
    <2>3. OneRecoveryPerAlert
        BY <2>1 DEF OneRecoveryPerAlert
    <2>. QED BY <2>1, <2>2, <2>3 DEF Init, RecoveryInv, Idle, Unlogged, Sending
<1>5. ActiveInv
    BY DEF Init, ActiveInv, Idle
<1>6. StormInv
    <2>1. \A a \in Alerts, t \in Targets : heard[a][t] = None
        BY DEF Init
    <2>2. \A s \in Subs : AlertTargets[s] \subseteq Targets
        BY TargetsAreTargets
    <2>. QED BY <2>1, <2>2 DEF Init, StormInv, Idle, Unlogged, Sending
<1>. QED BY <1>1, <1>2, <1>3, <1>4, <1>5, <1>6 DEF IndInv

(* A step of the dispatcher between two subscriptions *)
LEMMA Between ==
    ASSUME IndInv, cycle.pc # "log", cycle' \in CycleRecords,
           cycle'.pc \notin {"targets", "log"},
           cycle'.pc \in {"silence", "clear", "subs"} => cycle'.alert \in Alerts,
           UNCHANGED <<status, linked, sent, recovered, heard, cured, excused, doubted>>,
           \A a \in cycle'.withEvent : linked[a],
           \A a \in cycle'.batch \cup ({cycle'.alert} \ {None}) :
               IF cycle'.mode = "alert" THEN \A t \in Targets : cured[a][t] = 0
                                        ELSE status[a] \notin {"none", "active"}
    PROVE  CycleInv' /\ ReceivedInv' /\ RecoveryInv' /\ ActiveInv' /\ StormInv'
<1>1. CycleInv'
    BY DEF CycleInv
<1>2. ReceivedInv'
    BY DEF IndInv, ReceivedInv, Sending, Unlogged
<1>3. RecoveryInv'
    BY DEF IndInv, RecoveryInv, Sending, Unlogged, OneRecoveryPerAlert
<1>4. ActiveInv'
    BY DEF IndInv, ActiveInv
<1>5. StormInv'
    BY DEF IndInv, StormInv, Sending, Unlogged
<1>. QED BY <1>1, <1>2, <1>3, <1>4, <1>5

(* ... that goes on with the alerts of the batch it has *)
LEMMA Within ==
    ASSUME IndInv, cycle.pc # "log", cycle' \in CycleRecords,
           cycle'.pc \notin {"targets", "log"},
           cycle'.pc \in {"silence", "clear", "subs"} => cycle'.alert \in Alerts,
           UNCHANGED <<status, linked, sent, recovered, heard, cured, excused, doubted>>,
           cycle'.withEvent = cycle.withEvent, cycle'.mode = cycle.mode,
           cycle'.batch \subseteq cycle.batch,
           cycle'.alert \in cycle.batch \cup {cycle.alert, None}
    PROVE  CycleInv' /\ ReceivedInv' /\ RecoveryInv' /\ ActiveInv' /\ StormInv'
<1>1. \A a \in cycle'.withEvent : linked[a]
    BY DEF IndInv, StormInv
<1>2. cycle'.batch \cup ({cycle'.alert} \ {None}) \subseteq cycle.batch \cup ({cycle.alert} \ {None})
    OBVIOUS
<1>3. \A a \in cycle'.batch \cup ({cycle'.alert} \ {None}) :
          IF cycle'.mode = "alert" THEN \A t \in Targets : cured[a][t] = 0
                                   ELSE status[a] \notin {"none", "active"}
    BY <1>2 DEF IndInv, ActiveInv
<1>. QED BY <1>1, <1>3, Between

LEMMA IdleTyped ==
    /\ Idle \in CycleRecords
    /\ Idle.pc = "idle" /\ Idle.mode = "alert" /\ Idle.alert = None
    /\ Idle.batch = {} /\ Idle.withEvent = {} /\ Idle.subs = {}
BY DEF Idle, CycleRecords

LEMMA StartCycleInv == IndInv /\ StartCycle => IndInv'
<1>. SUFFICES ASSUME IndInv, StartCycle PROVE IndInv'
    OBVIOUS
<1>1. /\ cycle' \in CycleRecords
      /\ cycle'.pc \in {"recover", "probe"} /\ cycle'.mode = "alert" /\ cycle'.alert = None
      /\ cycle'.batch = Due /\ cycle'.withEvent = {a \in Due : linked[a]}
    <2>1. Due \subseteq Alerts
        BY DEF Due
    <2>. QED BY <2>1 DEF StartCycle, Idle, CycleRecords
<1>2. ASSUME NEW a \in Due, NEW t \in Targets
      PROVE  cured[a][t] = 0
    <2>1. a \in Alerts /\ status[a] = "active"
        BY DEF Due
    <2>2. cured[a][t] \in 0..2
        BY <2>1 DEF IndInv, DataOK
    <2>. QED BY <2>1, <2>2 DEF IndInv, ActiveInv
<1>3. CycleInv' /\ ReceivedInv' /\ RecoveryInv' /\ ActiveInv' /\ StormInv'
    BY <1>1, <1>2, Between DEF StartCycle, rows, logs, history
<1>4. DataOK'
    BY DEF IndInv, DataOK, StartCycle, rows, logs, datasource, history
<1>. QED BY <1>3, <1>4 DEF IndInv

LEMMA StartRecoveryInv == IndInv /\ StartRecovery => IndInv'
<1>. SUFFICES ASSUME IndInv, StartRecovery PROVE IndInv'
    OBVIOUS
<1>1. /\ cycle' \in CycleRecords
      /\ cycle'.pc \in {"idle", "probe"} /\ cycle'.alert = None /\ cycle'.withEvent = {}
      /\ \/ cycle'.batch = {}
         \/ cycle'.batch = DueRecovery /\ cycle'.mode = "recovery"
    <2>1. DueRecovery \subseteq Alerts
        BY DEF DueRecovery
    <2>. QED BY <2>1 DEF StartRecovery, Idle, CycleRecords
<1>2. \A a \in DueRecovery : status[a] \notin {"none", "active"}
    BY DEF DueRecovery
<1>3. CycleInv' /\ ReceivedInv' /\ RecoveryInv' /\ ActiveInv' /\ StormInv'
    BY <1>1, <1>2, Between DEF StartRecovery, rows, logs, history
<1>4. DataOK'
    BY DEF IndInv, DataOK, StartRecovery, rows, logs, datasource, history
<1>. QED BY <1>3, <1>4 DEF IndInv

LEMMA ReadProbeInv == IndInv /\ ReadProbe => IndInv'
<1>. SUFFICES ASSUME IndInv, ReadProbe PROVE IndInv'
    OBVIOUS
<1>1. /\ cycle' \in CycleRecords
      /\ cycle'.pc = "alerts" /\ cycle'.alert = cycle.alert /\ cycle'.mode = cycle.mode
      /\ cycle'.batch = cycle.batch /\ cycle'.withEvent = cycle.withEvent
    BY DEF ReadProbe, IndInv, CycleInv, CycleRecords
<1>2. CycleInv' /\ ReceivedInv' /\ RecoveryInv' /\ ActiveInv' /\ StormInv'
    BY <1>1, Within DEF ReadProbe, rows, logs, history
<1>3. DataOK'
    BY DEF IndInv, DataOK, ReadProbe, rows, logs, datasource, history
<1>. QED BY <1>2, <1>3 DEF IndInv

LEMMA TakeAlertInv ==
    ASSUME IndInv, NEW a \in Alerts, TakeAlert(a)
    PROVE  IndInv'
<1>1. /\ cycle' \in CycleRecords
      /\ \/ cycle'.pc = "alerts" /\ cycle'.alert = cycle.alert
         \/ cycle'.pc = "silence" /\ cycle'.alert = a
      /\ a \in cycle.batch /\ cycle'.mode = cycle.mode
      /\ cycle'.batch \subseteq cycle.batch /\ cycle'.withEvent = cycle.withEvent
    BY DEF TakeAlert, IndInv, CycleInv, CycleRecords
<1>2. CycleInv' /\ ReceivedInv' /\ RecoveryInv' /\ ActiveInv' /\ StormInv'
    BY <1>1, Within DEF TakeAlert, rows, logs, history
<1>3. DataOK'
    BY DEF IndInv, DataOK, TakeAlert, rows, logs, datasource, history
<1>. QED BY <1>2, <1>3 DEF IndInv

LEMMA EndBatchInv == IndInv /\ EndBatch => IndInv'
<1>. SUFFICES ASSUME IndInv, EndBatch PROVE IndInv'
    OBVIOUS
<1>1. /\ cycle' \in CycleRecords
      /\ cycle'.pc \in {"recover", "idle"} /\ cycle'.alert = None
      /\ cycle'.batch = {} /\ cycle'.withEvent = {}
    BY DEF EndBatch, Idle, CycleRecords
<1>2. CycleInv' /\ ReceivedInv' /\ RecoveryInv' /\ ActiveInv' /\ StormInv'
    BY <1>1, Between DEF EndBatch, rows, logs, history
<1>3. DataOK'
    BY DEF IndInv, DataOK, EndBatch, rows, logs, datasource, history
<1>. QED BY <1>2, <1>3 DEF IndInv

LEMMA SilenceInv == IndInv /\ (CheckSilence \/ ClearSilence) => IndInv'
<1>. SUFFICES ASSUME IndInv, CheckSilence \/ ClearSilence PROVE IndInv'
    OBVIOUS
<1>1. /\ cycle' \in CycleRecords
      /\ \/ cycle'.pc \in {"clear", "subs"} /\ cycle'.alert = cycle.alert
         \/ cycle'.pc = "alerts" /\ cycle'.alert = None
      /\ cycle.alert \in Alerts /\ cycle.pc # "log" /\ cycle'.mode = cycle.mode
      /\ cycle'.batch = cycle.batch /\ cycle'.withEvent = cycle.withEvent
    <2>1. cycle \in CycleRecords /\ cycle.alert \in Alerts /\ cycle.pc \in {"silence", "clear"}
        BY DEF CheckSilence, ClearSilence, IndInv, CycleInv
    <2>2. \/ cycle' = [cycle EXCEPT !.pc = "clear"]
          \/ cycle' = [cycle EXCEPT !.pc = "subs", !.subs = Subs]
          \/ cycle' = [cycle EXCEPT !.pc = "alerts", !.alert = None]
        BY DEF CheckSilence, ClearSilence, Admit, NextAlert
    <2>. QED BY <2>1, <2>2 DEF CycleRecords
<1>2. CycleInv' /\ ReceivedInv' /\ RecoveryInv' /\ ActiveInv' /\ StormInv'
    BY <1>1, Within DEF CheckSilence, ClearSilence, rows, logs, history
<1>3. DataOK'
    <2>1. silence' \in Ages(MaxSilence)
        BY DEF CheckSilence, ClearSilence, datasource, Ages, IndInv, DataOK
    <2>. QED BY <2>1 DEF IndInv, DataOK, CheckSilence, ClearSilence, rows, logs, datasource, history
<1>. QED BY <1>2, <1>3 DEF IndInv

LEMMA EndSubsInv == IndInv /\ EndSubs => IndInv'
<1>. SUFFICES ASSUME IndInv, EndSubs PROVE IndInv'
    OBVIOUS
<1>1. /\ cycle' \in CycleRecords
      /\ cycle'.pc = "alerts" /\ cycle'.alert = None /\ cycle'.mode = cycle.mode
      /\ cycle'.batch = cycle.batch /\ cycle'.withEvent = cycle.withEvent
    BY DEF EndSubs, NextAlert, IndInv, CycleInv, CycleRecords
<1>2. CycleInv' /\ ReceivedInv' /\ RecoveryInv' /\ ActiveInv' /\ StormInv'
    BY <1>1, Within DEF EndSubs, rows, logs, history
<1>3. DataOK'
    BY DEF IndInv, DataOK, EndSubs, rows, logs, datasource, history
<1>. QED BY <1>2, <1>3 DEF IndInv

LEMMA EndTargetsInv == IndInv /\ EndTargets => IndInv'
<1>. SUFFICES ASSUME IndInv, EndTargets PROVE IndInv'
    OBVIOUS
<1>1. /\ cycle' \in CycleRecords
      /\ cycle'.pc = "subs" /\ cycle'.alert = cycle.alert /\ cycle'.mode = cycle.mode
      /\ cycle.alert \in Alerts
      /\ cycle'.batch = cycle.batch /\ cycle'.withEvent = cycle.withEvent
    BY DEF EndTargets, IndInv, CycleInv, CycleRecords
<1>2. CycleInv' /\ ReceivedInv' /\ RecoveryInv' /\ ActiveInv' /\ StormInv'
    BY <1>1, Within DEF EndTargets, logs, history
<1>3. DataOK'
    <2>1. 0 \in Ages(Cooldown)
        BY DispatcherAssumption DEF Ages
    <2>2. notified' \in [Alerts -> Ages(Cooldown)]
        BY <1>1, <2>1 DEF EndTargets, IndInv, DataOK
    <2>. QED BY <2>2 DEF IndInv, DataOK, EndTargets, logs, datasource, history
<1>. QED BY <1>2, <1>3 DEF IndInv

(* The checks of DefaultRule, made just before a subscription's targets are called *)
LEMMA RuleHolds ==
    ASSUME IndInv, NEW a \in Alerts, NEW s \in Subs, DefaultRule(a, s), a \in cycle.withEvent,
           cycle.pc = "subs",
           NEW b \in Alerts, NEW t \in AlertTargets[s],
           EventOf[b] = EventOf[a], <<b, t>> \notin excused, heard[b][t] # None, heard[b][t] < Cooldown
    PROVE  Severity[b] < Severity[a]
<1>1. linked[b] /\ sent[b][s] # None /\ sent[b][s] <= heard[b][t]
    BY DEF IndInv, StormInv, Unlogged
<1>2. b \in Deliveries(a, s)
    BY <1>1 DEF Deliveries
<1>3. sent[b][s] \in Nat /\ heard[b][t] \in Nat /\ Cooldown \in Nat
    BY <1>1, TargetsAreTargets, DispatcherAssumption DEF IndInv, DataOK, Ages
<1>4. ~(sent[b][s] >= Cooldown)
    BY <1>1, <1>3
<1>. QED BY <1>2, <1>4 DEF DefaultRule, Escalated

LEMMA TakeSubInv ==
    ASSUME IndInv, NEW s \in Subs, NEW inRange \in BOOLEAN, TakeSub(s, inRange)
    PROVE  IndInv'
<1>1. DataOK'
    BY DEF IndInv, DataOK, TakeSub, rows, logs, datasource, history
<1>2. cycle \in CycleRecords /\ cycle.alert \in Alerts /\ cycle.pc = "subs"
    BY DEF TakeSub, IndInv, CycleInv
<1>. DEFINE a == cycle.alert
            go == <<a, s>> \in Matches /\ inRange /\ Wants(a, s) /\ OfAlive(a)
<1>3. UNCHANGED <<status, linked, sent, recovered, heard, cured, excused, doubted>>
    BY DEF TakeSub, rows, logs, history
<1>4. CASE ~go
    <2>1. cycle' = [cycle EXCEPT !.subs = @ \ {s}]
        BY <1>4 DEF TakeSub
    <2>2. /\ cycle' \in CycleRecords
          /\ cycle'.pc = "subs" /\ cycle'.alert = cycle.alert /\ cycle'.mode = cycle.mode
          /\ cycle'.batch = cycle.batch /\ cycle'.withEvent = cycle.withEvent
        BY <2>1, <1>2 DEF CycleRecords
    <2>3. CycleInv' /\ ReceivedInv' /\ RecoveryInv' /\ ActiveInv' /\ StormInv'
        BY <2>2, <1>2, <1>3, Within
    <2>. QED BY <1>1, <2>3 DEF IndInv
<1>5. CASE go
    <2>1. cycle' = [cycle EXCEPT !.subs = @ \ {s}, !.sub = s, !.pc = "targets",
                                 !.targets = TargetsOf(s)]
        BY <1>5 DEF TakeSub
    <2>2. TargetsOf(s) \subseteq Targets
        BY TargetsAreTargets
    <2>3. /\ cycle' \in CycleRecords
          /\ cycle'.pc = "targets" /\ cycle'.alert = a /\ cycle'.mode = cycle.mode
          /\ cycle'.batch = cycle.batch /\ cycle'.withEvent = cycle.withEvent
          /\ cycle'.sub = s /\ cycle'.targets = TargetsOf(s)
        BY <2>1, <2>2, <1>2 DEF CycleRecords
    <2>4. TargetsOf(s)' = TargetsOf(s)
        BY <2>3 DEF TargetsOf
    <2>5. CycleInv'
        BY <2>3, <2>4, <1>2 DEF CycleInv
    <2>6. cycle.mode \in {"alert", "recovery"}
        BY <1>2 DEF CycleRecords
    <2>7. cycle.mode = "recovery" => /\ sent[a][s] # None /\ ~recovered[a][s]
                                     /\ TargetsOf(s) = RecoveryTargets[s]
        BY <1>5 DEF Wants, WantsRecovery, TargetsOf
    <2>8. ReceivedInv'
        BY <1>2, <1>3, <2>3, <2>7 DEF IndInv, ReceivedInv, Sending, Unlogged
    <2>9. RecoveryInv'
        <3>1. ~Unlogged("recovery")
            BY <1>2 DEF Unlogged
        <3>2. ASSUME cycle.mode = "recovery", NEW t \in TargetsOf(s), <<a, t>> \notin doubted
              PROVE  cured[a][t] = 0
            <4>1. t \in RecoveryTargets[s] /\ t \in Targets
                BY <3>2, <2>7, <2>2
            <4>2. ~(cured[a][t] > 0)
                BY <4>1, <3>1, <3>2, <2>7, <1>2 DEF IndInv, RecoveryInv
            <4>3. cured[a][t] \in 0..2
                BY <4>1, <1>2 DEF IndInv, DataOK
            <4>. QED BY <4>2, <4>3
        <3>3. (Sending("recovery") =>
                  \A t \in cycle.targets :
                      <<cycle.alert, t>> \notin doubted => cured[cycle.alert][t] = 0)'
            BY <3>2, <2>3, <1>3 DEF Sending
        <3>4. OneRecoveryPerAlert'
            BY <1>3 DEF IndInv, RecoveryInv, OneRecoveryPerAlert
        <3>5. (\A b \in Alerts, r \in Subs : \A t \in RecoveryTargets[r] :
                  cured[b][t] > 0 /\ <<b, t>> \notin doubted => recovered[b][r])'
            BY <3>1, <1>3 DEF IndInv, RecoveryInv
        <3>. QED BY <3>3, <3>4, <3>5 DEF RecoveryInv
    <2>10. ActiveInv'
        BY <1>3, <2>3 DEF IndInv, ActiveInv
    <2>11. StormInv'
        <3>1. ASSUME cycle.mode = "alert", a \in cycle.withEvent, NEW b \in Alerts,
                     NEW t \in TargetsOf(s), EventOf[b] = EventOf[a], <<b, t>> \notin excused,
                     heard[b][t] # None, heard[b][t] < Cooldown
              PROVE  Severity[b] < Severity[a]
            <4>1. DefaultRule(a, s) /\ t \in AlertTargets[s]
                BY <3>1, <1>5 DEF Wants, ShouldSend, TargetsOf
            <4>. QED BY <4>1, <3>1, <1>2, RuleHolds
        <3>2. (Sending("alert") /\ cycle.alert \in cycle.withEvent =>
                 \A b \in Alerts, t \in cycle.targets :
                     /\ EventOf[b] = EventOf[cycle.alert]
                     /\ <<b, t>> \notin excused
                     /\ heard[b][t] # None /\ heard[b][t] < Cooldown
                     => Severity[b] < Severity[cycle.alert])'
            BY <3>1, <2>3, <1>3 DEF Sending
        <3>3. (\A b \in cycle.withEvent : linked[b])'
            BY <2>3, <1>3 DEF IndInv, StormInv
        <3>4. ~Unlogged("alert")
            BY <1>2 DEF Unlogged
        <3>5. (\A b \in Alerts, r \in Subs : \A t \in AlertTargets[r] :
                  heard[b][t] # None /\ <<b, t>> \notin excused =>
                      /\ linked[b]
                      /\ sent[b][r] # None
                      /\ heard[b][t] < Cooldown => sent[b][r] <= heard[b][t])'
            BY <3>4, <1>3 DEF IndInv, StormInv
        <3>. QED BY <3>2, <3>3, <3>5 DEF StormInv
    <2>. QED BY <1>1, <2>5, <2>8, <2>9, <2>10, <2>11 DEF IndInv
<1>. QED BY <1>4, <1>5

LEMMA CallInv ==
    ASSUME IndInv, NEW t \in Targets, NEW outcome \in Outcomes, Call(t, outcome)
    PROVE  IndInv'
<1>. DEFINE a == cycle.alert
            s == cycle.sub
            told == outcome # "failed" /\ cycle.mode = "alert"
            helped == outcome # "failed" /\ cycle.mode = "recovery"
<1>1. /\ cycle \in CycleRecords /\ cycle.pc = "targets"
      /\ a \in Alerts /\ s \in Subs /\ t \in cycle.targets
      /\ cycle.targets \subseteq TargetsOf(s) /\ t \in TargetsOf(s)
    BY DEF Call, IndInv, CycleInv
<1>2. /\ cycle' \in CycleRecords
      /\ cycle'.pc = "log" /\ cycle'.alert = a /\ cycle'.mode = cycle.mode
      /\ cycle'.batch = cycle.batch /\ cycle'.withEvent = cycle.withEvent
      /\ cycle'.sub = s /\ cycle'.targets = cycle.targets \ {t}
      /\ cycle'.target = t /\ cycle'.ok = (outcome = "sent")
    BY <1>1 DEF Call, CycleRecords
<1>3. UNCHANGED <<status, linked, sent, recovered, notified, resolved, silence, deleted>>
    BY DEF Call, rows, logs, datasource
<1>4. /\ heard' = IF told THEN [heard EXCEPT ![a][t] = 0] ELSE heard
      /\ excused' = IF ~told THEN excused
                    ELSE IF outcome = "unsure" \/ a \notin cycle.withEvent
                         THEN excused \cup {<<a, t>>} ELSE excused \ {<<a, t>>}
    BY DEF Call, history
<1>5. /\ cured' = IF helped THEN [cured EXCEPT ![a][t] = IF @ < 2 THEN @ + 1 ELSE @] ELSE cured
      /\ doubted' = IF helped /\ outcome = "unsure" THEN doubted \cup {<<a, t>>} ELSE doubted
    BY DEF Call, history
<1>7. /\ heard \in [Alerts -> [Targets -> Ages(Cooldown)]]
      /\ cured \in [Alerts -> [Targets -> 0..2]]
      /\ excused \subseteq Alerts \X Targets /\ doubted \subseteq Alerts \X Targets
    BY DEF IndInv, DataOK
<1>8. ASSUME NEW b \in Alerts, NEW u \in Targets
      PROVE  /\ heard'[b][u] = IF told /\ b = a /\ u = t THEN 0 ELSE heard[b][u]
             /\ cured'[b][u] = IF helped /\ b = a /\ u = t
                              THEN (IF cured[a][t] < 2 THEN cured[a][t] + 1 ELSE cured[a][t])
                              ELSE cured[b][u]
    BY <1>1, <1>4, <1>5, <1>7
<1>9. 0 # None /\ 0 \in Ages(Cooldown)
    BY DispatcherAssumption DEF Ages
<1>10. DataOK'
    <2>1. heard' \in [Alerts -> [Targets -> Ages(Cooldown)]]
        BY <1>1, <1>4, <1>7, <1>9
    <2>2. cured' \in [Alerts -> [Targets -> 0..2]]
        <3>1. (IF cured[a][t] < 2 THEN cured[a][t] + 1 ELSE cured[a][t]) \in 0..2
            BY <1>1, <1>7
        <3>. QED BY <3>1, <1>1, <1>5, <1>7
    <2>3. excused' \subseteq Alerts \X Targets /\ doubted' \subseteq Alerts \X Targets
        BY <1>1, <1>4, <1>5, <1>7
    <2>. QED BY <2>1, <2>2, <2>3, <1>3 DEF IndInv, DataOK
<1>11. TargetsOf(s)' = TargetsOf(s)
    BY <1>2 DEF TargetsOf
<1>12. CycleInv'
    BY <1>1, <1>2, <1>11 DEF CycleInv
<1>13. /\ cycle.mode = "alert" => t \in AlertTargets[s]
       /\ cycle.mode = "recovery" => t \in RecoveryTargets[s]
    BY <1>1 DEF TargetsOf
<1>14. /\ \A r \in Subs : AlertTargets[r] \subseteq Targets /\ RecoveryTargets[r] \subseteq Targets
       /\ \A r \in Subs : t \in AlertTargets[r] \cup RecoveryTargets[r] => r = s
    BY <1>1, <1>13, TargetsAreTargets, OneOwner DEF TargetsOf
<1>15. ~Unlogged("alert") /\ ~Unlogged("recovery")
    BY <1>1 DEF Unlogged
<1>. HIDE DEF told, helped
<1>16. /\ told => outcome # "failed" /\ cycle.mode = "alert"
       /\ helped => outcome # "failed" /\ cycle.mode = "recovery"
       /\ outcome = "sent" /\ cycle.mode = "alert" => told
    BY DEF told, helped
<1>17. ReceivedInv'
    <2>1. (\A b \in Alerts, r \in Subs :
              sent[b][r] # None => \E u \in AlertTargets[r] : heard[b][u] # None)'
        BY <1>3, <1>8, <1>9, <1>14 DEF IndInv, ReceivedInv
    <2>2. (Unlogged("alert") => heard[cycle.alert][cycle.target] # None)'
        BY <1>1, <1>2, <1>8, <1>9, <1>16 DEF Unlogged
    <2>3. (Sending("recovery") => sent[cycle.alert][cycle.sub] # None)'
        BY <1>1, <1>2, <1>3 DEF IndInv, ReceivedInv, Sending
    <2>4. ASSUME NEW b \in Alerts, NEW r \in Subs, NEW u \in RecoveryTargets[r], cured'[b][u] > 0
          PROVE  sent'[b][r] # None
        <3>1. CASE helped /\ b = a /\ u = t
            BY <3>1, <1>1, <1>3, <1>14, <1>16 DEF IndInv, ReceivedInv, Sending
        <3>2. CASE ~(helped /\ b = a /\ u = t)
            BY <3>2, <2>4, <1>3, <1>8, <1>14 DEF IndInv, ReceivedInv
        <3>. QED BY <3>1, <3>2
    <2>. QED BY <2>1, <2>2, <2>3, <2>4 DEF ReceivedInv
<1>18. ASSUME NEW b \in Alerts, NEW u \in Targets
       PROVE  /\ <<b, u>> \in doubted' <=>
                    <<b, u>> \in doubted \/ (helped /\ outcome = "unsure" /\ b = a /\ u = t)
              /\ ~(told /\ b = a /\ u = t) => (<<b, u>> \in excused' <=> <<b, u>> \in excused)
              /\ told /\ <<a, t>> \notin excused' => outcome = "sent" /\ a \in cycle.withEvent
    <2>1. outcome = "sent" \/ outcome = "unsure" \/ outcome = "failed"
        BY DEF Outcomes
    <2>. QED BY <2>1, <1>4, <1>5, <1>16
<1>19. RecoveryInv'
    <2>1. ASSUME NEW b \in Alerts, NEW r \in Subs, NEW u \in RecoveryTargets[r],
                 cured'[b][u] > 0, <<b, u>> \notin doubted'
          PROVE  (\/ recovered[b][r]
                  \/ /\ Unlogged("recovery") /\ cycle.alert = b
                     /\ cycle.sub = r /\ cycle.target = u)'
        <3>1. CASE helped /\ b = a /\ u = t
            <4>1. outcome = "sent"
                BY <3>1, <2>1, <1>1, <1>14, <1>16, <1>18 DEF Outcomes
            <4>. QED BY <4>1, <3>1, <1>2, <1>14, <1>16 DEF Unlogged
        <3>2. CASE ~(helped /\ b = a /\ u = t)
            BY <3>2, <2>1, <1>3, <1>8, <1>14, <1>15, <1>18 DEF IndInv, RecoveryInv
        <3>. QED BY <3>1, <3>2
    <2>2. Sending("recovery") =>
              \A u \in cycle.targets : <<a, u>> \notin doubted => cured[a][u] = 0
        BY DEF IndInv, RecoveryInv
    <2>3. (Sending("recovery") =>
              \A u \in cycle.targets :
                  <<cycle.alert, u>> \notin doubted => cured[cycle.alert][u] = 0)'
        <3>1. SUFFICES ASSUME cycle.mode = "recovery", NEW u \in cycle.targets \ {t},
                              <<a, u>> \notin doubted'
                       PROVE  cured'[a][u] = 0
            BY <1>2 DEF Sending
        <3>2. u \in Targets
            BY <1>1 DEF CycleRecords
        <3>. QED BY <3>1, <3>2, <2>2, <1>1, <1>8, <1>18 DEF Sending
    <2>4. ASSUME NEW b \in Alerts, NEW u \in Targets, <<b, u>> \notin doubted'
          PROVE  cured'[b][u] <= 1
        <3>1. CASE helped /\ b = a /\ u = t
            <4>1. cured[a][t] = 0
                BY <3>1, <2>2, <2>4, <1>1, <1>16, <1>18 DEF Sending
            <4>. QED BY <4>1, <3>1, <1>8
        <3>2. CASE ~(helped /\ b = a /\ u = t)
            BY <3>2, <2>4, <1>8, <1>18 DEF IndInv, RecoveryInv, OneRecoveryPerAlert
        <3>. QED BY <3>1, <3>2
    <2>. QED BY <2>1, <2>3, <2>4 DEF RecoveryInv, OneRecoveryPerAlert
<1>20. ActiveInv'
    <2>1. cycle.mode = "recovery" => status[a] \notin {"none", "active"}
        <3>1. a \in cycle.batch \cup ({cycle.alert} \ {None})
            BY <1>1, DispatcherAssumption
        <3>. QED BY <3>1 DEF IndInv, ActiveInv
    <2>2. ASSUME NEW b \in Alerts, NEW u \in Targets, cured'[b][u] > 0
          PROVE  status'[b] \notin {"none", "active"}
        BY <2>1, <2>2, <1>3, <1>8, <1>16 DEF IndInv, ActiveInv
    <2>3. cycle.mode = "alert" => cured' = cured
        BY <1>5, <1>16
    <2>4. ASSUME NEW b \in cycle.batch \cup ({cycle.alert} \ {None})
          PROVE  IF cycle.mode = "alert" THEN \A u \in Targets : cured'[b][u] = 0
                                         ELSE status'[b] \notin {"none", "active"}
        BY <2>3, <2>4, <1>3 DEF IndInv, ActiveInv
    <2>. QED BY <2>2, <2>4, <1>2 DEF ActiveInv
<1>21. StormInv'
    <2>1. (\A b \in cycle.withEvent : linked[b])'
        BY <1>2, <1>3 DEF IndInv, StormInv
    <2>2. ASSUME NEW b \in Alerts, NEW r \in Subs, NEW u \in AlertTargets[r],
                 heard'[b][u] # None, <<b, u>> \notin excused'
          PROVE  (/\ linked[b]
                  /\ \/ /\ sent[b][r] # None
                        /\ heard[b][u] < Cooldown => sent[b][r] <= heard[b][u]
                     \/ /\ Unlogged("alert") /\ cycle.alert = b
                        /\ cycle.sub = r /\ cycle.target = u)'
        <3>1. CASE told /\ b = a /\ u = t
            <4>1. outcome = "sent" /\ a \in cycle.withEvent
                BY <3>1, <2>2, <1>1, <1>18
            <4>. QED BY <4>1, <3>1, <2>1, <1>2, <1>14, <1>16 DEF Unlogged
        <3>2. CASE ~(told /\ b = a /\ u = t)
            BY <3>2, <2>2, <1>3, <1>8, <1>14, <1>15, <1>18 DEF IndInv, StormInv
        <3>. QED BY <3>1, <3>2
    <2>3. (Sending("alert") /\ cycle.alert \in cycle.withEvent =>
              \A b \in Alerts, u \in cycle.targets :
                  /\ EventOf[b] = EventOf[cycle.alert]
                  /\ <<b, u>> \notin excused
                  /\ heard[b][u] # None /\ heard[b][u] < Cooldown
                  => Severity[b] < Severity[cycle.alert])'
        <3>1. SUFFICES ASSUME Sending("alert")', a \in cycle.withEvent,
                              NEW b \in Alerts, NEW u \in cycle.targets \ {t},
                              EventOf[b] = EventOf[a], <<b, u>> \notin excused',
                              heard'[b][u] # None, heard'[b][u] < Cooldown
                       PROVE  Severity[b] < Severity[a]
            BY <1>2
        <3>2. heard'[b][u] = heard[b][u] /\ <<b, u>> \notin excused
            BY <3>1, <1>1, <1>8, <1>18 DEF CycleRecords
        <3>. QED BY <3>1, <3>2, <1>1, <1>2 DEF IndInv, StormInv, Sending
    <2>. QED BY <2>1, <2>2, <2>3 DEF StormInv
<1>. QED BY <1>10, <1>12, <1>17, <1>19, <1>20, <1>21 DEF IndInv

(* What both kinds of log have in common *)
LEMMA LoggedTyped ==
    ASSUME IndInv, cycle.pc = "log", cycle' = Logged
    PROVE  /\ cycle' \in CycleRecords /\ CycleInv'
           /\ cycle'.pc = "targets" /\ cycle'.alert = cycle.alert /\ cycle'.mode = cycle.mode
           /\ cycle'.batch = cycle.batch /\ cycle'.withEvent = cycle.withEvent
           /\ cycle'.sub = cycle.sub /\ cycle'.targets = cycle.targets
           /\ cycle.alert \in Alerts /\ cycle.sub \in Subs
           /\ cycle.target \in TargetsOf(cycle.sub)
<1>1. /\ cycle \in CycleRecords /\ cycle.alert \in Alerts /\ cycle.sub \in Subs
      /\ cycle.targets \subseteq TargetsOf(cycle.sub) /\ cycle.target \in TargetsOf(cycle.sub)
    BY DEF IndInv, CycleInv
<1>2. /\ cycle' \in CycleRecords
      /\ cycle'.pc = "targets" /\ cycle'.alert = cycle.alert /\ cycle'.mode = cycle.mode
      /\ cycle'.batch = cycle.batch /\ cycle'.withEvent = cycle.withEvent
      /\ cycle'.sub = cycle.sub /\ cycle'.targets = cycle.targets
    BY <1>1 DEF Logged, CycleRecords
<1>3. TargetsOf(cycle.sub)' = TargetsOf(cycle.sub)
    BY <1>2 DEF TargetsOf
<1>4. CycleInv'
    BY <1>1, <1>2, <1>3 DEF CycleInv
<1>. QED BY <1>1, <1>2, <1>4

LEMMA LogAlertInv == IndInv /\ LogAlert => IndInv'
<1>. SUFFICES ASSUME IndInv, LogAlert PROVE IndInv'
    OBVIOUS
<1>. DEFINE a == cycle.alert
            s == cycle.sub
<1>1. /\ CycleInv'
      /\ cycle'.pc = "targets" /\ cycle'.alert = a /\ cycle'.mode = "alert"
      /\ cycle'.batch = cycle.batch /\ cycle'.withEvent = cycle.withEvent
      /\ cycle'.sub = s /\ cycle'.targets = cycle.targets
      /\ a \in Alerts /\ s \in Subs /\ cycle.target \in AlertTargets[s]
    BY LoggedTyped DEF LogAlert, TargetsOf
<1>2. /\ UNCHANGED <<status, linked, notified, resolved, recovered, silence, deleted>>
      /\ UNCHANGED <<heard, cured, excused, doubted>>
      /\ cycle.pc = "log" /\ cycle.mode = "alert"
      /\ sent' = IF cycle.ok THEN [sent EXCEPT ![a][s] = 0] ELSE sent
    BY DEF LogAlert, rows, datasource, history
<1>3. sent \in [Alerts -> [Subs -> Ages(Cooldown + 1)]]
    BY DEF IndInv, DataOK
<1>4. 0 \in Ages(Cooldown + 1) /\ 0 # None
    BY DispatcherAssumption DEF Ages
<1>5. ASSUME NEW b \in Alerts, NEW r \in Subs
      PROVE  sent'[b][r] = IF cycle.ok /\ b = a /\ r = s THEN 0 ELSE sent[b][r]
    BY <1>1, <1>2, <1>3
<1>6. DataOK'
    <2>1. sent' \in [Alerts -> [Subs -> Ages(Cooldown + 1)]]
        BY <1>1, <1>2, <1>3, <1>4
    <2>. QED BY <2>1, <1>2 DEF IndInv, DataOK
<1>7. ReceivedInv'
    <2>1. ASSUME NEW b \in Alerts, NEW r \in Subs, sent'[b][r] # None
          PROVE  \E t \in AlertTargets[r] : heard'[b][t] # None
        <3>1. CASE cycle.ok /\ b = a /\ r = s
            BY <3>1, <1>1, <1>2 DEF IndInv, ReceivedInv, Unlogged
        <3>2. CASE ~(cycle.ok /\ b = a /\ r = s)
            BY <3>2, <2>1, <1>2, <1>5 DEF IndInv, ReceivedInv
        <3>. QED BY <3>1, <3>2
    <2>2. (\A b \in Alerts, r \in Subs : \A t \in RecoveryTargets[r] :
              cured[b][t] > 0 => sent[b][r] # None)'
        BY <1>2, <1>4, <1>5 DEF IndInv, ReceivedInv
    <2>3. ~Unlogged("alert")' /\ ~Sending("recovery")'
        BY <1>1 DEF Unlogged, Sending
    <2>. QED BY <2>1, <2>2, <2>3 DEF ReceivedInv
<1>8. RecoveryInv'
    <2>1. ~Sending("recovery")' /\ ~Unlogged("recovery")
        BY <1>1, <1>2 DEF Sending, Unlogged
    <2>2. OneRecoveryPerAlert'
        BY <1>2 DEF IndInv, RecoveryInv, OneRecoveryPerAlert
    <2>3. (\A b \in Alerts, r \in Subs : \A t \in RecoveryTargets[r] :
              cured[b][t] > 0 /\ <<b, t>> \notin doubted => recovered[b][r])'
        BY <2>1, <1>2 DEF IndInv, RecoveryInv
    <2>. QED BY <2>1, <2>2, <2>3 DEF RecoveryInv
<1>9. ActiveInv'
    BY <1>1, <1>2 DEF IndInv, ActiveInv
<1>10. StormInv'
    <2>1. ASSUME NEW b \in Alerts, NEW r \in Subs, NEW u \in AlertTargets[r],
                 heard[b][u] # None, <<b, u>> \notin excused
          PROVE  /\ linked[b] /\ sent'[b][r] # None
                 /\ heard[b][u] < Cooldown => sent'[b][r] <= heard[b][u]
        <3>1. heard[b][u] \in Nat
            BY <2>1, TargetsAreTargets, DispatcherAssumption DEF IndInv, DataOK, Ages
        <3>2. CASE cycle.ok /\ b = a /\ r = s
            BY <3>1, <3>2, <2>1, <1>4, <1>5 DEF IndInv, StormInv
        <3>3. CASE ~(cycle.ok /\ b = a /\ r = s)
            BY <3>3, <2>1, <1>5 DEF IndInv, StormInv, Unlogged
        <3>. QED BY <3>2, <3>3
    <2>2. (\A b \in cycle.withEvent : linked[b])'
        BY <1>1, <1>2 DEF IndInv, StormInv
    <2>3. (Sending("alert") /\ cycle.alert \in cycle.withEvent =>
              \A b \in Alerts, u \in cycle.targets :
                  /\ EventOf[b] = EventOf[cycle.alert]
                  /\ <<b, u>> \notin excused
                  /\ heard[b][u] # None /\ heard[b][u] < Cooldown
                  => Severity[b] < Severity[cycle.alert])'
        BY <1>1, <1>2 DEF IndInv, StormInv, Sending
    <2>. QED BY <2>1, <2>2, <2>3, <1>2 DEF StormInv
<1>. QED BY <1>1, <1>6, <1>7, <1>8, <1>9, <1>10 DEF IndInv

LEMMA LogRecoveryInv == IndInv /\ LogRecovery => IndInv'
<1>. SUFFICES ASSUME IndInv, LogRecovery PROVE IndInv'
    OBVIOUS
<1>. DEFINE a == cycle.alert
            s == cycle.sub
<1>1. /\ CycleInv'
      /\ cycle'.pc = "targets" /\ cycle'.alert = a /\ cycle'.mode = "recovery"
      /\ cycle'.batch = cycle.batch /\ cycle'.withEvent = cycle.withEvent
      /\ cycle'.sub = s /\ cycle'.targets = cycle.targets
      /\ a \in Alerts /\ s \in Subs
    BY LoggedTyped DEF LogRecovery
<1>2. /\ UNCHANGED <<status, linked, notified, resolved, sent, silence, deleted>>
      /\ UNCHANGED <<heard, cured, excused, doubted>>
      /\ cycle.pc = "log" /\ cycle.mode = "recovery"
      /\ recovered' = IF cycle.ok THEN [recovered EXCEPT ![a][s] = TRUE] ELSE recovered
    BY DEF LogRecovery, rows, datasource, history
<1>3. recovered \in [Alerts -> [Subs -> BOOLEAN]]
    BY DEF IndInv, DataOK
<1>4. ASSUME NEW b \in Alerts, NEW r \in Subs
      PROVE  /\ cycle.ok /\ b = a /\ r = s => recovered'[b][r]
             /\ recovered[b][r] => recovered'[b][r]
    BY <1>1, <1>2, <1>3
<1>5. DataOK'
    <2>1. recovered' \in [Alerts -> [Subs -> BOOLEAN]]
        BY <1>1, <1>2, <1>3
    <2>. QED BY <2>1, <1>2 DEF IndInv, DataOK
<1>6. ReceivedInv'
    BY <1>1, <1>2 DEF IndInv, ReceivedInv, Sending, Unlogged
<1>7. RecoveryInv'
    <2>1. ASSUME NEW b \in Alerts, NEW r \in Subs, NEW t \in RecoveryTargets[r],
                 cured[b][t] > 0, <<b, t>> \notin doubted
          PROVE  recovered'[b][r]
        <3>1. recovered[b][r] \/ (Unlogged("recovery") /\ cycle.alert = b /\ cycle.sub = r)
            BY <2>1 DEF IndInv, RecoveryInv
        <3>2. CASE recovered[b][r]
            BY <3>2, <1>4
        <3>3. CASE Unlogged("recovery") /\ cycle.alert = b /\ cycle.sub = r
            BY <3>3, <1>4 DEF Unlogged
        <3>. QED BY <3>1, <3>2, <3>3
    <2>2. (Sending("recovery") =>
              \A t \in cycle.targets :
                  <<cycle.alert, t>> \notin doubted => cured[cycle.alert][t] = 0)'
        BY <1>1, <1>2 DEF IndInv, RecoveryInv, Sending
    <2>3. OneRecoveryPerAlert'
        BY <1>2 DEF IndInv, RecoveryInv, OneRecoveryPerAlert
    <2>. QED BY <2>1, <2>2, <2>3, <1>2 DEF RecoveryInv
<1>8. ActiveInv'
    BY <1>1, <1>2 DEF IndInv, ActiveInv
<1>9. StormInv'
    BY <1>1, <1>2 DEF IndInv, StormInv, Sending, Unlogged
<1>. QED BY <1>1, <1>5, <1>6, <1>7, <1>8, <1>9 DEF IndInv

LEMMA CrashInv == IndInv /\ Crash => IndInv'
<1>. SUFFICES ASSUME IndInv, Crash PROVE IndInv'
    OBVIOUS
<1>. DEFINE lost(mode) == IF cycle.pc = "log" /\ cycle.ok /\ cycle.mode = mode
                          THEN {<<cycle.alert, cycle.target>>} ELSE {}
<1>1. /\ UNCHANGED <<status, linked, notified, resolved, sent, recovered, silence, deleted>>
      /\ UNCHANGED <<heard, cured>>
      /\ cycle' = Idle
      /\ excused' = excused \cup lost("alert")
      /\ doubted' = doubted \cup lost("recovery")
    BY DEF Crash, rows, logs, datasource
<1>2. cycle.pc = "log" => cycle.alert \in Alerts /\ cycle.target \in Targets
    BY TargetsAreTargets DEF IndInv, CycleInv
<1>3. DataOK'
    <2>1. excused' \subseteq Alerts \X Targets /\ doubted' \subseteq Alerts \X Targets
        BY <1>1, <1>2 DEF IndInv, DataOK
    <2>. QED BY <2>1, <1>1 DEF IndInv, DataOK
<1>4. excused \subseteq excused' /\ doubted \subseteq doubted'
    BY <1>1
<1>5. ~Unlogged("alert")' /\ ~Unlogged("recovery")' /\ ~Sending("alert")' /\ ~Sending("recovery")'
    BY <1>1, IdleTyped DEF Unlogged, Sending
<1>6. CycleInv'
    BY <1>1, IdleTyped DEF CycleInv
<1>7. ReceivedInv'
    BY <1>1, <1>5 DEF IndInv, ReceivedInv
<1>8. RecoveryInv'
    <2>1. ASSUME NEW b \in Alerts, NEW r \in Subs, NEW t \in RecoveryTargets[r],
                 cured[b][t] > 0, <<b, t>> \notin doubted'
          PROVE  recovered[b][r]
        <3>1. Unlogged("recovery") /\ cycle.alert = b /\ cycle.target = t => <<b, t>> \in doubted'
            BY <1>1 DEF Unlogged
        <3>. QED BY <3>1, <2>1, <1>4 DEF IndInv, RecoveryInv
    <2>2. OneRecoveryPerAlert'
        BY <1>1, <1>4 DEF IndInv, RecoveryInv, OneRecoveryPerAlert
    <2>. QED BY <2>1, <2>2, <1>1, <1>5 DEF RecoveryInv
<1>9. ActiveInv'
    BY <1>1, IdleTyped DEF IndInv, ActiveInv
<1>10. StormInv'
    <2>1. ASSUME NEW b \in Alerts, NEW t \in Targets, <<b, t>> \notin excused'
          PROVE  /\ <<b, t>> \notin excused
                 /\ ~(Unlogged("alert") /\ cycle.alert = b /\ cycle.target = t)
        <3>1. Unlogged("alert") /\ cycle.alert = b /\ cycle.target = t => <<b, t>> \in excused'
            BY <1>1 DEF Unlogged
        <3>. QED BY <3>1, <2>1, <1>4
    <2>2. cycle'.withEvent = {} /\ \A r \in Subs : AlertTargets[r] \subseteq Targets
        BY <1>1, IdleTyped, TargetsAreTargets
    <2>. QED BY <2>1, <2>2, <1>1, <1>5 DEF IndInv, StormInv
<1>. QED BY <1>3, <1>6, <1>7, <1>8, <1>9, <1>10 DEF IndInv

(* What collectors and users do leaves the cycle, the logs and the history alone *)
LEMMA Elsewhere ==
    ASSUME IndInv, UNCHANGED <<sent, recovered, cycle, heard, cured, excused, doubted>>,
           \A a \in Alerts : linked[a] => linked'[a]
    PROVE  CycleInv' /\ ReceivedInv' /\ RecoveryInv' /\ StormInv'
<1>1. CycleInv'
    BY DEF IndInv, CycleInv, TargetsOf
<1>2. ReceivedInv'
    BY DEF IndInv, ReceivedInv, Sending, Unlogged
<1>3. RecoveryInv'
    BY DEF IndInv, RecoveryInv, Sending, Unlogged, OneRecoveryPerAlert
<1>4. StormInv'
    <2>1. cycle.withEvent \subseteq Alerts
        BY DEF IndInv, CycleInv, CycleRecords
    <2>. QED BY <2>1 DEF IndInv, StormInv, Sending, Unlogged
<1>. QED BY <1>1, <1>2, <1>3, <1>4

LEMMA RaiseInv ==
    ASSUME IndInv, NEW a \in Alerts, Raise(a)
    PROVE  IndInv'
<1>1. status[a] = "none" /\ status' = [status EXCEPT ![a] = "active"]
    BY DEF Raise
<1>2. /\ UNCHANGED <<linked, notified, resolved, sent, recovered, silence, deleted>>
      /\ UNCHANGED <<cycle, heard, cured, excused, doubted>>
    BY DEF Raise, logs, datasource, history
<1>3. CycleInv' /\ ReceivedInv' /\ RecoveryInv' /\ StormInv'
    BY <1>2, Elsewhere
<1>4. DataOK'
    BY <1>1, <1>2 DEF IndInv, DataOK
<1>5. ActiveInv'
    <2>1. \A b \in Alerts : b # a => status'[b] = status[b]
        BY <1>1 DEF IndInv, DataOK
    <2>2. cycle.batch \cup ({cycle.alert} \ {None}) \subseteq Alerts
        BY DEF IndInv, CycleInv, CycleRecords
    <2>. QED BY <2>1, <2>2, <1>1, <1>2 DEF IndInv, ActiveInv
<1>. QED BY <1>3, <1>4, <1>5 DEF IndInv

LEMMA LinkInv ==
    ASSUME IndInv, NEW a \in Alerts, Link(a)
    PROVE  IndInv'
<1>1. linked' = [linked EXCEPT ![a] = TRUE]
    BY DEF Link
<1>2. /\ UNCHANGED <<status, notified, resolved, sent, recovered, silence, deleted>>
      /\ UNCHANGED <<cycle, heard, cured, excused, doubted>>
    BY DEF Link, logs, datasource, history
<1>3. linked \in [Alerts -> BOOLEAN]
    BY DEF IndInv, DataOK
<1>4. CycleInv' /\ ReceivedInv' /\ RecoveryInv' /\ StormInv'
    BY <1>1, <1>2, <1>3, Elsewhere
<1>5. DataOK'
    BY <1>1, <1>2, <1>3 DEF IndInv, DataOK
<1>6. ActiveInv'
    BY <1>2 DEF IndInv, ActiveInv
<1>. QED BY <1>4, <1>5, <1>6 DEF IndInv

LEMMA AlertEndsInv ==
    ASSUME IndInv, NEW a \in Alerts, Acknowledge(a) \/ Resolve(a)
    PROVE  IndInv'
<1>1. /\ UNCHANGED <<linked, notified, sent, recovered, silence, deleted>>
      /\ UNCHANGED <<cycle, heard, cured, excused, doubted>>
    BY DEF Acknowledge, Resolve, logs, datasource, history
<1>2. PICK new \in {"acknowledged", "resolved"} : status' = [status EXCEPT ![a] = new]
    BY DEF Acknowledge, Resolve
<1>3. resolved' \in [Alerts -> Ages(Window + 1)]
    <2>1. 0 \in Ages(Window + 1)
        BY DispatcherAssumption DEF Ages
    <2>. QED BY <2>1 DEF Acknowledge, Resolve, IndInv, DataOK
<1>4. status \in [Alerts -> {"none", "active", "acknowledged", "resolved"}]
    BY DEF IndInv, DataOK
<1>5. CycleInv' /\ ReceivedInv' /\ RecoveryInv' /\ StormInv'
    BY <1>1, Elsewhere
<1>6. DataOK'
    BY <1>1, <1>2, <1>3, <1>4 DEF IndInv, DataOK
<1>7. ActiveInv'
    <2>1. \A b \in Alerts : status'[b] \in {status[b], "acknowledged", "resolved"}
        BY <1>2, <1>4
    <2>2. cycle.batch \cup ({cycle.alert} \ {None}) \subseteq Alerts
        BY DEF IndInv, CycleInv, CycleRecords
    <2>. QED BY <2>1, <2>2, <1>1 DEF IndInv, ActiveInv
<1>. QED BY <1>5, <1>6, <1>7 DEF IndInv

LEMMA DatasourceInv ==
    ASSUME IndInv, (\E n \in 1..MaxSilence : SetSilence(n)) \/ CancelSilence \/ Delete
    PROVE  IndInv'
<1>1. /\ UNCHANGED <<status, linked, notified, resolved, sent, recovered>>
      /\ UNCHANGED <<cycle, heard, cured, excused, doubted>>
    BY DEF SetSilence, CancelSilence, Delete, rows, logs, history
<1>2. silence' \in Ages(MaxSilence) /\ deleted' \in BOOLEAN
    <2>1. MaxSilence \in Nat
        BY DispatcherAssumption
    <2>2. silence \in Ages(MaxSilence) /\ deleted \in BOOLEAN
        BY DEF IndInv, DataOK
    <2>3. CASE \E n \in 1..MaxSilence : SetSilence(n)
        BY <2>1, <2>2, <2>3 DEF SetSilence, Ages
    <2>4. CASE CancelSilence \/ Delete
        BY <2>2, <2>4 DEF CancelSilence, Delete, Ages
    <2>. QED BY <2>3, <2>4
<1>3. DataOK'
    BY <1>1, <1>2 DEF IndInv, DataOK
<1>4. ActiveInv'
    BY <1>1 DEF IndInv, ActiveInv
<1>5. CycleInv' /\ ReceivedInv' /\ RecoveryInv' /\ StormInv'
    BY <1>1, Elsewhere
<1>. QED BY <1>3, <1>4, <1>5 DEF IndInv

LEMMA OlderTyped ==
    ASSUME NEW cap \in Nat, NEW age \in Ages(cap)
    PROVE  /\ Older(age, cap) \in Ages(cap)
           /\ Older(age, cap) = None <=> age = None
           /\ age # None /\ Older(age, cap) < cap => Older(age, cap) = age + 1 /\ age < cap
           /\ age # None => Older(age, cap) <= age + 1
BY DispatcherAssumption DEF Older, Ages

LEMMA TickInv == IndInv /\ Tick => IndInv'
<1>. SUFFICES ASSUME IndInv, Tick PROVE IndInv'
    OBVIOUS
<1>1. UNCHANGED <<status, linked, recovered, deleted, cycle, cured, excused, doubted>>
    BY DEF Tick
<1>2. Cooldown \in Nat /\ Cooldown + 1 \in Nat /\ Window + 1 \in Nat /\ MaxSilence \in Nat
    BY DispatcherAssumption
<1>3. ASSUME NEW a \in Alerts, NEW s \in Subs
      PROVE  sent'[a][s] = Older(sent[a][s], Cooldown + 1) /\ sent[a][s] \in Ages(Cooldown + 1)
    BY DEF Tick, IndInv, DataOK
<1>4. ASSUME NEW a \in Alerts, NEW t \in Targets
      PROVE  heard'[a][t] = Older(heard[a][t], Cooldown) /\ heard[a][t] \in Ages(Cooldown)
    BY DEF Tick, IndInv, DataOK
<1>5. DataOK'
    <2>1. sent' \in [Alerts -> [Subs -> Ages(Cooldown + 1)]]
        BY <1>2, OlderTyped DEF Tick, IndInv, DataOK
    <2>2. heard' \in [Alerts -> [Targets -> Ages(Cooldown)]]
        BY <1>2, OlderTyped DEF Tick, IndInv, DataOK
    <2>3. notified' \in [Alerts -> Ages(Cooldown)]
        BY <1>2, OlderTyped DEF Tick, IndInv, DataOK
    <2>4. resolved' \in [Alerts -> Ages(Window + 1)]
        BY <1>2, OlderTyped DEF Tick, IndInv, DataOK
    <2>5. silence' \in Ages(MaxSilence)
        BY <1>2 DEF Tick, IndInv, DataOK, Ages
    <2>. QED BY <2>1, <2>2, <2>3, <2>4, <2>5, <1>1 DEF IndInv, DataOK
<1>6. /\ \A a \in Alerts, s \in Subs : sent'[a][s] = None <=> sent[a][s] = None
      /\ \A a \in Alerts, t \in Targets : heard'[a][t] = None <=> heard[a][t] = None
    BY <1>2, <1>3, <1>4, OlderTyped
<1>7. \A s \in Subs : AlertTargets[s] \subseteq Targets
    BY TargetsAreTargets
<1>8. CycleInv'
    BY <1>1 DEF IndInv, CycleInv, TargetsOf
<1>9. ReceivedInv'
    <2>1. Sending("recovery") => cycle.alert \in Alerts /\ cycle.sub \in Subs
        BY DEF IndInv, CycleInv, Sending
    <2>2. Unlogged("alert") => cycle.alert \in Alerts /\ cycle.target \in Targets
        BY TargetsAreTargets DEF IndInv, CycleInv, Unlogged
    <2>. QED BY <2>1, <2>2, <1>1, <1>6, <1>7 DEF IndInv, ReceivedInv, Sending, Unlogged
<1>10. RecoveryInv'
    BY <1>1 DEF IndInv, RecoveryInv, Sending, Unlogged, OneRecoveryPerAlert
<1>11. ActiveInv'
    BY <1>1 DEF IndInv, ActiveInv
<1>12. StormInv'
    <2>1. ASSUME NEW b \in Alerts, NEW t \in Targets, heard'[b][t] # None, heard'[b][t] < Cooldown
          PROVE  heard[b][t] # None /\ heard[b][t] < Cooldown /\ heard'[b][t] = heard[b][t] + 1
        BY <2>1, <1>2, <1>4, OlderTyped
    <2>2. ASSUME NEW b \in Alerts, NEW r \in Subs, NEW t \in AlertTargets[r],
                 heard'[b][t] # None, <<b, t>> \notin excused',
                 ~(Unlogged("alert") /\ cycle.alert = b /\ cycle.sub = r /\ cycle.target = t)
          PROVE  /\ linked[b] /\ sent'[b][r] # None
                 /\ heard'[b][t] < Cooldown => sent'[b][r] <= heard'[b][t]
        <3>1. t \in Targets /\ heard[b][t] # None /\ <<b, t>> \notin excused
            BY <2>2, <1>1, <1>6, <1>7
        <3>2. /\ linked[b] /\ sent[b][r] # None
              /\ heard[b][t] < Cooldown => sent[b][r] <= heard[b][t]
            BY <3>1, <2>2 DEF IndInv, StormInv
        <3>3. sent[b][r] \in Nat /\ heard[b][t] \in Nat
            BY <3>1, <3>2, <1>3, <1>4 DEF Ages
        <3>4. sent'[b][r] <= sent[b][r] + 1 /\ sent'[b][r] \in Nat
            BY <3>2, <3>3, <1>2, <1>3, <1>6, OlderTyped DEF Ages
        <3>. QED BY <3>1, <3>2, <3>3, <3>4, <2>1, <2>2, <1>6
    <2>3. (\A b \in Alerts, r \in Subs : \A t \in AlertTargets[r] :
              heard[b][t] # None /\ <<b, t>> \notin excused =>
                  /\ linked[b]
                  /\ \/ /\ sent[b][r] # None
                        /\ heard[b][t] < Cooldown => sent[b][r] <= heard[b][t]
                     \/ Unlogged("alert") /\ cycle.alert = b /\ cycle.sub = r /\ cycle.target = t)'
        <3>1. SUFFICES ASSUME NEW b \in Alerts, NEW r \in Subs, NEW t \in AlertTargets[r],
                              heard'[b][t] # None, <<b, t>> \notin excused'
                       PROVE  /\ linked[b]
                              /\ \/ /\ sent'[b][r] # None
                                    /\ heard'[b][t] < Cooldown => sent'[b][r] <= heard'[b][t]
                                 \/ Unlogged("alert") /\ cycle.alert = b /\ cycle.sub = r /\ cycle.target = t
            BY <1>1 DEF Unlogged
        <3>2. CASE Unlogged("alert") /\ cycle.alert = b /\ cycle.sub = r /\ cycle.target = t
            <4>1. heard[b][t] # None /\ <<b, t>> \notin excused
                BY <3>1, <1>1, <1>6, <1>7
            <4>. QED BY <4>1, <3>2 DEF IndInv, StormInv
        <3>3. CASE ~(Unlogged("alert") /\ cycle.alert = b /\ cycle.sub = r /\ cycle.target = t)
            BY <3>3, <3>1, <2>2
        <3>. QED BY <3>2, <3>3
    <2>4. Sending("alert") => cycle.targets \subseteq Targets
        BY TargetsAreTargets DEF IndInv, CycleInv, Sending
    <2>5. (Sending("alert") /\ cycle.alert \in cycle.withEvent =>
              \A b \in Alerts, t \in cycle.targets :
                  /\ EventOf[b] = EventOf[cycle.alert]
                  /\ <<b, t>> \notin excused
                  /\ heard[b][t] # None /\ heard[b][t] < Cooldown
                  => Severity[b] < Severity[cycle.alert])'
        BY <2>1, <2>4, <1>1 DEF IndInv, StormInv, Sending
    <2>6. (\A b \in cycle.withEvent : linked[b])'
        BY <1>1 DEF IndInv, StormInv
    <2>. QED BY <2>3, <2>5, <2>6 DEF StormInv
<1>. QED BY <1>5, <1>8, <1>9, <1>10, <1>11, <1>12 DEF IndInv

LEMMA NextInv == IndInv /\ [Next]_vars => IndInv'
<1>. SUFFICES ASSUME IndInv, [Next]_vars PROVE IndInv'
    OBVIOUS
<1>1. CASE StartCycle \/ StartRecovery \/ ReadProbe \/ EndBatch
    BY <1>1, StartCycleInv, StartRecoveryInv, ReadProbeInv, EndBatchInv
<1>2. CASE CheckSilence \/ ClearSilence \/ EndSubs \/ EndTargets
    BY <1>2, SilenceInv, EndSubsInv, EndTargetsInv
<1>3. CASE \E a \in Alerts : TakeAlert(a)
    BY <1>3, TakeAlertInv
<1>4. CASE \E s \in Subs, b \in BOOLEAN : TakeSub(s, b)
    BY <1>4, TakeSubInv
<1>5. CASE \E t \in Targets, outcome \in Outcomes : Call(t, outcome)
    BY <1>5, CallInv
<1>6. CASE LogAlert \/ LogRecovery
    BY <1>6, LogAlertInv, LogRecoveryInv
<1>7. CASE Crash \/ Tick
    BY <1>7, CrashInv, TickInv
<1>8. CASE \E a \in Alerts : Raise(a) \/ Link(a) \/ Acknowledge(a) \/ Resolve(a)
    BY <1>8, RaiseInv, LinkInv, AlertEndsInv
<1>9. CASE (\E n \in 1..MaxSilence : SetSilence(n)) \/ CancelSilence \/ Delete
    BY <1>9, DatasourceInv
<1>10. CASE UNCHANGED vars
    <2>1. UNCHANGED <<status, linked, notified, resolved, sent, recovered, silence, deleted>>
        BY <1>10 DEF vars, rows, logs, datasource
    <2>2. UNCHANGED <<cycle, heard, cured, excused, doubted>>
        BY <1>10 DEF vars, history
    <2>3. DataOK' /\ ActiveInv'
        BY <2>1, <2>2 DEF IndInv, DataOK, ActiveInv
    <2>4. CycleInv' /\ ReceivedInv' /\ RecoveryInv' /\ StormInv'
        BY <2>1, <2>2, Elsewhere
    <2>. QED BY <2>3, <2>4 DEF IndInv
<1>. QED BY <1>1, <1>2, <1>3, <1>4, <1>5, <1>6, <1>7, <1>8, <1>9, <1>10 DEF Next, Dispatch

LEMMA Always == Spec => []IndInv
BY InitInv, NextInv, PTL DEF Spec
-----------------------------------------------------------------------------
(* Rows, logs and the locals of the cycle have their types, also when the cycle
   works on rows that have changed since it read them. *)
THEOREM DispatcherTyped == Spec => []TypeOK
BY Always, InvTyped, PTL

(* get_pending_recovery_notifications leads to a recovery only for the
   subscriptions with a delivery of the alert, one of whose targets has it. *)
THEOREM RecoveriesGoToReceivers == Spec => []RecoveryOnlyToReceivers
<1>1. IndInv => RecoveryOnlyToReceivers
    BY DEF IndInv, ReceivedInv, RecoveryOnlyToReceivers
<1>. QED BY <1>1, Always, PTL

(* The log of a recovery keeps it from being sent again, to each target of the
   subscription: a target gets it again only if it never came on record, because of
   a restart between the call and the log or of a call that timed out. *)
THEOREM RecoveriesAreSingle == Spec => []OneRecoveryPerAlert
<1>1. IndInv => OneRecoveryPerAlert
    BY DEF IndInv, RecoveryInv
<1>. QED BY <1>1, Always, PTL

(* The cycle's batch holds no alert that has recovered for anybody: recoveries
   are sent by the same coroutine, after the batch. *)
THEOREM NothingAfterRecovery == Spec => NoAlertAfterRecovery
<1>1. ASSUME IndInv, NEW a \in Alerts, NEW t \in Targets, Calls(a, t)
      PROVE  cured[a][t] = 0
    <2>1. a \in cycle.batch \cup ({cycle.alert} \ {None}) /\ cycle.mode = "alert"
        BY <1>1, DispatcherAssumption DEF Calls
    <2>. QED BY <2>1, <1>1 DEF IndInv, ActiveInv
<1>2. IndInv /\ [Next]_vars =>
          [\A a \in Alerts, t \in Targets : Calls(a, t) => cured[a][t] = 0]_vars
    BY <1>1
<1>. QED BY <1>2, Always, PTL DEF Spec, NoAlertAfterRecovery

(* The default rule of aggregation_engine.py, checked once per subscription, and
   the logs, written after each call, are enough against notification storms. *)
THEOREM NoStorms == Spec => NoStorm
<1>1. ASSUME IndInv, Next, NEW a \in Alerts, NEW b \in Alerts, NEW t \in Targets, Calls(a, t),
             EventOf[a] = EventOf[b], a \in cycle.withEvent,
             <<b, t>> \notin excused,
             heard[b][t] # None, heard[b][t] < Cooldown
      PROVE  Severity[b] < Severity[a]
    <2>1. t \in cycle.targets
        <3>1. PICK u \in Targets, outcome \in Outcomes : Call(u, outcome)
            <4>1. cycle.pc = "targets" /\ cycle'.pc = "log"
                BY <1>1 DEF Calls
            <4>2. ~(StartCycle \/ StartRecovery \/ ReadProbe \/ EndBatch \/ CheckSilence
                      \/ ClearSilence \/ EndSubs \/ LogAlert \/ LogRecovery)
                BY <4>1 DEF StartCycle, StartRecovery, ReadProbe, EndBatch, CheckSilence,
                            ClearSilence, EndSubs, LogAlert, LogRecovery
            <4>3. /\ \A c \in Alerts : ~TakeAlert(c)
                  /\ \A s \in Subs, inRange \in BOOLEAN : ~TakeSub(s, inRange)
                BY <4>1 DEF TakeAlert, TakeSub
            <4>4. ~EndTargets /\ ~Crash
                <5>1. EndTargets => cycle'.pc = "subs"
                    BY <1>1 DEF EndTargets, IndInv, CycleInv, CycleRecords
                <5>2. Crash => cycle'.pc = "idle"
                    BY IdleTyped DEF Crash
                <5>. QED BY <5>1, <5>2, <4>1
            <4>5. cycle' # cycle
                BY <4>1
            <4>6. /\ \A c \in Alerts : ~(Raise(c) \/ Link(c) \/ Acknowledge(c) \/ Resolve(c))
                  /\ \A n \in 1..MaxSilence : ~SetSilence(n)
                  /\ ~CancelSilence /\ ~Delete /\ ~Tick
                BY <4>5 DEF Raise, Link, Acknowledge, Resolve, SetSilence, CancelSilence,
                            Delete, Tick
            <4>. QED BY <4>2, <4>3, <4>4, <4>6, <1>1 DEF Next, Dispatch
        <3>2. cycle'.target = u
            BY <3>1 DEF Call, IndInv, CycleInv, CycleRecords, Calls
        <3>. QED BY <3>1, <3>2, <1>1 DEF Call, Calls
    <2>. QED BY <2>1, <1>1 DEF Calls, IndInv, StormInv, Sending
<1>2. IndInv /\ [Next]_vars =>
          [\A a, b \in Alerts, t \in Targets :
              /\ Calls(a, t)
              /\ EventOf[a] = EventOf[b]
              /\ a \in cycle.withEvent
              /\ <<b, t>> \notin excused
              /\ heard[b][t] # None /\ heard[b][t] < Cooldown
              => Severity[b] < Severity[a]]_vars
    BY <1>1
<1>. QED BY <1>2, Always, PTL DEF Spec, NoStorm
-----------------------------------------------------------------------------
(* What AlertNotices sees of a state *)
ToldPairs == {p \in Alerts \X Targets : heard[p[1]][p[2]] # None}
CuredPairs == {p \in Alerts \X Targets : cured[p[1]][p[2]] > 0}
Open == IF cycle.pc = "log" /\ cycle.ok THEN {<<cycle.mode, cycle.alert, cycle.target>>}
                                         ELSE {}
seen == <<ToldPairs, CuredPairs, Open, doubted>>

(* Only what matches is being sent. *)
MatchInv == cycle.pc \in {"targets", "log"} => <<cycle.alert, cycle.sub>> \in Matches

(* A step of the cycle that calls nobody and does not die *)
Internal ==
    \/ StartCycle \/ StartRecovery \/ ReadProbe
    \/ \E a \in Alerts : TakeAlert(a)
    \/ EndBatch \/ CheckSilence \/ ClearSilence
    \/ \E s \in Subs, inRange \in BOOLEAN : TakeSub(s, inRange)
    \/ EndSubs \/ LogAlert \/ LogRecovery \/ EndTargets

(* A step of collectors and users *)
Outside ==
    \/ \E a \in Alerts : Raise(a) \/ Link(a) \/ Acknowledge(a) \/ Resolve(a)
    \/ \E n \in 1..MaxSilence : SetSilence(n)
    \/ CancelSilence \/ Delete

LEMMA NextSplit ==
    ASSUME [Next]_vars
    PROVE  \/ Internal
           \/ \E t \in Targets, outcome \in Outcomes : Call(t, outcome)
           \/ Crash \/ Tick \/ Outside \/ UNCHANGED vars
BY DEF Next, Dispatch, Internal, Outside

(* Internal steps leave the history alone, and at their end nothing is out. *)
LEMMA InternalStep ==
    ASSUME IndInv, MatchInv, Internal
    PROVE  UNCHANGED history /\ cycle'.pc # "log" /\ MatchInv'
<1>1. cycle \in CycleRecords
    BY DEF IndInv, CycleInv
<1>2. CASE StartCycle \/ StartRecovery \/ ReadProbe \/ EndBatch
    <2>1. UNCHANGED history
        BY <1>2 DEF StartCycle, StartRecovery, ReadProbe, EndBatch
    <2>2. StartCycle => cycle'.pc \in {"recover", "probe"}
        BY DEF StartCycle, Idle
    <2>3. StartRecovery => cycle'.pc \in {"idle", "probe"}
        BY DEF StartRecovery, Idle
    <2>4. ReadProbe => cycle'.pc = "alerts"
        BY <1>1 DEF ReadProbe, CycleRecords
    <2>5. EndBatch => cycle'.pc \in {"recover", "idle"}
        BY DEF EndBatch, Idle
    <2>. QED BY <1>2, <2>1, <2>2, <2>3, <2>4, <2>5 DEF MatchInv
<1>3. CASE \E a \in Alerts : TakeAlert(a)
    <2>1. PICK a \in Alerts : TakeAlert(a)
        BY <1>3
    <2>2. \/ cycle' = [cycle EXCEPT !.batch = @ \ {a}]
          \/ cycle' = [cycle EXCEPT !.batch = @ \ {a}, !.alert = a, !.pc = "silence"]
        BY <2>1 DEF TakeAlert
    <2>3. cycle.pc = "alerts" /\ UNCHANGED history
        BY <2>1 DEF TakeAlert
    <2>. QED BY <1>1, <2>2, <2>3 DEF CycleRecords, MatchInv
<1>4. CASE CheckSilence \/ ClearSilence \/ EndSubs
    BY <1>1, <1>4 DEF CheckSilence, ClearSilence, EndSubs, Admit, NextAlert, CycleRecords, MatchInv
<1>5. CASE \E s \in Subs, inRange \in BOOLEAN : TakeSub(s, inRange)
    <2>1. PICK s \in Subs, inRange \in BOOLEAN : TakeSub(s, inRange)
        BY <1>5
    <2>2. \/ cycle' = [cycle EXCEPT !.subs = @ \ {s}]
          \/ /\ cycle' = [cycle EXCEPT !.subs = @ \ {s}, !.sub = s, !.pc = "targets",
                                       !.targets = TargetsOf(s)]
             /\ <<cycle.alert, s>> \in Matches
        BY <2>1 DEF TakeSub
    <2>3. cycle.pc = "subs" /\ UNCHANGED history
        BY <2>1 DEF TakeSub
    <2>. QED BY <1>1, <2>2, <2>3 DEF CycleRecords, MatchInv
<1>6. CASE LogAlert \/ LogRecovery
    <2>1. /\ cycle'.pc = "targets" /\ cycle'.alert = cycle.alert /\ cycle'.sub = cycle.sub
          /\ cycle.pc = "log" /\ UNCHANGED history
        BY <1>6, LoggedTyped DEF LogAlert, LogRecovery
    <2>. QED BY <2>1 DEF MatchInv
<1>7. CASE EndTargets
    BY <1>1, <1>7 DEF EndTargets, CycleRecords, MatchInv
<1>. QED BY <1>2, <1>3, <1>4, <1>5, <1>6, <1>7 DEF Internal

(* A call leaves the alert and the subscription of the cycle as they are. *)
LEMMA CallMatches ==
    ASSUME IndInv, MatchInv, NEW t \in Targets, NEW outcome \in Outcomes, Call(t, outcome)
    PROVE  /\ MatchInv'
           /\ cycle'.pc = "log" /\ cycle'.ok = (outcome = "sent")
           /\ cycle'.mode = cycle.mode /\ cycle'.alert = cycle.alert /\ cycle'.target = t
BY DEF Call, IndInv, CycleInv, CycleRecords, MatchInv

LEMMA OutsideStep ==
    ASSUME Outside
    PROVE  UNCHANGED history /\ UNCHANGED cycle
BY DEF Outside, Raise, Link, Acknowledge, Resolve, SetSilence, CancelSilence, Delete

LEMMA MatchStep == IndInv /\ MatchInv /\ [Next]_vars => MatchInv'
<1>. SUFFICES ASSUME IndInv, MatchInv, [Next]_vars PROVE MatchInv'
    OBVIOUS
<1>1. CASE Internal
    BY <1>1, InternalStep
<1>2. CASE \E t \in Targets, outcome \in Outcomes : Call(t, outcome)
    BY <1>2, CallMatches
<1>3. CASE Crash
    BY <1>3, IdleTyped DEF Crash, MatchInv
<1>4. CASE Tick \/ Outside \/ UNCHANGED vars
    <2>1. UNCHANGED cycle
        BY <1>4, OutsideStep DEF Tick, vars
    <2>. QED BY <2>1 DEF MatchInv
<1>. QED BY <1>1, <1>2, <1>3, <1>4, NextSplit

(* Sending a message to a target that the subscription wants to reach *)
LEMMA CallRefines ==
    ASSUME IndInv, MatchInv, NEW t \in Targets, NEW outcome \in Outcomes, Call(t, outcome)
    PROVE  [Notices!Next]_seen
<1>. DEFINE a == cycle.alert
            s == cycle.sub
            known == outcome = "sent"
<1>1. /\ cycle.pc = "targets" /\ cycle.mode \in {"alert", "recovery"}
      /\ a \in Alerts /\ s \in Subs /\ <<a, s>> \in Matches
      /\ t \in cycle.targets /\ t \in TargetsOf(s)
    BY DEF Call, IndInv, CycleInv, CycleRecords, MatchInv
<1>2. /\ cycle'.pc = "log" /\ cycle'.ok = known
      /\ cycle'.mode = cycle.mode /\ cycle'.alert = a /\ cycle'.target = t
    BY CallMatches
<1>3. /\ heard \in [Alerts -> [Targets -> Ages(Cooldown)]]
      /\ cured \in [Alerts -> [Targets -> 0..2]]
    BY DEF IndInv, DataOK
<1>4. outcome \in {"sent", "unsure", "failed"}
    BY DEF Outcomes
<1>5. Open = {} /\ Open' = IF known THEN {<<cycle.mode, a, t>>} ELSE {}
    BY <1>1, <1>2 DEF Open
<1>6. CASE outcome = "failed"
    <2>1. UNCHANGED <<heard, cured, doubted>>
        BY <1>6 DEF Call, history
    <2>2. UNCHANGED seen
        BY <2>1, <1>5, <1>6 DEF seen, ToldPairs, CuredPairs
    <2>. QED BY <2>2
<1>7. CASE outcome # "failed" /\ cycle.mode = "alert"
    <2>1. heard' = [heard EXCEPT ![a][t] = 0] /\ cured' = cured /\ doubted' = doubted
        BY <1>7 DEF Call
    <2>2. ToldPairs' = ToldPairs \cup {<<a, t>>}
        <3>1. 0 # None
            BY DispatcherAssumption
        <3>2. ASSUME NEW b \in Alerts, NEW u \in Targets
              PROVE  heard'[b][u] # None <=> heard[b][u] # None \/ (b = a /\ u = t)
            BY <1>1, <1>3, <2>1, <3>1
        <3>. QED BY <3>2, <1>1 DEF ToldPairs
    <2>3. CuredPairs' = CuredPairs
        BY <2>1 DEF CuredPairs
    <2>4. \A u \in Targets : cured[a][u] = 0
        <3>1. a \in {cycle.alert} \ {None}
            BY <1>1, DispatcherAssumption
        <3>. QED BY <3>1, <1>7 DEF IndInv, ActiveInv
    <2>5. ~\E p \in CuredPairs : p[1] = a
        BY <2>4 DEF CuredPairs
    <2>6. t \in AlertTargets[s]
        BY <1>1, <1>7 DEF TargetsOf
    <2>7. Notices!Tell(a, s, t, known)
        BY <1>1, <1>5, <1>7, <2>1, <2>2, <2>3, <2>5, <2>6
        DEF Notices!Tell, Notices!Sent, ToldPairs, CuredPairs, Open
    <2>. QED BY <2>6, <2>7, <1>1 DEF Notices!Next
<1>8. CASE outcome # "failed" /\ cycle.mode = "recovery"
    <2>1. /\ heard' = heard
          /\ cured' = [cured EXCEPT ![a][t] = IF @ < 2 THEN @ + 1 ELSE @]
          /\ doubted' = IF known THEN doubted ELSE doubted \cup {<<a, t>>}
        BY <1>4, <1>8 DEF Call
    <2>2. CuredPairs' = CuredPairs \cup {<<a, t>>}
        <3>1. ASSUME NEW b \in Alerts, NEW u \in Targets
              PROVE  cured'[b][u] > 0 <=> cured[b][u] > 0 \/ (b = a /\ u = t)
            <4>1. cured[b][u] \in 0..2 /\ cured[a][t] \in 0..2
                BY <1>1, <1>3
            <4>2. cured'[b][u] = IF cured[a][t] < 2 /\ b = a /\ u = t THEN cured[a][t] + 1
                                                                      ELSE cured[b][u]
                BY <1>1, <1>3, <2>1
            <4>. QED BY <4>1, <4>2
        <3>. QED BY <3>1, <1>1 DEF CuredPairs
    <2>3. ToldPairs' = ToldPairs
        BY <2>1 DEF ToldPairs
    <2>4. \E u \in AlertTargets[s] : <<a, u>> \in ToldPairs
        <3>1. sent[a][s] # None
            BY <1>1, <1>8 DEF IndInv, ReceivedInv, Sending
        <3>2. PICK u \in AlertTargets[s] : heard[a][u] # None
            BY <3>1, <1>1 DEF IndInv, ReceivedInv
        <3>3. u \in Targets
            BY <1>1, TargetsAreTargets
        <3>. QED BY <3>2, <3>3, <1>1 DEF ToldPairs
    <2>5. <<a, t>> \in CuredPairs => <<a, t>> \in doubted
        <3>1. <<a, t>> \notin doubted => cured[a][t] = 0
            BY <1>1, <1>8 DEF IndInv, RecoveryInv, Sending
        <3>. QED BY <3>1, <1>1 DEF CuredPairs
    <2>6. t \in RecoveryTargets[s]
        BY <1>1, <1>8 DEF TargetsOf
    <2>7. Notices!Recover(a, s, t, known)
        BY <1>1, <1>5, <1>8, <2>1, <2>2, <2>3, <2>4, <2>5, <2>6
        DEF Notices!Recover, Notices!Sent, ToldPairs, CuredPairs, Open
    <2>. QED BY <2>6, <2>7, <1>1 DEF Notices!Next
<1>. QED BY <1>1, <1>6, <1>7, <1>8

(* A restart forgets what is not logged yet. *)
LEMMA CrashRefines ==
    ASSUME IndInv, Crash
    PROVE  [Notices!Next]_seen
<1>1. ToldPairs' = ToldPairs /\ CuredPairs' = CuredPairs
    BY DEF Crash, ToldPairs, CuredPairs
<1>2. Open' = {}
    BY IdleTyped DEF Crash, Open
<1>3. doubted' = doubted \cup {<<n[2], n[3]>> : n \in {m \in Open : m[1] = "recovery"}}
    <2>1. Open # {} => Open = {<<cycle.mode, cycle.alert, cycle.target>>}
                       /\ cycle.pc = "log" /\ cycle.ok
        BY DEF Open
    <2>2. {<<n[2], n[3]>> : n \in {m \in Open : m[1] = "recovery"}}
              = IF Open # {} /\ cycle.mode = "recovery"
                THEN {<<cycle.alert, cycle.target>>} ELSE {}
        BY <2>1
    <2>3. doubted' = doubted \cup IF Open # {} /\ cycle.mode = "recovery"
                                 THEN {<<cycle.alert, cycle.target>>} ELSE {}
        BY DEF Crash, Open
    <2>. QED BY <2>2, <2>3
<1>4. Notices!Lose
    BY <1>1, <1>2, <1>3 DEF Notices!Lose, ToldPairs, CuredPairs, Open
<1>. QED BY <1>4 DEF Notices!Next

LEMMA TickRefines == IndInv /\ Tick => UNCHANGED seen
<1>. SUFFICES ASSUME IndInv, Tick PROVE UNCHANGED seen
    OBVIOUS
<1>1. UNCHANGED <<cycle, cured, excused, doubted>>
    BY DEF Tick
<1>2. ASSUME NEW a \in Alerts, NEW t \in Targets
      PROVE  heard'[a][t] # None <=> heard[a][t] # None
    <2>1. heard'[a][t] = Older(heard[a][t], Cooldown) /\ heard[a][t] \in Ages(Cooldown)
        BY DEF Tick, IndInv, DataOK
    <2>. QED BY <2>1, OlderTyped, DispatcherAssumption
<1>3. ToldPairs' = ToldPairs
    BY <1>2 DEF ToldPairs
<1>. QED BY <1>1, <1>3 DEF seen, CuredPairs, Open

(* Every step is one of AlertNotices, or the receivers see nothing of it. *)
LEMMA NoticesStep == IndInv /\ MatchInv /\ [Next]_vars => [Notices!Next]_seen
<1>. SUFFICES ASSUME IndInv, MatchInv, [Next]_vars PROVE [Notices!Next]_seen
    OBVIOUS
<1>1. CASE Internal
    <2>1. UNCHANGED <<heard, cured, excused, doubted>> /\ cycle'.pc # "log"
        BY <1>1, InternalStep DEF history
    <2>2. Notices!Record
        BY <2>1 DEF Notices!Record
    <2>. QED BY <2>2 DEF Notices!Next
<1>2. CASE \E t \in Targets, outcome \in Outcomes : Call(t, outcome)
    BY <1>2, CallRefines
<1>3. CASE Crash
    BY <1>3, CrashRefines
<1>4. CASE Tick
    BY <1>4, TickRefines
<1>5. CASE Outside \/ UNCHANGED vars
    <2>1. UNCHANGED <<heard, cured, excused, doubted, cycle>>
        BY <1>5, OutsideStep DEF vars, history
    <2>2. UNCHANGED seen
        BY <2>1 DEF seen, ToldPairs, CuredPairs, Open
    <2>. QED BY <2>2
<1>. QED BY <1>1, <1>2, <1>3, <1>4, <1>5, NextSplit

(* _process_pending_alerts with its long cycles, failing targets and restarts
   gives the receivers what AlertNotices promises: nobody hears of an alert
   once anybody has heard of its recovery, and a recovery reaches a target once,
   in a subscription that has received the alert. *)
THEOREM NoticesAreKept == Spec => Notifies
<1>1. Init => Notices!Init /\ MatchInv
    <2>. SUFFICES ASSUME Init PROVE Notices!Init /\ MatchInv
        OBVIOUS
    <2>1. ToldPairs = {} /\ CuredPairs = {} /\ doubted = {}
        BY DEF Init, ToldPairs, CuredPairs
    <2>2. Open = {} /\ MatchInv
        BY IdleTyped DEF Init, Open, MatchInv
    <2>. QED BY <2>1, <2>2 DEF Notices!Init, ToldPairs, CuredPairs, Open
<1>. QED BY <1>1, MatchStep, NoticesStep, Always, PTL
     DEF Spec, Notifies, Notices!Spec, seen, ToldPairs, CuredPairs, Open
===================================================================================
