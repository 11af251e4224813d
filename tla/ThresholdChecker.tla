-------------------------- MODULE ThresholdChecker --------------------------
(* ThresholdChecker: when does a metric that exceeds a threshold trigger?

   One datasource and one metric with several severity levels, plus the custom
   expression rule, which is tracked under a key of its own.  The checker keeps
   two dictionaries per key: when the current violation started and when it
   triggered last.  Its confirmation counters are incremented and reset in the
   same call and never read, so they are left out.

   incident and firedAt are history variables: they record what the samples
   were and when the checker triggered, and the checker never reads them. *)
EXTENDS Integers

CONSTANTS Levels,      \* severity levels 1..n, the highest is the most severe
          Threshold,   \* Levels -> Nat: levels[i]["threshold"]
          Duration,    \* Levels \cup {Expr} -> Nat: levels[i]["duration"]
          Cooldown,    \* _trigger_cooldown
          MaxValue, MaxTime,
          Expr,        \* the key "custom_expression"
          None         \* no entry in a dictionary, a metric without a value

Key == Levels \cup {Expr}
Times == 0..MaxTime
Values == 0..MaxValue

ASSUME CheckerAssumption ==
    /\ Levels \subseteq Nat \ {0}
    /\ Expr \notin Nat
    /\ Threshold \in [Levels -> Nat]
    /\ Duration \in [Key -> Nat]
    /\ Cooldown \in Nat
    /\ MaxValue \in Nat
    /\ MaxTime \in Nat
    /\ None \notin Nat
    /\ None \notin Key

VARIABLES start,     \* _violation_start_times
          last,      \* _last_trigger_times
          clock,
          incident,  \* history: per rule (levels, expression), first sample since it was clear
          fired,     \* the key of the violation the last check returned, or None
          firedAt    \* history: per key, its last trigger in this incident

checker == <<start, last>>
vars == <<start, last, clock, incident, fired, firedAt>>

Nothing == [k \in Key |-> None]

-----------------------------------------------------------------------------
Violated(v) == {l \in Levels : v > Threshold[l]}

(* sorted_levels: the first violated level, highest severity first *)
Matched(v) == {l \in Violated(v) : \A m \in Violated(v) : m <= l}

(* Mutant: the start is taken anew at every sample. *)
StartedNow(k) == clock

(* Mutant: the violation is dated one tick ahead. *)
StartedAhead(k) == IF start[k] = None THEN clock + 1 ELSE start[k]

Started(k) == IF start[k] = None THEN clock ELSE start[k]

(* Mutant: "duration reached" becomes "one sample short of the duration". *)
DueEarly(k) ==
    /\ clock - Started(k) + 1 >= Duration[k]
    /\ last[k] # None => clock - last[k] >= Cooldown

(* Mutant: the cooldown is compared with the start of the violation. *)
DueByStart(k) ==
    /\ clock - Started(k) >= Duration[k]
    /\ last[k] # None => clock - Started(k) >= Cooldown

Due(k) ==
    /\ clock - Started(k) >= Duration[k]
    /\ last[k] # None => clock - last[k] >= Cooldown

(* Entries of keys whose violation is being tracked are dropped, with their
   last trigger; a last trigger without a start is not touched. *)
Clear(K) ==
    /\ start' = [k \in Key |-> IF k \in K THEN None ELSE start[k]]
    /\ last' = [k \in Key |-> IF k \in K /\ start[k] # None THEN None ELSE last[k]]
    /\ fired' = None

(* The tail common to both rules once a key is found violated: track, wait for
   the duration and the cooldown, trigger.  others are the other levels, whose
   start (and nothing else) is dropped by a trigger. *)
Violation(k, others) ==
    \/ /\ Due(k)
       /\ start' = [j \in Key |-> IF j = k THEN Started(k)
                                  ELSE IF j \in others THEN None ELSE start[j]]
       /\ last' = [last EXCEPT ![k] = clock]
       /\ fired' = k
    \/ /\ ~Due(k)
       /\ start' = [start EXCEPT ![k] = Started(k)]
       /\ UNCHANGED last
       /\ fired' = None

(* _check_multi_level_threshold; a value of None also clears. *)
CheckLevels(v) ==
    IF v # None /\ Violated(v) # {}
    THEN \E l \in Matched(v) : Violation(l, Levels \ {l})
    ELSE Clear(Levels)

(* _check_custom_expression; an expression that raises counts as false. *)
CheckExpression(holds) ==
    IF holds THEN Violation(Expr, {}) ELSE Clear({Expr})

-----------------------------------------------------------------------------
(* History: which keys the sample exceeds, among the keys of its rule. *)
Observe(rule, exceeded) ==
    /\ incident' = [k \in Key |-> IF k \notin rule THEN incident[k]
                                  ELSE IF exceeded = {} THEN None
                                  ELSE IF incident[k] = None THEN clock ELSE incident[k]]
    /\ firedAt' = [k \in Key |-> IF k \in rule /\ exceeded = {} THEN None
                                 ELSE IF fired' = k THEN clock ELSE firedAt[k]]

Init ==
    /\ start = Nothing /\ last = Nothing
    /\ clock = 0
    /\ incident = Nothing /\ firedAt = Nothing
    /\ fired = None

(* check_thresholds with a levels rule *)
SampleLevels(v) ==
    /\ CheckLevels(v)
    /\ Observe(Levels, IF v = None THEN {} ELSE Violated(v))
    /\ UNCHANGED clock

(* check_thresholds with a custom expression *)
SampleExpression(holds) ==
    /\ CheckExpression(holds)
    /\ Observe({Expr}, IF holds THEN {Expr} ELSE {})
    /\ UNCHANGED clock

(* clear_datasource, or a restart of the process: the dictionaries are in memory. *)
Reset ==
    /\ start' = Nothing /\ last' = Nothing /\ fired' = None
    /\ incident' = Nothing /\ firedAt' = Nothing
    /\ UNCHANGED clock

Tick ==
    /\ clock < MaxTime
    /\ clock' = clock + 1
    /\ fired' = None
    /\ UNCHANGED <<start, last, incident, firedAt>>

Next ==
    \/ \E v \in Values \cup {None} : SampleLevels(v)
    \/ \E b \in BOOLEAN : SampleExpression(b)
    \/ Reset
    \/ Tick

Spec == Init /\ [][Next]_vars

-----------------------------------------------------------------------------
(* The dictionaries hold times of the past. *)
TypeOK ==
    /\ clock \in Times
    /\ start \in [Key -> Times \cup {None}]
    /\ last \in [Key -> Times \cup {None}]
    /\ incident \in [Key -> Times \cup {None}]
    /\ firedAt \in [Key -> Times \cup {None}]
    /\ fired \in Key \cup {None}
    /\ \A k \in Key : start[k] # None => start[k] <= clock

(* check_thresholds returns a violation only of a metric that has not been
   clear of every level for the duration of the level: no sequence of levels,
   missing values, expression changes and restarts shortens it. *)
TriggerAfterDuration ==
    fired # None => /\ incident[fired] # None
                    /\ clock - incident[fired] >= Duration[fired]

(* Within one incident a key triggers at most once per cooldown, whatever the
   other levels do meanwhile. *)
CooldownRespected ==
    [][\A k \in Key : fired' = k /\ firedAt[k] # None => clock - firedAt[k] >= Cooldown]_vars
=============================================================================
