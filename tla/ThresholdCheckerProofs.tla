----------------------- MODULE ThresholdCheckerProofs -----------------------
(* Proofs about ThresholdChecker for every set of levels, thresholds,
   durations and cooldown. *)
EXTENDS ThresholdChecker, TLAPS

Entries == [Key -> Times \cup {None}]

(* The dictionaries agree with the history: a tracked violation started within
   the current incident, and the trigger the history knows of is the one the
   cooldown is measured from. *)
Consistent ==
    /\ \A k \in Key : start[k] # None => /\ incident[k] # None
                                         /\ incident[k] <= start[k]
    /\ \A k \in Key : incident[k] # None => incident[k] <= clock
    /\ \A k \in Key : firedAt[k] # None => last[k] = firedAt[k]
    /\ fired # None => /\ start[fired] # None
                       /\ clock - start[fired] >= Duration[fired]

Inv == TypeOK /\ Consistent

LEMMA Constants ==
    /\ \A t \in Times : t \in Int /\ t # None
    /\ \A k \in Key : Duration[k] \in Int /\ k # None
    /\ Expr \in Key /\ Expr \notin Levels
    /\ Levels \subseteq Key
<1>1. \A t \in Times : t \in Int /\ t # None
  BY CheckerAssumption DEF Times
<1>2. \A k \in Key : Duration[k] \in Nat
  BY CheckerAssumption
<1>3. \A k \in Key : k # None
  BY CheckerAssumption
<1>4. Expr \in Key /\ Expr \notin Levels /\ Levels \subseteq Key
  BY CheckerAssumption DEF Key
<1> QED BY <1>1, <1>2, <1>3, <1>4

LEMMA InitInv == Init => Inv
BY Constants, CheckerAssumption DEF Init, Inv, TypeOK, Consistent, Nothing, Times

(* One check of a rule, for the key k of the rule that was found violated. *)
LEMMA ViolationInv ==
    ASSUME Inv, NEW k \in Key, NEW rule \in SUBSET Key, NEW exceeded \in SUBSET rule,
           k \in exceeded, Violation(k, rule \ {k}), Observe(rule, exceeded), UNCHANGED clock
    PROVE  Inv' /\ (fired' = k /\ firedAt[k] # None => clock - firedAt[k] >= Cooldown)
                /\ fired' \in {k, None}
<1> USE Constants DEF Inv
<1>1. Started(k) \in Times /\ Started(k) <= clock
  BY DEF Started, TypeOK
<1>2. start[k] # None => Started(k) = start[k]
  BY DEF Started
<1>3. incident' \in Entries /\ firedAt' \in Entries
  BY DEF Observe, TypeOK, Entries
<1>4. incident'[k] # None /\ incident'[k] <= Started(k)
  <2>1. incident'[k] = IF incident[k] = None THEN clock ELSE incident[k]
    BY DEF Observe
  <2>2. CASE incident[k] = None
    BY <2>1, <2>2 DEF Started, Consistent, TypeOK
  <2>3. CASE incident[k] # None
    BY <2>1, <2>3 DEF Started, Consistent, TypeOK
  <2> QED BY <2>2, <2>3
<1>5. \A j \in Key : incident[j] # None => incident'[j] = incident[j]
  BY DEF Observe, TypeOK
<1>6. \A j \in Key : incident'[j] # None => incident'[j] <= clock'
  BY DEF Observe, TypeOK, Consistent
<1>7. CASE Due(k) /\ fired' = k
  <2>1. /\ start' = [j \in Key |-> IF j = k THEN Started(k)
                                   ELSE IF j \in rule \ {k} THEN None ELSE start[j]]
        /\ last' = [last EXCEPT ![k] = clock]
    BY <1>7 DEF Violation
  <2>2. TypeOK'
    BY <1>1, <1>3, <1>7, <2>1 DEF TypeOK, Entries
  <2>3. \A j \in Key : start'[j] # None => incident'[j] # None /\ incident'[j] <= start'[j]
    BY <1>4, <1>5, <2>1 DEF Consistent
  <2>4. \A j \in Key : firedAt'[j] # None => last'[j] = firedAt'[j]
    BY <1>7, <2>1 DEF Observe, Consistent, TypeOK
  <2>5. start'[k] # None /\ clock - start'[k] >= Duration[k]
    BY <1>1, <1>7, <2>1 DEF Due
  <2>6. firedAt[k] # None => clock - firedAt[k] >= Cooldown
    BY <1>7 DEF Due, Consistent
  <2> QED BY <1>7, <1>6, <2>2, <2>3, <2>4, <2>5, <2>6 DEF Consistent
<1>8. CASE fired' = None
  <2>1. start' = [start EXCEPT ![k] = Started(k)] /\ last' = last
    BY <1>8 DEF Violation
  <2>2. TypeOK'
    BY <1>1, <1>3, <1>8, <2>1 DEF TypeOK, Entries
  <2>3. \A j \in Key : start'[j] # None => incident'[j] # None /\ incident'[j] <= start'[j]
    BY <1>4, <1>5, <2>1 DEF Consistent, TypeOK
  <2>4. \A j \in Key : firedAt'[j] # None => last'[j] = firedAt'[j]
    BY <1>8, <2>1 DEF Observe, Consistent, TypeOK
  <2> QED BY <1>8, <1>6, <2>2, <2>3, <2>4 DEF Consistent
<1> QED BY <1>7, <1>8 DEF Violation

LEMMA ClearInv ==
    ASSUME Inv, NEW rule \in SUBSET Key, Clear(rule), Observe(rule, {}), UNCHANGED clock
    PROVE  Inv' /\ fired' = None
<1> USE Constants DEF Inv
<1>1. TypeOK'
  BY DEF Clear, Observe, TypeOK
<1>2. \A j \in Key : start'[j] # None => incident'[j] # None /\ incident'[j] <= start'[j]
  BY DEF Clear, Observe, Consistent
<1>3. \A j \in Key : firedAt'[j] # None => last'[j] = firedAt'[j]
  BY DEF Clear, Observe, Consistent
<1>4. \A j \in Key : incident'[j] # None => incident'[j] <= clock'
  BY DEF Observe, Consistent, TypeOK
<1> QED BY <1>1, <1>2, <1>3, <1>4 DEF Clear, Consistent

CooldownStep == \A k \in Key : fired' = k /\ firedAt[k] # None => clock - firedAt[k] >= Cooldown

(* A step that is not a trigger keeps the dictionaries or empties them. *)
LEMMA NextInv ==
    ASSUME Inv, [Next]_vars
    PROVE  Inv' /\ (vars' # vars => CooldownStep)
<1> USE Constants DEF Inv
<1>1. ASSUME NEW v \in Values \cup {None}, SampleLevels(v)
      PROVE  Inv' /\ CooldownStep
  <2>1. CASE v # None /\ Violated(v) # {}
    <3>1. PICK l \in Matched(v) : Violation(l, Levels \ {l})
      BY <1>1, <2>1 DEF SampleLevels, CheckLevels
    <3>2. l \in Violated(v) /\ Violated(v) \subseteq Levels /\ l \in Key
      BY DEF Matched, Violated
    <3>3. Observe(Levels, Violated(v)) /\ UNCHANGED clock
      BY <1>1, <2>1 DEF SampleLevels
    <3>4. Inv' /\ (fired' = l /\ firedAt[l] # None => clock - firedAt[l] >= Cooldown)
               /\ fired' \in {l, None}
      BY <3>1, <3>2, <3>3, ViolationInv
    <3> QED BY <3>4 DEF CooldownStep
  <2>2. CASE ~(v # None /\ Violated(v) # {})
    <3>1. Clear(Levels) /\ Observe(Levels, {}) /\ UNCHANGED clock
      BY <1>1, <2>2 DEF SampleLevels, CheckLevels
    <3> QED BY <3>1, ClearInv DEF CooldownStep
  <2> QED BY <2>1, <2>2
<1>2. ASSUME NEW b \in BOOLEAN, SampleExpression(b)
      PROVE  Inv' /\ CooldownStep
  <2>1. CASE b
    <3>1. Violation(Expr, {}) /\ Observe({Expr}, {Expr}) /\ UNCHANGED clock
      BY <1>2, <2>1 DEF SampleExpression, CheckExpression
    <3>2. {Expr} \ {Expr} = {}
      OBVIOUS
    <3>3. Inv' /\ (fired' = Expr /\ firedAt[Expr] # None => clock - firedAt[Expr] >= Cooldown)
               /\ fired' \in {Expr, None}
      BY <3>1, <3>2, ViolationInv
    <3> QED BY <3>3 DEF CooldownStep
  <2>2. CASE ~b
    <3>1. Clear({Expr}) /\ Observe({Expr}, {}) /\ UNCHANGED clock
      BY <1>2, <2>2 DEF SampleExpression, CheckExpression
    <3> QED BY <3>1, ClearInv DEF CooldownStep
  <2> QED BY <2>1, <2>2
<1>3. CASE Reset
  BY <1>3 DEF Reset, TypeOK, Consistent, Nothing, CooldownStep
<1>4. CASE Tick
  BY <1>4, CheckerAssumption DEF Tick, TypeOK, Consistent, Times, CooldownStep
<1>5. CASE UNCHANGED vars
  BY <1>5 DEF vars, TypeOK, Consistent
<1> QED BY <1>1, <1>2, <1>3, <1>4, <1>5 DEF Next

(* The dictionaries hold times of the past. *)
THEOREM CheckerTyped == Spec => []TypeOK
<1>1. Inv => TypeOK
  BY DEF Inv
<1> QED BY InitInv, NextInv, <1>1, PTL DEF Spec

(* No trigger before the metric has been above some level for the duration. *)
THEOREM TriggersWait == Spec => []TriggerAfterDuration
<1>1. Inv => TriggerAfterDuration
  BY Constants DEF Inv, TypeOK, Consistent, TriggerAfterDuration
<1> QED BY InitInv, NextInv, <1>1, PTL DEF Spec

(* Triggers of one key within one incident are a cooldown apart. *)
THEOREM TriggersAreApart == Spec => CooldownRespected
<1>1. ASSUME Inv, [Next]_vars
      PROVE  [CooldownStep]_vars
  BY <1>1, NextInv
<1>2. Spec => [][CooldownStep]_vars
  BY InitInv, NextInv, <1>1, PTL DEF Spec
<1> QED BY <1>2 DEF CooldownRespected, CooldownStep
=============================================================================
