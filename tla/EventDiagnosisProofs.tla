------------------------ MODULE EventDiagnosisProofs ------------------------
(* The types of EventDiagnosis and ReuseIsRecent, for any events, background
   tasks and window, and any number of escalations, recoveries and restarts. *)
EXTENDS EventDiagnosis, TLAPS

(* What a task needs to know at each of its steps *)
TaskInv ==
    \A t \in Tasks :
        /\ tasks[t].pc # "idle" => tasks[t].event \in Events
        /\ tasks[t].pc \in {"recent", "progress", "mark"} => tasks[t].copy \in Copies
        /\ t = "dispatcher" /\ tasks[t].pc \in {"run", "send"} => tasks[t].copy \in Copies

(* Unless an empty answer has renewed it, the text is as old as the columns say *)
AgeInv ==
    \A e \in Events \ renewed :
        row[e].completed # None /\ row[e].made # None => row[e].completed = row[e].made

IndInv == TypeOK /\ TaskInv /\ AgeInv
-----------------------------------------------------------------------------
PCs == {"idle", "load", "recent", "progress", "mark", "run", "send"}

TaskRecords == [pc : PCs, event : Events \cup {None}, copy : Copies \cup {None}]

LEMMA CopyTyped ==
    ASSUME TypeOK, NEW e \in Events
    PROVE  Copy(e) \in Copies
<1>1. row[e] \in Rows
    BY DEF TypeOK
<1>. QED BY <1>1 DEF Copy, Copies, Rows

LEMMA OlderTyped ==
    ASSUME NEW age \in Ages \cup {None}
    PROVE  /\ Older(age) \in Ages \cup {None}
           /\ Older(age) = None <=> age = None
BY DiagnosisAssumption DEF Older, Ages

LEMMA NoughtIsAnAge == 0 \in Ages
BY DiagnosisAssumption DEF Ages

LEMMA InitInv == Init => IndInv
<1>. SUFFICES ASSUME Init PROVE IndInv
    OBVIOUS
<1>1. TypeOK
    BY DiagnosisAssumption
    DEF Init, TypeOK, Rows, Statuses, Refreshes, Ages, Idle
<1>2. TaskInv
    BY DEF Init, TaskInv, Idle
<1>3. AgeInv
    BY DEF Init, AgeInv
<1>. QED BY <1>1, <1>2, <1>3 DEF IndInv

(* A step that gives one task a proper record and leaves the table alone *)
LEMMA TaskStep ==
    ASSUME IndInv, NEW t \in Tasks, NEW r \in TaskRecords,
           tasks' = [tasks EXCEPT ![t] = r],
           r.pc # "idle" => r.event \in Events,
           r.pc \in {"recent", "progress", "mark"} => r.copy \in Copies,
           t = "dispatcher" /\ r.pc \in {"run", "send"} => r.copy \in Copies
    PROVE  TaskInv' /\ tasks' \in [Tasks -> TaskRecords]
<1>1. tasks \in [Tasks -> TaskRecords]
    BY DEF IndInv, TypeOK, TaskRecords, PCs
<1>2. tasks' \in [Tasks -> TaskRecords]
    BY <1>1
<1>3. ASSUME NEW u \in Tasks
      PROVE  /\ tasks'[u].pc # "idle" => tasks'[u].event \in Events
             /\ tasks'[u].pc \in {"recent", "progress", "mark"} => tasks'[u].copy \in Copies
             /\ u = "dispatcher" /\ tasks'[u].pc \in {"run", "send"} => tasks'[u].copy \in Copies
    <2>1. CASE u = t
        BY <2>1, <1>1
    <2>2. CASE u # t
        <3>1. tasks'[u] = tasks[u]
            BY <2>2, <1>1
        <3>. QED BY <3>1 DEF IndInv, TaskInv
    <2>. QED BY <2>1, <2>2
<1>. QED BY <1>2, <1>3 DEF TaskInv

LEMMA DoneStep ==
    ASSUME IndInv, NEW t \in Tasks, NEW c \in Copies, tasks[t].event \in Events, Done(t, c)
    PROVE  TaskInv' /\ tasks' \in [Tasks -> TaskRecords]
<1>. DEFINE r == IF t = "dispatcher" /\ ShouldRefresh(c)
                 THEN [tasks[t] EXCEPT !.pc = "send", !.copy = c] ELSE Idle
<1>1. tasks[t] \in TaskRecords
    BY DEF IndInv, TypeOK, TaskRecords, PCs
<1>2. r \in TaskRecords
    BY <1>1 DEF TaskRecords, PCs, Idle
<1>3. tasks' = [tasks EXCEPT ![t] = r]
    BY DEF Done
<1>4. /\ r.pc \in {"send", "idle"}
      /\ r.pc = "send" => r.event \in Events /\ r.copy \in Copies
    BY <1>1 DEF TaskRecords, Idle
<1>. HIDE DEF r
<1>. QED BY <1>2, <1>3, <1>4, TaskStep

LEMMA GotoStep ==
    ASSUME IndInv, NEW t \in Tasks, NEW pc \in {"progress", "mark"},
           tasks[t].pc \in {"recent", "progress"}, Goto(t, pc)
    PROVE  TaskInv' /\ tasks' \in [Tasks -> TaskRecords]
<1>. DEFINE r == [tasks[t] EXCEPT !.pc = pc]
<1>1. tasks[t] \in TaskRecords
    BY DEF IndInv, TypeOK, TaskRecords, PCs
<1>2. r \in TaskRecords /\ r.pc = pc /\ r.event = tasks[t].event /\ r.copy = tasks[t].copy
    BY <1>1 DEF TaskRecords, PCs
<1>3. tasks' = [tasks EXCEPT ![t] = r]
    BY <1>1 DEF Goto, IndInv, TypeOK
<1>4. tasks[t].event \in Events /\ tasks[t].copy \in Copies
    BY DEF IndInv, TaskInv
<1>. HIDE DEF r
<1>. QED BY <1>2, <1>3, <1>4, TaskStep

(* The row of one event gets other values *)
LEMMA RowStep ==
    ASSUME IndInv, NEW e \in Events, NEW r \in Rows, row' = [row EXCEPT ![e] = r],
           renewed' \in {renewed, renewed \cup {e}, renewed \ {e}},
           \/ e \in renewed'
           \/ r.completed # None /\ r.made # None => r.completed = r.made
    PROVE  /\ row' \in [Events -> Rows]
           /\ renewed' \subseteq Events
           /\ AgeInv'
<1>1. row \in [Events -> Rows] /\ renewed \subseteq Events
    BY DEF IndInv, TypeOK
<1>2. ASSUME NEW f \in Events \ renewed', row'[f].completed # None, row'[f].made # None
      PROVE  row'[f].completed = row'[f].made
    <2>1. CASE f = e
        BY <1>1, <1>2, <2>1
    <2>2. CASE f # e
        BY <1>1, <1>2, <2>2 DEF IndInv, AgeInv
    <2>. QED BY <2>1, <2>2
<1>. QED BY <1>1, <1>2 DEF AgeInv

LEMMA Whole ==
    ASSUME row' \in [Events -> Rows], renewed' \subseteq Events, AgeInv',
           tasks' \in [Tasks -> TaskRecords], TaskInv', changes' \in 0..MaxChanges
    PROVE  IndInv'
BY DEF IndInv, TypeOK, TaskRecords, PCs

LEMMA Typed ==
    ASSUME IndInv
    PROVE  /\ row \in [Events -> Rows] /\ renewed \subseteq Events /\ AgeInv
           /\ tasks \in [Tasks -> TaskRecords] /\ TaskInv /\ changes \in 0..MaxChanges
BY DEF IndInv, TypeOK, TaskRecords, PCs

LEMMA AttemptInv ==
    ASSUME IndInv, NEW e \in Events, Attempt(e)
    PROVE  IndInv'
<1>. DEFINE r == [pc |-> "recent", event |-> e, copy |-> Copy(e)]
<1>1. Copy(e) \in Copies
    BY CopyTyped DEF IndInv
<1>2. r \in TaskRecords /\ "dispatcher" \in Tasks
    BY <1>1 DEF TaskRecords, PCs, Tasks
<1>3. tasks' = [tasks EXCEPT !["dispatcher"] = r]
    BY DEF Attempt
<1>4. r.event = e /\ r.copy = Copy(e)
    OBVIOUS
<1>. HIDE DEF r
<1>5. TaskInv' /\ tasks' \in [Tasks -> TaskRecords]
    BY <1>1, <1>2, <1>3, <1>4, TaskStep
<1>. QED BY <1>5, Typed, Whole DEF Attempt, AgeInv

LEMMA LoadInv ==
    ASSUME IndInv, NEW t \in Tasks, Load(t)
    PROVE  IndInv'
<1>. DEFINE e == tasks[t].event
            r == IF Cached(Copy(e)) THEN Idle
                 ELSE [tasks[t] EXCEPT !.pc = "recent", !.copy = Copy(e)]
<1>1. e \in Events
    BY DEF Load, IndInv, TaskInv
<1>2. Copy(e) \in Copies
    BY <1>1, CopyTyped DEF IndInv
<1>3. tasks[t] \in TaskRecords
    BY Typed
<1>4. /\ r \in TaskRecords
      /\ r.pc \in {"idle", "recent"}
      /\ r.pc = "recent" => r.event \in Events /\ r.copy \in Copies
    BY <1>1, <1>2, <1>3 DEF TaskRecords, PCs, Idle
<1>5. tasks' = [tasks EXCEPT ![t] = r]
    BY DEF Load
<1>. HIDE DEF r
<1>6. TaskInv' /\ tasks' \in [Tasks -> TaskRecords]
    BY <1>4, <1>5, TaskStep
<1>. QED BY <1>6, Typed, Whole DEF Load, AgeInv

LEMMA ReuseInv ==
    ASSUME IndInv, NEW t \in Tasks, Reuse(t)
    PROVE  /\ IndInv'
           /\ tasks[t].event \notin renewed' => InWindow(row'[tasks[t].event].made)
<1>. DEFINE e == tasks[t].event
            c == tasks[t].copy
            n == [c EXCEPT !.status = "completed", !.refresh = "no",
                           !.hasCompleted = TRUE, !.hasSummary = TRUE]
<1>1. e \in Events /\ c \in Copies
    BY DEF Reuse, IndInv, TaskInv
<1>2. PICK o \in Recent(t) :
        /\ row' = [row EXCEPT ![e].status    = Written("completed", c.status, @),
                              ![e].refresh   = Written("no", c.refresh, @),
                              ![e].completed = row[o].completed,
                              ![e].made      = row[o].made]
        /\ Done(t, n)
        /\ renewed' = IF o \in renewed THEN renewed \cup {e} ELSE renewed \ {e}
        /\ UNCHANGED changes
    BY DEF Reuse
<1>3. /\ o \in Events /\ o # e
      /\ row[o].made # None /\ InWindow(row[o].completed)
    BY <1>2 DEF Recent, Others
<1>4. row[o] \in Rows /\ row[e] \in Rows /\ row \in [Events -> Rows]
    BY <1>1, <1>3, Typed
<1>. DEFINE r == [row[e] EXCEPT !.status    = Written("completed", c.status, @),
                                !.refresh   = Written("no", c.refresh, @),
                                !.completed = row[o].completed,
                                !.made      = row[o].made]
<1>5. r \in Rows /\ r.made = row[o].made /\ r.completed = row[o].completed
    BY <1>4 DEF Rows, Written, Statuses, Refreshes
<1>6. row' = [row EXCEPT ![e] = r]
    BY <1>1, <1>2, <1>4
<1>7. o \notin renewed => row[o].made = row[o].completed
    BY <1>3, Typed DEF AgeInv, InWindow
<1>8. e \in renewed' \/ (r.completed # None /\ r.made # None => r.completed = r.made)
    BY <1>2, <1>5, <1>7
<1>9. row'[e] = r
    BY <1>1, <1>4, <1>6
<1>10. e \notin renewed' => InWindow(row'[e].made)
    BY <1>2, <1>3, <1>5, <1>7, <1>9
<1>. HIDE DEF r
<1>11. row' \in [Events -> Rows] /\ renewed' \subseteq Events /\ AgeInv'
    BY <1>1, <1>2, <1>5, <1>6, <1>8, RowStep
<1>12. n \in Copies
    BY <1>1 DEF Copies, Statuses, Refreshes
<1>. HIDE DEF n
<1>13. TaskInv' /\ tasks' \in [Tasks -> TaskRecords]
    BY <1>1, <1>2, <1>12, DoneStep
<1>. QED BY <1>2, <1>10, <1>11, <1>13, Typed, Whole

LEMMA NothingInv ==
    ASSUME IndInv, NEW t \in Tasks, NothingRecent(t) \/ NothingInProgress(t)
    PROVE  IndInv'
<1>1. TaskInv' /\ tasks' \in [Tasks -> TaskRecords]
    BY GotoStep DEF NothingRecent, NothingInProgress
<1>. QED BY <1>1, Typed, Whole DEF NothingRecent, NothingInProgress, AgeInv

LEMMA WaitInv ==
    ASSUME IndInv, NEW t \in Tasks, Wait(t)
    PROVE  IndInv'
<1>. DEFINE e == tasks[t].event
            c == tasks[t].copy
            n == [c EXCEPT !.status = "pending"]
            r == [row[e] EXCEPT !.status = Written("pending", c.status, @)]
<1>1. e \in Events /\ c \in Copies
    BY DEF Wait, IndInv, TaskInv
<1>2. row[e] \in Rows /\ row \in [Events -> Rows]
    BY <1>1, Typed
<1>3. r \in Rows /\ r.made = row[e].made /\ r.completed = row[e].completed
    BY <1>2 DEF Rows, Written, Statuses
<1>4. row' = [row EXCEPT ![e] = r]
    BY <1>1, <1>2 DEF Wait
<1>5. e \in renewed' \/ (r.completed # None /\ r.made # None => r.completed = r.made)
    BY <1>1, <1>3, Typed DEF Wait, AgeInv
<1>6. n \in Copies /\ Done(t, n)
    BY <1>1 DEF Copies, Statuses, Wait
<1>. HIDE DEF n, r
<1>7. TaskInv' /\ tasks' \in [Tasks -> TaskRecords]
    BY <1>1, <1>6, DoneStep
<1>8. row' \in [Events -> Rows] /\ renewed' \subseteq Events /\ AgeInv'
    BY <1>1, <1>3, <1>4, <1>5, RowStep DEF Wait
<1>. QED BY <1>7, <1>8, Typed, Whole DEF Wait

LEMMA MarkInv ==
    ASSUME IndInv, NEW t \in Tasks, Mark(t)
    PROVE  IndInv'
<1>. DEFINE e == tasks[t].event
            c == tasks[t].copy
            r == [row[e] EXCEPT !.status    = Written("in_progress", c.status, @),
                                !.started   = 0,
                                !.completed = IF c.hasCompleted THEN None ELSE @]
            n == [tasks[t] EXCEPT !.pc = "run",
                                  !.copy = IF t = "dispatcher"
                                           THEN [@ EXCEPT !.status = "in_progress",
                                                          !.hasCompleted = FALSE]
                                           ELSE None]
<1>1. e \in Events /\ c \in Copies /\ tasks[t] \in TaskRecords
    BY Typed DEF Mark, TaskInv
<1>2. row[e] \in Rows /\ row \in [Events -> Rows]
    BY <1>1, Typed
<1>3. /\ r \in Rows
      /\ r.made = row[e].made /\ (r.completed = row[e].completed \/ r.completed = None)
    BY <1>2, NoughtIsAnAge DEF Rows, Written, Statuses
<1>4. row' = [row EXCEPT ![e] = r]
    BY <1>1, <1>2 DEF Mark
<1>5. e \in renewed' \/ (r.completed # None /\ r.made # None => r.completed = r.made)
    BY <1>1, <1>3, Typed DEF Mark, AgeInv
<1>6. /\ n \in TaskRecords /\ n.pc = "run" /\ n.event \in Events
      /\ t = "dispatcher" => n.copy \in Copies
    BY <1>1 DEF Copies, Statuses, TaskRecords, PCs
<1>7. tasks' = [tasks EXCEPT ![t] = n]
    BY <1>1, Typed DEF Mark
<1>. HIDE DEF n, r
<1>8. TaskInv' /\ tasks' \in [Tasks -> TaskRecords]
    BY <1>6, <1>7, TaskStep
<1>9. row' \in [Events -> Rows] /\ renewed' \subseteq Events /\ AgeInv'
    BY <1>1, <1>3, <1>4, <1>5, RowStep DEF Mark
<1>. QED BY <1>8, <1>9, Typed, Whole DEF Mark

LEMMA SyncAnswerInv ==
    ASSUME IndInv, NEW text \in BOOLEAN, SyncAnswer(text)
    PROVE  IndInv'
<1>. DEFINE t == "dispatcher"
            e == tasks[t].event
            c == tasks[t].copy
            r == [row[e] EXCEPT !.status    = "completed",
                                !.refresh   = Written("no", c.refresh, @),
                                !.completed = 0,
                                !.made = IF text THEN 0 ELSE IF c.hasSummary THEN None ELSE @]
            n == [c EXCEPT !.status = "completed", !.refresh = "no",
                           !.hasCompleted = TRUE, !.hasSummary = text]
<1>0. t \in Tasks
    BY DEF Tasks
<1>1. e \in Events /\ c \in Copies
    BY <1>0 DEF SyncAnswer, IndInv, TaskInv
<1>2. row[e] \in Rows /\ row \in [Events -> Rows]
    BY <1>1, Typed
<1>3. r \in Rows /\ r.completed = 0
    BY <1>2, NoughtIsAnAge DEF Rows, Written, Statuses, Refreshes
<1>4. row' = [row EXCEPT ![e] = r]
    BY <1>1, <1>2 DEF SyncAnswer
<1>5. row'[e] = r
    BY <1>1, <1>2, <1>4
<1>6. renewed' = IF r.made \notin {None, 0} THEN renewed \cup {e} ELSE renewed \ {e}
    BY <1>5 DEF SyncAnswer
<1>7. n \in Copies /\ Done(t, n)
    BY <1>1 DEF Copies, Statuses, Refreshes, SyncAnswer
<1>. HIDE DEF n, r, t
<1>8. TaskInv' /\ tasks' \in [Tasks -> TaskRecords]
    BY <1>0, <1>1, <1>7, DoneStep
<1>9. row' \in [Events -> Rows] /\ renewed' \subseteq Events /\ AgeInv'
    BY <1>1, <1>3, <1>4, <1>6, RowStep
<1>. QED BY <1>8, <1>9, Typed, Whole DEF SyncAnswer

LEMMA SyncGivenUpInv ==
    ASSUME IndInv, NEW s \in {"pending", "failed"}, SyncGivenUp(s)
    PROVE  IndInv'
<1>. DEFINE t == "dispatcher"
            e == tasks[t].event
            c == tasks[t].copy
            r == [row[e] EXCEPT !.status = s]
            n == [c EXCEPT !.status = s]
<1>0. t \in Tasks
    BY DEF Tasks
<1>1. e \in Events /\ c \in Copies
    BY <1>0 DEF SyncGivenUp, IndInv, TaskInv
<1>2. row[e] \in Rows /\ row \in [Events -> Rows]
    BY <1>1, Typed
<1>3. r \in Rows /\ r.made = row[e].made /\ r.completed = row[e].completed
    BY <1>2 DEF Rows, Statuses
<1>4. row' = [row EXCEPT ![e] = r]
    BY <1>1, <1>2 DEF SyncGivenUp
<1>5. e \in renewed' \/ (r.completed # None /\ r.made # None => r.completed = r.made)
    BY <1>1, <1>3, Typed DEF SyncGivenUp, AgeInv
<1>6. n \in Copies /\ Done(t, n)
    BY <1>1 DEF Copies, Statuses, SyncGivenUp
<1>. HIDE DEF n, r, t
<1>7. TaskInv' /\ tasks' \in [Tasks -> TaskRecords]
    BY <1>0, <1>1, <1>6, DoneStep
<1>8. row' \in [Events -> Rows] /\ renewed' \subseteq Events /\ AgeInv'
    BY <1>1, <1>3, <1>4, <1>5, RowStep DEF SyncGivenUp
<1>. QED BY <1>7, <1>8, Typed, Whole DEF SyncGivenUp

LEMMA IdleStep ==
    ASSUME IndInv, NEW t \in Tasks, tasks' = [tasks EXCEPT ![t] = Idle]
    PROVE  TaskInv' /\ tasks' \in [Tasks -> TaskRecords]
<1>1. Idle \in TaskRecords /\ Idle.pc = "idle"
    BY DEF Idle, TaskRecords, PCs
<1>. HIDE DEF Idle
<1>. QED BY <1>1, TaskStep

LEMMA BackgroundAnswerInv ==
    ASSUME IndInv, NEW t \in Tasks, NEW answer, BackgroundAnswer(t, answer)
    PROVE  IndInv'
<1>. DEFINE e == tasks[t].event
            r == [row[e] EXCEPT !.status = "completed", !.refresh = "no", !.completed = 0,
                                !.made = IF answer = "summary" THEN 0 ELSE None]
<1>1. e \in Events /\ row \in [Events -> Rows]
    BY Typed DEF BackgroundAnswer, TaskInv
<1>2. TaskInv' /\ tasks' \in [Tasks -> TaskRecords]
    BY IdleStep DEF BackgroundAnswer
<1>3. row' \in [Events -> Rows] /\ renewed' \subseteq Events /\ AgeInv'
    <2>1. CASE answer # "empty"
        <3>1. row[e] \in Rows
            BY <1>1
        <3>2. r \in Rows /\ (r.made # None => r.completed = r.made)
            BY <3>1, NoughtIsAnAge DEF Rows, Statuses, Refreshes
        <3>3. row' = [row EXCEPT ![e] = r] /\ renewed' = renewed \ {e}
            BY <2>1, <1>1 DEF BackgroundAnswer
        <3>. HIDE DEF r
        <3>. QED BY <1>1, <3>2, <3>3, RowStep
    <2>2. CASE answer = "empty"
        BY <2>2, Typed DEF BackgroundAnswer, AgeInv
    <2>. QED BY <2>1, <2>2
<1>. QED BY <1>2, <1>3, Typed, Whole DEF BackgroundAnswer

LEMMA BackgroundFailsInv ==
    ASSUME IndInv, NEW t \in Tasks, BackgroundFails(t)
    PROVE  IndInv'
<1>. DEFINE e == tasks[t].event
            r == [row[e] EXCEPT !.status = "failed"]
<1>1. e \in Events /\ row \in [Events -> Rows] /\ row[e] \in Rows
    BY Typed DEF BackgroundFails, TaskInv
<1>2. TaskInv' /\ tasks' \in [Tasks -> TaskRecords]
    BY IdleStep DEF BackgroundFails
<1>3. r \in Rows /\ r.made = row[e].made /\ r.completed = row[e].completed
    BY <1>1 DEF Rows, Statuses
<1>4. row' = [row EXCEPT ![e] = r]
    BY <1>1 DEF BackgroundFails
<1>5. e \in renewed' \/ (r.completed # None /\ r.made # None => r.completed = r.made)
    BY <1>1, <1>3, Typed DEF BackgroundFails, AgeInv
<1>. HIDE DEF r
<1>6. row' \in [Events -> Rows] /\ renewed' \subseteq Events /\ AgeInv'
    BY <1>1, <1>3, <1>4, <1>5, RowStep DEF BackgroundFails
<1>. QED BY <1>2, <1>6, Typed, Whole DEF BackgroundFails

LEMMA SentInv ==
    ASSUME IndInv, NEW t \in Tasks, Sent(t)
    PROVE  IndInv'
<1>. DEFINE r == [pc |-> "load", event |-> tasks["dispatcher"].event, copy |-> None]
<1>1. tasks["dispatcher"].event \in Events
    BY Typed DEF Sent, TaskInv, Tasks
<1>2. r \in TaskRecords /\ r.pc = "load" /\ r.event \in Events
    BY <1>1 DEF TaskRecords, PCs
<1>3. tasks' = [tasks EXCEPT ![t] = r]
    BY DEF Sent
<1>. HIDE DEF r
<1>4. TaskInv' /\ tasks' \in [Tasks -> TaskRecords]
    BY <1>2, <1>3, TaskStep
<1>. QED BY <1>4, Typed, Whole DEF Sent, AgeInv

LEMMA NextAlertInv == IndInv /\ NextAlert => IndInv'
<1>. SUFFICES ASSUME IndInv, NextAlert PROVE IndInv'
    OBVIOUS
<1>1. TaskInv' /\ tasks' \in [Tasks -> TaskRecords]
    BY IdleStep DEF NextAlert, Tasks
<1>. QED BY <1>1, Typed, Whole DEF NextAlert, AgeInv

LEMMA RefreshInv ==
    ASSUME IndInv, NEW e \in Events, NEW s \in Reasons, Refresh(e, s)
    PROVE  IndInv'
<1>. DEFINE r == [row[e] EXCEPT !.refresh = s]
<1>1. row \in [Events -> Rows] /\ row[e] \in Rows
    BY Typed
<1>2. r \in Rows /\ r.made = row[e].made /\ r.completed = row[e].completed
    BY <1>1, DiagnosisAssumption DEF Rows, Refreshes
<1>3. row' = [row EXCEPT ![e] = r]
    BY <1>1 DEF Refresh
<1>4. e \in renewed' \/ (r.completed # None /\ r.made # None => r.completed = r.made)
    BY <1>2, Typed DEF Refresh, AgeInv
<1>. HIDE DEF r
<1>5. row' \in [Events -> Rows] /\ renewed' \subseteq Events /\ AgeInv'
    BY <1>2, <1>3, <1>4, RowStep DEF Refresh
<1>6. changes' \in 0..MaxChanges
    BY Typed, DiagnosisAssumption DEF Refresh
<1>. QED BY <1>5, <1>6, Typed, Whole DEF Refresh, TaskInv

LEMMA TickInv == IndInv /\ Tick => IndInv'
<1>. SUFFICES ASSUME IndInv, Tick PROVE IndInv'
    OBVIOUS
<1>1. ASSUME NEW e \in Events
      PROVE  /\ row'[e] \in Rows
             /\ row'[e].completed = Older(row[e].completed)
             /\ row'[e].made = Older(row[e].made)
    <2>1. row[e] \in Rows
        BY Typed
    <2>2. row'[e] = [row[e] EXCEPT !.started = Older(@), !.completed = Older(@),
                                   !.made = Older(@)]
        BY DEF Tick
    <2>. QED BY <2>1, <2>2, OlderTyped DEF Rows
<1>2. row' \in [Events -> Rows]
    BY <1>1 DEF Tick
<1>3. ASSUME NEW e \in Events \ renewed', row'[e].completed # None, row'[e].made # None
      PROVE  row'[e].completed = row'[e].made
    <2>1. row[e] \in Rows /\ e \notin renewed
        BY Typed DEF Tick
    <2>2. row[e].completed # None /\ row[e].made # None
        BY <1>1, <1>3, <2>1, OlderTyped DEF Rows
    <2>. QED BY <1>1, <2>1, <2>2, Typed DEF AgeInv
<1>. QED BY <1>2, <1>3, Typed, Whole DEF Tick, AgeInv, TaskInv

LEMMA CrashInv == IndInv /\ Crash => IndInv'
<1>. SUFFICES ASSUME IndInv, Crash PROVE IndInv'
    OBVIOUS
<1>1. Idle \in TaskRecords /\ Idle.pc = "idle"
    BY DEF Idle, TaskRecords, PCs
<1>2. tasks' \in [Tasks -> TaskRecords] /\ \A t \in Tasks : tasks'[t].pc = "idle"
    BY <1>1 DEF Crash
<1>3. TaskInv'
    BY <1>2 DEF TaskInv
<1>4. changes' \in 0..MaxChanges
    BY Typed, DiagnosisAssumption DEF Crash
<1>. QED BY <1>2, <1>3, <1>4, Typed, Whole DEF Crash, AgeInv

LEMMA NextInv == IndInv /\ [Next]_vars => IndInv'
<1>. SUFFICES ASSUME IndInv, [Next]_vars PROVE IndInv'
    OBVIOUS
<1>1. CASE \E e \in Events : Attempt(e)
    BY <1>1, AttemptInv
<1>2. ASSUME NEW t \in Tasks, Prepare(t)
      PROVE  IndInv'
    BY <1>2, LoadInv, ReuseInv, NothingInv, WaitInv, MarkInv DEF Prepare
<1>3. ASSUME NEW t \in Tasks, Ends(t)
      PROVE  IndInv'
    BY <1>3, SyncAnswerInv, SyncGivenUpInv, BackgroundAnswerInv, BackgroundFailsInv DEF Ends
<1>4. CASE \E t \in Tasks : Sent(t)
    BY <1>4, SentInv
<1>5. CASE \E e \in Events, r \in Reasons : Refresh(e, r)
    BY <1>5, RefreshInv
<1>6. CASE NextAlert \/ Tick \/ Crash
    BY <1>6, NextAlertInv, TickInv, CrashInv
<1>7. CASE UNCHANGED vars
    BY <1>7, Typed, Whole DEF vars, AgeInv, TaskInv
<1>. QED BY <1>1, <1>2, <1>3, <1>4, <1>5, <1>6, <1>7 DEF Next

(* The rows of the diagnosis columns and the copies that sessions keep of them
   are well formed whatever the tasks of alert_service.py do. *)
THEOREM DiagnosisTyped == Spec => []TypeOK
<1>1. IndInv => TypeOK
    BY DEF IndInv
<1>. QED BY <1>1, InitInv, NextInv, PTL DEF Spec

(* _reuse_diagnosis_from_event hands on the time of the answer with the text, so
   that _find_recent_diagnosis never accepts a text for longer than the window. *)
THEOREM ReusedInTime == Spec => ReuseIsRecent
<1>1. IndInv /\ [Next]_vars =>
          [\A t \in Tasks : Reuse(t) /\ tasks[t].event \notin renewed' =>
               InWindow(row'[tasks[t].event].made)]_vars
    BY ReuseInv
<1>. QED BY <1>1, InitInv, NextInv, PTL DEF Spec, ReuseIsRecent
=============================================================================
