--------------------------- MODULE EventDiagnosis ---------------------------
(* The diagnosis of alert events: alert_service.py, called by the notification
   dispatcher before it sends an alert (run_sync_diagnosis) and once it has sent
   one (trigger_auto_diagnosis, in the background), both over the diagnosis
   columns of alert_event.  The events here are alike (datasource, alert type,
   metric), so that each may reuse the diagnosis of another or wait for it.

   Times are ages, which stop growing past the window.  An action is what a
   coroutine does between two points where another session can interfere; it
   keeps the row as it has loaded it, and its commits write the columns that it
   has changed.  Left out: deleted datasources, the stale recheck, which never
   gets past the look at the cached diagnosis, and the row as a later alert of
   the same dispatcher cycle meets it. *)
EXTENDS Naturals, FiniteSets

CONSTANTS Events,
          Background,    \* tasks of _trigger_alert_auto_diagnosis, a bound
          Window,        \* inspection_dedup_window_minutes
          Reasons,       \* why a diagnosis may be asked for or called off anew
          MaxChanges,    \* bound: escalations, recoveries and restarts
          None

ASSUME DiagnosisAssumption ==
    /\ Window \in Nat \ {0}
    /\ MaxChanges \in Nat
    /\ Reasons \subseteq {"needed", "recovered"}
    /\ None \notin Nat
    /\ "dispatcher" \notin Background

VARIABLES row,        \* the diagnosis columns of each event
          tasks,      \* the dispatcher and the background tasks
          changes,    \* escalations, recoveries and restarts so far
          renewed     \* history: events whose text is older than its columns say

vars == <<row, tasks, changes, renewed>>

Ages == 0..(Window + 1)

(* is_diagnosis_refresh_needed with the reason for it, diagnosis_trigger_reason:
   creation and escalation ask for a diagnosis, recovery does not by default *)
Refreshes == {"no", "needed", "recovered"}

Statuses == {"none", "pending", "in_progress", "completed", "failed"}

(* made is the age of the answer that the summary is from, None without summary *)
Rows == [status : Statuses, started : Ages \cup {None}, completed : Ages \cup {None},
         made : Ages \cup {None}, refresh : Refreshes]

Tasks == {"dispatcher"} \cup Background

(* What a session knows of the row: hasCompleted and hasSummary are whether
   diagnosis_completed_at and ai_diagnosis_summary are set *)
Copies == [status : Statuses, hasCompleted : BOOLEAN, hasSummary : BOOLEAN,
           refresh : Refreshes]

Copy(e) == [status |-> row[e].status, refresh |-> row[e].refresh,
            hasCompleted |-> row[e].completed # None, hasSummary |-> row[e].made # None]

Idle == [pc |-> "idle", event |-> None, copy |-> None]

Init ==
    /\ row = [e \in Events |-> [status |-> "none", started |-> None, completed |-> None,
                                made |-> None, refresh |-> "needed"]]
    /\ tasks = [t \in Tasks |-> Idle]
    /\ changes = 0
    /\ renewed = {}
-----------------------------------------------------------------------------
(* should_refresh_event_diagnosis with the default configuration *)
ShouldRefresh(c) == ~c.hasSummary \/ c.refresh = "needed"

(* The cached diagnosis is used *)
Cached(c) == c.status = "completed" /\ c.hasSummary /\ c.refresh = "no"

InWindow(age) == age # None /\ age <= Window

Others(t) == Events \ {tasks[t].event}

(* A commit leaves a column alone that has the value the session has loaded *)
Written(new, loaded, old) == IF new = loaded THEN old ELSE new

(* The dispatcher sends the alert, after which it may start a background task if
   the event still needs a diagnosis; a background task has ended *)
Done(t, copy) ==
    tasks' = [tasks EXCEPT ![t] = IF t = "dispatcher" /\ ShouldRefresh(copy)
                                  THEN [@ EXCEPT !.pc = "send", !.copy = copy] ELSE Idle]

Goto(t, pc) == tasks' = [tasks EXCEPT ![t].pc = pc]
-----------------------------------------------------------------------------
(* An alert of e is to be sent and e needs a diagnosis *)
Attempt(e) ==
    /\ tasks["dispatcher"].pc = "idle"
    /\ ShouldRefresh(Copy(e))
    /\ tasks' = [tasks EXCEPT !["dispatcher"] =
                    [pc |-> "recent", event |-> e, copy |-> Copy(e)]]
    /\ UNCHANGED <<row, changes, renewed>>

(* trigger_auto_diagnosis reads the row *)
Load(t) ==
    LET e == tasks[t].event
    IN  /\ tasks[t].pc = "load"
        /\ tasks' = [tasks EXCEPT ![t] = IF Cached(Copy(e)) THEN Idle
                                         ELSE [@ EXCEPT !.pc = "recent", !.copy = Copy(e)]]
        /\ UNCHANGED <<row, changes, renewed>>

Recent(t) ==
    {o \in Others(t) : /\ row[o].status = "completed" /\ row[o].made # None
                       /\ InWindow(row[o].completed)}

(* Mutant: the copy counts as completed when it is made. *)
ReuseAsNew(t) ==
    \E o \in Recent(t) :
        LET e == tasks[t].event
            c == tasks[t].copy
        IN  /\ tasks[t].pc = "recent"
            /\ \A p \in Recent(t) : row[o].completed <= row[p].completed
            /\ row' = [row EXCEPT ![e].status    = Written("completed", c.status, @),
                                  ![e].refresh   = Written("no", c.refresh, @),
                                  ![e].completed = 0,
                                  ![e].made      = row[o].made]
            /\ Done(t, [c EXCEPT !.status = "completed", !.refresh = "no",
                                 !.hasCompleted = TRUE, !.hasSummary = TRUE])
            /\ renewed' = IF o \in renewed THEN renewed \cup {e} ELSE renewed \ {e}
            /\ UNCHANGED <<changes>>

(* _find_recent_diagnosis, _reuse_diagnosis_from_event *)
Reuse(t) ==
    \E o \in Recent(t) :
        LET e == tasks[t].event
            c == tasks[t].copy
        IN  /\ tasks[t].pc = "recent"
            /\ \A p \in Recent(t) : row[o].completed <= row[p].completed
            /\ row' = [row EXCEPT ![e].status    = Written("completed", c.status, @),
                                  ![e].refresh   = Written("no", c.refresh, @),
                                  ![e].completed = row[o].completed,
                                  ![e].made      = row[o].made]
            /\ Done(t, [c EXCEPT !.status = "completed", !.refresh = "no",
                                 !.hasCompleted = TRUE, !.hasSummary = TRUE])
            /\ renewed' = IF o \in renewed THEN renewed \cup {e} ELSE renewed \ {e}
            /\ UNCHANGED <<changes>>

NothingRecent(t) ==
    /\ tasks[t].pc = "recent"
    /\ Recent(t) = {}
    /\ Goto(t, "progress")
    /\ UNCHANGED <<row, changes, renewed>>

(* Mutant: a diagnosis counts as being made however long ago it began. *)
InProgressForever(t) ==
    {o \in Others(t) : row[o].status \in {"in_progress", "pending"} /\ row[o].started # None}

InProgress(t) ==
    {o \in Others(t) : row[o].status \in {"in_progress", "pending"} /\ InWindow(row[o].started)}

(* _find_in_progress_diagnosis, and waiting for what it has found *)
Wait(t) ==
    LET e == tasks[t].event
        c == tasks[t].copy
    IN  /\ tasks[t].pc = "progress"
        /\ InProgress(t) # {}
        /\ row' = [row EXCEPT ![e].status = Written("pending", c.status, @)]
        /\ Done(t, [c EXCEPT !.status = "pending"])
        /\ UNCHANGED <<changes, renewed>>

NothingInProgress(t) ==
    /\ tasks[t].pc = "progress"
    /\ InProgress(t) = {}
    /\ Goto(t, "mark")
    /\ UNCHANGED <<row, changes, renewed>>

(* The commit that announces the diagnosis *)
Mark(t) ==
    LET e == tasks[t].event
        c == tasks[t].copy
    IN  /\ tasks[t].pc = "mark"
        /\ row' = [row EXCEPT ![e].status    = Written("in_progress", c.status, @),
                              ![e].started   = 0,
                              ![e].completed = IF c.hasCompleted THEN None ELSE @]
        /\ tasks' = [tasks EXCEPT ![t].pc = "run",
                ![t].copy = IF t = "dispatcher"
                            THEN [@ EXCEPT !.status = "in_progress", !.hasCompleted = FALSE]
                            ELSE None]
        /\ UNCHANGED <<changes, renewed>>
-----------------------------------------------------------------------------
(* The model has answered.  An error of the model ends the text: an empty one is
   saved by the dispatcher, as one without a summary, and not by a background task *)
SyncAnswer(text) ==
    LET e == tasks["dispatcher"].event
        c == tasks["dispatcher"].copy
    IN  /\ tasks["dispatcher"].pc = "run"
        /\ row' = [row EXCEPT ![e].status    = "completed",
                              ![e].refresh   = Written("no", c.refresh, @),
                              ![e].completed = 0,
                              ![e].made      = IF text THEN 0 ELSE IF c.hasSummary THEN None ELSE @]
        /\ Done("dispatcher", [c EXCEPT !.status = "completed", !.refresh = "no",
                                        !.hasCompleted = TRUE, !.hasSummary = text])
        /\ renewed' = IF row'[e].made \notin {None, 0} THEN renewed \cup {e} ELSE renewed \ {e}
        /\ UNCHANGED <<changes>>

(* Mutant: a status of its own for the timeout. *)
SyncGivenUpTimedOut(status) ==
    LET c == tasks["dispatcher"].copy
        new == IF status = "pending" THEN "timed_out" ELSE status
    IN  /\ tasks["dispatcher"].pc = "run"
        /\ row' = [row EXCEPT ![tasks["dispatcher"].event].status = new]
        /\ Done("dispatcher", [c EXCEPT !.status = new])
        /\ UNCHANGED <<changes, renewed>>

(* 60 seconds have passed ("pending"), or an exception *)
SyncGivenUp(status) ==
    LET e == tasks["dispatcher"].event
        c == tasks["dispatcher"].copy
    IN  /\ tasks["dispatcher"].pc = "run"
        /\ row' = [row EXCEPT ![e].status = status]
        /\ Done("dispatcher", [c EXCEPT !.status = status])
        /\ UNCHANGED <<changes, renewed>>

(* _run_auto_diagnosis: UPDATE statements, whatever was loaded; a text may have
   nothing in it that can be taken for a summary *)
BackgroundAnswer(t, answer) ==
    LET e == tasks[t].event
    IN  /\ t # "dispatcher" /\ tasks[t].pc = "run"
        /\ row' = IF answer = "empty" THEN row
                  ELSE [row EXCEPT ![e].status = "completed", ![e].refresh = "no",
                                   ![e].completed = 0,
                                   ![e].made = IF answer = "summary" THEN 0 ELSE None]
        /\ tasks' = [tasks EXCEPT ![t] = Idle]
        /\ renewed' = IF answer = "empty" THEN renewed ELSE renewed \ {e}
        /\ UNCHANGED <<changes>>

BackgroundFails(t) ==
    /\ t # "dispatcher" /\ tasks[t].pc = "run"
    /\ row' = [row EXCEPT ![tasks[t].event].status = "failed"]
    /\ tasks' = [tasks EXCEPT ![t] = Idle]
    /\ UNCHANGED <<changes, renewed>>

(* A subscription has been sent the alert, and the event, as the dispatcher
   knows it, still needs a diagnosis *)
Sent(t) ==
    /\ tasks["dispatcher"].pc = "send"
    /\ ShouldRefresh(tasks["dispatcher"].copy)
    /\ t # "dispatcher" /\ tasks[t].pc = "idle"
    /\ tasks' = [tasks EXCEPT ![t] = [pc |-> "load", event |-> tasks["dispatcher"].event,
                                      copy |-> None]]
    /\ UNCHANGED <<row, changes, renewed>>

NextAlert ==
    /\ tasks["dispatcher"].pc = "send"
    /\ tasks' = [tasks EXCEPT !["dispatcher"] = Idle]
    /\ UNCHANGED <<row, changes, renewed>>
-----------------------------------------------------------------------------
(* A collector adds an alert of higher severity to the event, or its last alert
   is resolved (apply_event_diagnosis_lifecycle) *)
Refresh(e, reason) ==
    /\ changes < MaxChanges
    /\ changes' = changes + 1
    /\ row' = [row EXCEPT ![e].refresh = reason]
    /\ UNCHANGED <<tasks, renewed>>

Older(age) == IF age = None \/ age > Window THEN age ELSE age + 1

(* The window is minutes long: time passes while models answer and alerts are
   sent, not from one statement to the next *)
Tick ==
    /\ \A t \in Tasks : tasks[t].pc \in {"idle", "run", "send"}
    /\ row' = [e \in Events |-> [row[e] EXCEPT !.started = Older(@), !.completed = Older(@),
                                               !.made = Older(@)]]
    /\ row' # row
    /\ UNCHANGED <<tasks, changes, renewed>>

(* The process dies and starts again: the table is what is left *)
Crash ==
    /\ changes < MaxChanges
    /\ \E t \in Tasks : tasks[t].pc # "idle"
    /\ changes' = changes + 1
    /\ tasks' = [t \in Tasks |-> Idle]
    /\ UNCHANGED <<row, renewed>>
-----------------------------------------------------------------------------
(* Steps between the reading of the row and the run *)
Prepare(t) == \/ Load(t) \/ Reuse(t) \/ NothingRecent(t) \/ Wait(t)
              \/ NothingInProgress(t) \/ Mark(t)

Ends(t) == \/ t = "dispatcher" /\ \/ \E text \in BOOLEAN : SyncAnswer(text)
                                  \/ \E s \in {"pending", "failed"} : SyncGivenUp(s)
           \/ \E answer \in {"empty", "text", "summary"} : BackgroundAnswer(t, answer)
           \/ BackgroundFails(t)

(* A diagnosis of e succeeds *)
Answered(e) == \E t \in Tasks : /\ tasks[t].event = e
                                /\ \/ t = "dispatcher" /\ SyncAnswer(TRUE)
                                   \/ BackgroundAnswer(t, "summary")

Next ==
    \/ \E e \in Events : Attempt(e)
    \/ \E t \in Tasks : Prepare(t) \/ Ends(t) \/ Sent(t)
    \/ NextAlert
    \/ \E e \in Events, r \in Reasons : Refresh(e, r)
    \/ Tick \/ Crash

Spec == Init /\ [][Next]_vars

(* The loop is scheduled, a run ends and time passes; alerts of an event go on
   coming as long as it is diagnosed for them, and the model answers at last *)
Fairness ==
    /\ \A t \in Tasks : WF_vars(Prepare(t)) /\ WF_vars(Ends(t))
    /\ WF_vars(NextAlert)
    /\ SF_vars(Tick)
    /\ \A e \in Events : SF_vars(Attempt(e)) /\ SF_vars(Answered(e))

FairSpec == Spec /\ Fairness
-----------------------------------------------------------------------------
TypeOK ==
    /\ row \in [Events -> Rows]
    /\ tasks \in [Tasks -> [pc : {"idle", "load", "recent", "progress", "mark", "run", "send"},
                            event : Events \cup {None}, copy : Copies \cup {None}]]
    /\ changes \in 0..MaxChanges
    /\ renewed \subseteq Events

(* However often it is handed on from event to event, a diagnosis is reused only
   within the window of the answer it is from. *)
ReuseIsRecent ==
    [][\A t \in Tasks : Reuse(t) /\ tasks[t].event \notin renewed' =>
           InWindow(row'[tasks[t].event].made)]_vars

(* An event whose alerts go on coming is diagnosed at last, by itself or by one
   like it: a diagnosis that timed out, failed or died with the process holds the
   others up for the window and no longer. *)
Diagnosed ==
    \A e \in Events : ShouldRefresh(Copy(e)) ~> ~ShouldRefresh(Copy(e))
=============================================================================
