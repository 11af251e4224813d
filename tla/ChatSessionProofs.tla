-------------------------- MODULE ChatSessionProofs --------------------------
(* ChatSession keeps its types and implements ChatApproval, for any number of
   tasks and any set of approvals. *)
EXTENDS ChatSession, TLAPS

USE ChatAssumption DEF Ids

(* A task that is about to write an answer has a request on record and has not
   written one; what it has written is what it does. *)
TaskInv(t) ==
    /\ tasks[t].pc \in {"lookup", "found", "answer"} =>
           /\ \E a \in Approvals : tasks[t].approval = {a} /\ rows[a] # "none"
           /\ tasks[t].action \in {"approved", "rejected"}
    /\ tasks[t].pc = "storing" => \E a \in Approvals : tasks[t].approval = {a}
    /\ tasks[t].pc \in {"idle", "lookup", "found", "answer"} => answer[t] = Nothing
    /\ tasks[t].pc = "resolved" =>
           /\ answer[t].action = tasks[t].action
           /\ tasks[t].action \in {"approved", "rejected"}
    /\ tasks[t].pc = "run" => answer[t].action = "approved"
    /\ tasks[t].pc \in {"idle", "lookup", "found", "answer", "resolved", "run"} => t \notin ran

AnswerInv == \A t \in Ids : TaskInv(t)

(* A clear removes requests that are on record *)
DoomedInv == \A a \in clearing.doomed : rows[a] # "none"

IInv == TypeOK /\ AnswerInv /\ DoomedInv

LEMMA InitIInv == Init => IInv
  BY DEF Init, IInv, TypeOK, AnswerInv, TaskInv, DoomedInv, Task, Tasks, Nothing, NoClear, PCs

LEMMA PCsLemma ==
    /\ {"idle", "start", "prepare", "talk", "storing", "lookup"} \subseteq PCs
    /\ {"found", "answer", "resolved", "run", "result", "saving", "cancelled", "failed", "closing", "done"} \subseteq PCs
  BY DEF PCs

(* What a task that moves on keeps, and that the others are not touched *)
LEMMA GotoLemma ==
    ASSUME tasks \in [Ids -> Tasks], NEW t \in Ids, NEW pc \in PCs, Goto(t, pc)
    PROVE  /\ tasks' \in [Ids -> Tasks]
           /\ tasks'[t].pc = pc
           /\ tasks'[t].kind = tasks[t].kind
           /\ tasks'[t].approval = tasks[t].approval
           /\ tasks'[t].action = tasks[t].action
           /\ \A u \in Ids \ {t} : tasks'[u] = tasks[u]
<1> DEFINE new == [tasks[t] EXCEPT !.pc = pc]
<1>1. tasks[t] \in Tasks
  OBVIOUS
<1>2. new \in Tasks /\ new.pc = pc /\ new.kind = tasks[t].kind
          /\ new.approval = tasks[t].approval /\ new.action = tasks[t].action
  BY <1>1 DEF Tasks
<1>3. tasks' = [tasks EXCEPT ![t] = new]
  BY DEF Goto
<1> HIDE DEF new
<1> QED
  BY <1>2, <1>3

LEMMA TypeStep == TypeOK /\ [Next]_vars => TypeOK'
<1> SUFFICES ASSUME TypeOK, [Next]_vars PROVE TypeOK'
  OBVIOUS
<1> USE PCsLemma DEF TypeOK
<1>1. ASSUME NEW t \in Ids, Message(t) PROVE TypeOK'
  <2>1. Task("stream", "start", {}, "none") \in Tasks
    BY DEF Task, Tasks
  <2> QED
    BY <1>1, <2>1 DEF Message, db
<1>2. ASSUME NEW t \in Ids, Start(t) \/ Prepare(t) \/ Handle(t) \/ Close(t) PROVE TypeOK'
  <2>1. tasks' \in [Ids -> Tasks]
    BY <1>2, GotoLemma DEF Start, Prepare, Handle, Close
  <2>2. stream' \in {"none", "partial", "awaiting_approval", "complete", "error"}
    BY <1>2 DEF Start, Prepare, Handle, Close, Status, memory
  <2>3. active' \in 0..MaxTasks /\ UNCHANGED <<rows, answer, ran, alive, pending, clearing>>
    BY <1>2 DEF Start, Prepare, Handle, Close, db, memory
  <2> QED
    BY <2>1, <2>2, <2>3
<1>3. ASSUME NEW t \in Ids, StoreAsk(t) PROVE TypeOK'
  <2>1. tasks' \in [Ids -> Tasks]
    BY <1>3, GotoLemma DEF StoreAsk
  <2> QED
    BY <1>3, <2>1 DEF StoreAsk, Status
<1>4. ASSUME NEW t \in Ids, Lookup(t) \/ Remember(t) PROVE TypeOK'
  <2>1. tasks' \in [Ids -> Tasks]
    BY <1>4, GotoLemma DEF Lookup, Remember
  <2>2. tasks[t].approval \subseteq Approvals
    BY DEF Tasks
  <2> QED
    BY <1>4, <2>1, <2>2 DEF Lookup, Remember, db, memory
<1>5. ASSUME NEW t \in Ids, CommitAnswer(t) PROVE TypeOK'
  <2>1. tasks' \in [Ids -> Tasks]
    BY <1>5, GotoLemma DEF CommitAnswer
  <2>2. [approval |-> tasks[t].approval, action |-> tasks[t].action]
            \in [approval : SUBSET Approvals, action : {"none", "approved", "rejected"}]
    BY DEF Tasks
  <2> QED
    BY <1>5, <2>1, <2>2 DEF CommitAnswer, memory
<1>6. ASSUME NEW t \in Ids, Resolved(t) PROVE TypeOK'
  <2>1. tasks' \in [Ids -> Tasks]
    BY <1>6, GotoLemma DEF Resolved
  <2> QED
    BY <1>6, <2>1 DEF Resolved, db
<1>7. ASSUME NEW t \in Ids, Run(t) PROVE TypeOK'
  BY <1>7, GotoLemma DEF Run, memory
<1>8. ASSUME NEW t \in Ids, ToolReturns(t) \/ Talk(t) \/ Finish(t) \/ Timeout(t) \/ Fail(t)
      PROVE TypeOK'
  BY <1>8, GotoLemma DEF ToolReturns, Talk, Finish, Timeout, Fail, Status, db, memory
<1>9. ASSUME NEW t \in Ids, NEW a \in Approvals, Ask(t, a) PROVE TypeOK'
  <2>1. [tasks[t] EXCEPT !.pc = "storing", !.approval = {a}] \in Tasks
    <3>1. tasks[t] \in Tasks /\ {a} \in SUBSET Approvals /\ "storing" \in PCs
      OBVIOUS
    <3> QED
      BY <3>1 DEF Tasks
  <2>2. tasks' = [tasks EXCEPT ![t] = [tasks[t] EXCEPT !.pc = "storing", !.approval = {a}]]
    BY <1>9 DEF Ask
  <2>3. tasks' \in [Ids -> Tasks]
    BY <2>1, <2>2
  <2> QED
    BY <1>9, <2>3 DEF Ask, db
<1>10. ASSUME NEW t \in Ids, NEW a \in Approvals, NEW action \in {"approved", "rejected"},
              Resolve(t, a, action)
       PROVE TypeOK'
  <2>1. \A pc \in PCs : Task("resolve", pc, {a}, action) \in Tasks
    BY DEF Task, Tasks
  <2>2. PICK pc \in PCs : tasks' = [tasks EXCEPT ![t] = Task("resolve", pc, {a}, action)]
    BY <1>10 DEF Resolve
  <2>3. tasks' \in [Ids -> Tasks]
    BY <2>1, <2>2
  <2> QED
    BY <1>10, <2>3 DEF Resolve, db
<1>11. ASSUME NEW delete \in BOOLEAN, Clear(delete) PROVE TypeOK'
  BY <1>11 DEF Clear, db
<1>12. CASE ClearCommit
  BY <1>12 DEF ClearCommit, NoClear, memory
<1>13. CASE Crash
  <2>1. ASSUME NEW t \in Ids, NEW pc \in PCs PROVE [tasks[t] EXCEPT !.pc = pc] \in Tasks
    <3>1. tasks[t] \in Tasks
      OBVIOUS
    <3> QED
      BY ONLY <3>1, pc \in PCs DEF Tasks
  <2>2. tasks' \in [Ids -> Tasks]
    <3>1. ASSUME NEW t \in Ids
          PROVE [tasks[t] EXCEPT !.pc = IF Running(t) THEN "done" ELSE @] \in Tasks
      <4>1. tasks[t].pc \in PCs
        <5>1. tasks[t] \in Tasks
          OBVIOUS
        <5> QED
          BY ONLY <5>1 DEF Tasks
      <4> QED
        BY <2>1, <4>1
    <3> QED
      BY <1>13, <3>1 DEF Crash
  <2>3. NoClear \in [on : BOOLEAN, doomed : SUBSET Approvals, delete : BOOLEAN]
    BY DEF NoClear
  <2>4. /\ pending' = {} /\ active' = 0 /\ stream' = "none" /\ clearing' = NoClear
        /\ UNCHANGED <<rows, answer, ran, alive>>
    BY <1>13 DEF Crash, db
  <2> QED
    BY <2>2, <2>3, <2>4
<1>14. CASE Cancel
  <2>1. active \in Ids
    BY <1>14 DEF Cancel, Busy
  <2>2. tasks' \in [Ids -> Tasks]
    BY <1>14, <2>1, GotoLemma DEF Cancel
  <2> QED
    BY <1>14, <2>2 DEF Cancel, db, memory
<1>15. CASE UNCHANGED vars
  BY <1>15 DEF vars
<1> HIDE DEF TypeOK
<1> QED
  BY <1>1, <1>2, <1>3, <1>4, <1>5, <1>6, <1>7, <1>8, <1>9, <1>10, <1>11, <1>12, <1>13, <1>14,
     <1>15 DEF Next, Proceed, Agent

(* ChatSession keeps every variable within its type, for any number of tasks:
   a step of routers/chat.py never registers, stores or looks up anything else. *)
THEOREM TypeCorrect == Spec => []TypeOK
<1>1. Init => TypeOK
  BY InitIInv DEF IInv
<1> QED
  BY <1>1, TypeStep, PTL DEF Spec

(* The records on which the promise rests only grow *)
LEMMA RecordsStep ==
    ASSUME TypeOK, [Next]_vars
    PROVE  \A a \in Approvals : rows[a] # "none" => rows'[a] # "none"
<1>1. ASSUME NEW t \in Ids, StoreAsk(t)
      PROVE \A a \in Approvals : rows[a] # "none" => rows'[a] # "none"
  BY <1>1 DEF StoreAsk, TypeOK
<1>2. CASE ClearCommit
  BY <1>2 DEF ClearCommit, TypeOK
<1>3. CASE UNCHANGED rows
  BY <1>3
<1> QED
  BY <1>1, <1>2, <1>3 DEF Next, vars, Proceed, Agent, Message, Start, Prepare, Handle, Close,
     Lookup, Remember, CommitAnswer, Resolved, Run, ToolReturns, Talk, Finish, Timeout, Fail,
     Ask, Resolve, Clear, Crash, Cancel, db

(* A step that leaves a task and its records alone leaves TaskInv alone *)
LEMMA TaskInvKept ==
    ASSUME TypeOK, [Next]_vars, NEW t \in Ids, TaskInv(t),
           tasks'[t] = tasks[t], answer'[t] = answer[t], t \in ran' <=> t \in ran
    PROVE  TaskInv(t)'
  BY RecordsStep DEF TaskInv

(* So only the task that moves needs a look *)
LEMMA OnlyMover ==
    ASSUME TypeOK, AnswerInv, [Next]_vars, NEW t \in Ids,
           \A u \in Ids \ {t} : /\ tasks'[u] = tasks[u]
                                /\ answer'[u] = answer[u]
                                /\ u \in ran' <=> u \in ran,
           TaskInv(t)'
    PROVE  AnswerInv'
<1>1. ASSUME NEW u \in Ids \ {t} PROVE TaskInv(u)'
  BY TaskInvKept DEF AnswerInv
<1> QED
  BY <1>1 DEF AnswerInv

(* A task that moves where AnswerInv says nothing *)
LEMMA QuietMove ==
    ASSUME TypeOK, AnswerInv, [Next]_vars, NEW t \in Ids, UNCHANGED <<answer, ran>>,
           NEW pc \in PCs \ {"idle", "lookup", "found", "answer", "storing", "resolved", "run"},
           Goto(t, pc)
    PROVE  AnswerInv'
<1>1. tasks'[t].pc = pc /\ \A u \in Ids \ {t} : tasks'[u] = tasks[u]
  BY GotoLemma DEF TypeOK
<1>2. TaskInv(t)'
  BY <1>1 DEF TaskInv
<1> QED
  BY <1>1, <1>2, OnlyMover

LEMMA AnswerStep == IInv /\ [Next]_vars => AnswerInv'
<1> SUFFICES ASSUME TypeOK, AnswerInv, [Next]_vars PROVE AnswerInv'
  BY DEF IInv
<1>t. tasks \in [Ids -> Tasks] /\ tasks' \in [Ids -> Tasks]
  BY TypeStep DEF TypeOK
<1> USE PCsLemma
<1>1. ASSUME NEW t \in Ids, Message(t) PROVE AnswerInv'
  <2>1. /\ UNCHANGED <<answer, ran>>
        /\ tasks' = [tasks EXCEPT ![t] = Task("stream", "start", {}, "none")]
    BY <1>1 DEF Message, db
  <2>2. tasks'[t].pc = "start" /\ \A u \in Ids \ {t} : tasks'[u] = tasks[u]
    BY <2>1, <1>t DEF Task
  <2>3. TaskInv(t)'
    BY <2>2 DEF TaskInv
  <2> QED
    BY <2>1, <2>2, <2>3, OnlyMover
<1>2. ASSUME NEW t \in Ids,
             \/ Start(t) \/ Prepare(t) \/ Handle(t) \/ Close(t) \/ StoreAsk(t)
             \/ ToolReturns(t) \/ Finish(t) \/ Timeout(t) \/ Fail(t)
      PROVE AnswerInv'
  <2>1. UNCHANGED <<answer, ran>>
    BY <1>2 DEF Start, Prepare, Handle, Close, StoreAsk, ToolReturns, Finish, Timeout, Fail, db
  <2>2. PICK pc \in {"prepare", "talk", "closing", "done", "saving", "failed"} : Goto(t, pc)
    BY <1>2 DEF Start, Prepare, Handle, Close, StoreAsk, ToolReturns, Finish, Timeout, Fail
  <2> QED
    BY <2>1, <2>2, QuietMove
<1>3. ASSUME NEW t \in Ids, Lookup(t) \/ Remember(t) PROVE AnswerInv'
  <2>1. UNCHANGED <<answer, ran, rows>> /\ tasks[t].pc \in {"lookup", "found"}
    BY <1>3 DEF Lookup, Remember, db
  <2>2. CASE Goto(t, "failed")
    BY <2>1, <2>2, QuietMove
  <2>3. ASSUME NEW pc \in {"found", "answer"}, Goto(t, pc) PROVE AnswerInv'
    <3>1. /\ tasks'[t].pc = pc /\ tasks'[t].approval = tasks[t].approval
          /\ tasks'[t].action = tasks[t].action
          /\ \A u \in Ids \ {t} : tasks'[u] = tasks[u]
      BY <2>3, <1>t, GotoLemma
    <3>2. TaskInv(t)'
      BY <2>1, <3>1 DEF AnswerInv, TaskInv
    <3> QED
      BY <2>1, <3>1, <3>2, OnlyMover
  <2> QED
    BY <1>3, <2>2, <2>3 DEF Lookup, Remember
<1>4. ASSUME NEW t \in Ids, CommitAnswer(t) PROVE AnswerInv'
  <2>1. /\ tasks[t].pc = "answer" /\ ran' = ran
        /\ answer' = [answer EXCEPT ![t] = [approval |-> tasks[t].approval,
                                            action |-> tasks[t].action]]
        /\ Goto(t, "resolved")
    BY <1>4 DEF CommitAnswer
  <2>2. /\ tasks'[t].pc = "resolved" /\ tasks'[t].action = tasks[t].action
        /\ \A u \in Ids \ {t} : tasks'[u] = tasks[u]
    BY <2>1, <1>t, GotoLemma
  <2>3. /\ answer'[t].action = tasks[t].action
        /\ \A u \in Ids \ {t} : answer'[u] = answer[u]
    BY <2>1 DEF TypeOK
  <2>4. TaskInv(t)'
    BY <2>1, <2>2, <2>3 DEF AnswerInv, TaskInv
  <2> QED
    BY <2>1, <2>2, <2>3, <2>4, OnlyMover
<1>5. ASSUME NEW t \in Ids, Resolved(t) PROVE AnswerInv'
  <2>1. tasks[t].pc = "resolved" /\ UNCHANGED <<answer, ran>>
    BY <1>5 DEF Resolved, db
  <2>2. CASE tasks[t].action = "rejected"
    BY <1>5, <2>1, <2>2, QuietMove DEF Resolved
  <2>3. CASE tasks[t].action # "rejected"
    <3>1. Goto(t, "run")
      BY <1>5, <2>3 DEF Resolved
    <3>2. tasks'[t].pc = "run" /\ \A u \in Ids \ {t} : tasks'[u] = tasks[u]
      BY <3>1, <1>t, GotoLemma
    <3>3. TaskInv(t)'
      BY <2>1, <2>3, <3>2 DEF AnswerInv, TaskInv
    <3> QED
      BY <2>1, <3>2, <3>3, OnlyMover
  <2> QED
    BY <2>2, <2>3
<1>6. ASSUME NEW t \in Ids, Run(t) PROVE AnswerInv'
  <2>1. tasks[t].pc = "run" /\ answer' = answer /\ ran' = ran \cup {t} /\ Goto(t, "result")
    BY <1>6 DEF Run
  <2>2. tasks'[t].pc = "result" /\ \A u \in Ids \ {t} : tasks'[u] = tasks[u]
    BY <2>1, <1>t, GotoLemma
  <2>3. TaskInv(t)'
    BY <2>2 DEF TaskInv
  <2> QED
    BY <2>1, <2>2, <2>3, OnlyMover
<1>7. ASSUME NEW t \in Ids, NEW a \in Approvals, Ask(t, a) PROVE AnswerInv'
  <2>1. /\ UNCHANGED <<answer, ran>>
        /\ tasks' = [tasks EXCEPT ![t] = [tasks[t] EXCEPT !.pc = "storing", !.approval = {a}]]
    BY <1>7 DEF Ask, db
  <2>2. \A u \in Ids \ {t} : tasks'[u] = tasks[u]
    BY <2>1, <1>t
  <2>3. tasks'[t].pc = "storing" /\ tasks'[t].approval = {a}
    BY <2>1, <1>t DEF Tasks
  <2>4. TaskInv(t)'
    BY <2>3 DEF TaskInv
  <2> QED
    BY <2>1, <2>2, <2>4, OnlyMover
<1>8. ASSUME NEW t \in Ids, NEW a \in Approvals, NEW action \in {"approved", "rejected"},
             Resolve(t, a, action)
      PROVE AnswerInv'
  <2>1. PICK pc \in {"answer", "lookup"} :
            tasks' = [tasks EXCEPT ![t] = Task("resolve", pc, {a}, action)]
    BY <1>8 DEF Resolve
  <2>2. /\ UNCHANGED <<rows, answer, ran>> /\ rows[a] # "none"
        /\ tasks[t].pc = "idle"
    BY <1>8 DEF Resolve, New, db
  <2>3. /\ tasks'[t].pc = pc /\ tasks'[t].approval = {a} /\ tasks'[t].action = action
        /\ \A u \in Ids \ {t} : tasks'[u] = tasks[u]
    BY <2>1, <1>t DEF Task
  <2>4. answer[t] = Nothing /\ t \notin ran
    BY <2>2 DEF AnswerInv, TaskInv
  <2>5. TaskInv(t)'
    BY <2>2, <2>3, <2>4 DEF TaskInv
  <2> QED
    BY <2>2, <2>3, <2>5, OnlyMover
<1>9. CASE Cancel
  <2>1. active \in Ids
    BY <1>9 DEF Cancel, Busy, TypeOK
  <2>2. UNCHANGED <<answer, ran>>
    BY <1>9 DEF Cancel, db
  <2> QED
    BY <1>9, <2>1, <2>2, QuietMove DEF Cancel
<1>10. CASE Crash
  <2>1. UNCHANGED <<answer, ran>>
    BY <1>10 DEF Crash, db
  <2>2. ASSUME NEW t \in Ids PROVE TaskInv(t)'
    <3>1. CASE Running(t)
      <4>1. tasks'[t].pc = "done"
        BY <1>10, <3>1, <1>t DEF Crash, Tasks
      <4> QED
        BY <4>1 DEF TaskInv
    <3>2. CASE ~Running(t)
      <4>1. tasks'[t] = [tasks[t] EXCEPT !.pc = tasks[t].pc]
        BY <1>10, <3>2 DEF Crash
      <4>2. tasks'[t] = tasks[t]
        BY <4>1, <1>t DEF Tasks
      <4> QED
        BY <2>1, <4>2, TaskInvKept DEF AnswerInv
    <3> QED
      BY <3>1, <3>2
  <2> QED
    BY <2>2 DEF AnswerInv
<1>11. CASE UNCHANGED <<tasks, answer, ran>>
  BY <1>11, TaskInvKept DEF AnswerInv
<1> QED
  BY <1>1, <1>2, <1>3, <1>4, <1>5, <1>6, <1>7, <1>8, <1>9, <1>10, <1>11
     DEF Next, vars, Proceed, Agent, Talk, Clear, ClearCommit, db

LEMMA DoomedStep == TypeOK /\ DoomedInv /\ [Next]_vars => DoomedInv'
<1> SUFFICES ASSUME TypeOK, DoomedInv, [Next]_vars PROVE DoomedInv'
  OBVIOUS
<1>1. ASSUME NEW delete \in BOOLEAN, Clear(delete) PROVE DoomedInv'
  BY <1>1 DEF Clear, DoomedInv, db
<1>2. CASE ClearCommit \/ Crash
  BY <1>2 DEF ClearCommit, Crash, NoClear, DoomedInv
<1>3. CASE UNCHANGED clearing
  BY <1>3, RecordsStep DEF DoomedInv, TypeOK
<1> QED
  BY <1>1, <1>2, <1>3 DEF Next, vars, Proceed, Agent, Message, Start, Prepare, Handle, Close,
     StoreAsk, Lookup, Remember, CommitAnswer, Resolved, Run, ToolReturns, Talk, Finish, Timeout,
     Fail, Ask, Resolve, Cancel

LEMMA Inductive == Spec => []IInv
<1>1. IInv /\ [Next]_vars => IInv'
  BY TypeStep, AnswerStep, DoomedStep DEF IInv
<1> QED
  BY <1>1, InitIInv, PTL DEF Spec

Asked == {a \in Approvals : rows[a] # "none"}

LEMMA InitRefines == Init => Promise!Init
  BY DEF Init, Promise!Init, Nothing, Promise!Nothing

(* Each step is one of ChatApproval's, or leaves its records as they are *)
LEMMA StepRefines == IInv /\ [Next]_vars => [Promise!Next]_<<Asked, answer, ran>>
<1> SUFFICES ASSUME TypeOK, AnswerInv, DoomedInv, [Next]_vars
             PROVE  [Promise!Next]_<<Asked, answer, ran>>
  BY DEF IInv
<1>1. ASSUME NEW t \in Ids, StoreAsk(t) PROVE [Promise!Next]_<<Asked, answer, ran>>
  <2>1. PICK a \in Approvals : tasks[t].approval = {a}
    BY <1>1 DEF StoreAsk, AnswerInv, TaskInv
  <2>2. Asked' = Asked \cup {a} /\ UNCHANGED <<answer, ran>>
    BY <1>1, <2>1 DEF StoreAsk, Asked, TypeOK
  <2>3. CASE a \in Asked
    BY <2>2, <2>3
  <2>4. CASE a \notin Asked
    <3>1. Promise!Ask(a)
      BY <2>2, <2>4 DEF Promise!Ask, Asked
    <3> QED
      BY <3>1 DEF Promise!Next
  <2> QED
    BY <2>3, <2>4
<1>2. ASSUME NEW t \in Ids, CommitAnswer(t) PROVE [Promise!Next]_<<Asked, answer, ran>>
  <2>1. PICK a \in Approvals : tasks[t].approval = {a} /\ rows[a] # "none"
    BY <1>2 DEF CommitAnswer, AnswerInv, TaskInv
  <2>2. tasks[t].action \in {"approved", "rejected"} /\ answer[t] = Nothing
    BY <1>2 DEF CommitAnswer, AnswerInv, TaskInv
  <2>3. Promise!Give(t, a, tasks[t].action)
    BY <1>2, <2>1, <2>2 DEF CommitAnswer, Promise!Give, Nothing, Promise!Nothing
  <2> QED
    BY <2>2, <2>3 DEF Promise!Next
<1>3. ASSUME NEW t \in Ids, Run(t) PROVE [Promise!Next]_<<Asked, answer, ran>>
  <2>1. answer[t].action = "approved" /\ t \notin ran
    BY <1>3 DEF Run, AnswerInv, TaskInv
  <2>2. Promise!Run(t)
    BY <1>3, <2>1 DEF Run, Promise!Run
  <2> QED
    BY <2>2 DEF Promise!Next
<1>4. CASE ClearCommit
  BY <1>4 DEF ClearCommit, Asked, DoomedInv, TypeOK
<1>5. CASE UNCHANGED <<rows, answer, ran>>
  BY <1>5 DEF Asked
<1> QED
  BY <1>1, <1>2, <1>3, <1>4, <1>5 DEF Next, vars, Proceed, Agent, Message, Start, Prepare,
     Handle, Close, Lookup, Remember, Resolved, ToolReturns, Talk, Finish, Timeout, Fail, Ask,
     Resolve, Clear, Crash, Cancel, db

(* The promise about risky tools, for any number of tasks and approvals: a tool
   that needs approval runs only on an answer that resolve_pending_approval has
   committed before, that approves it, and that no other run has used.  Cancels,
   clears, double answers and crashes are all among the steps. *)
THEOREM ApprovedHolds == Spec => Approved
<1>1. Init => Promise!Init
  BY InitRefines
<1>2. IInv /\ [Next]_vars => [Promise!Next]_<<Asked, answer, ran>>
  BY StepRefines
<1> QED
  BY <1>1, <1>2, Inductive, PTL DEF Spec, Approved, Promise!Spec, Asked

(* OneTurn, with what holds of a session at rest *)
AllStreams == \A t \in Ids : tasks[t].kind = "stream"

IdleInv == \A t \in Ids : tasks[t].pc = "idle" => tasks[t].kind = "stream"

TurnInv ==
    AllStreams =>
        /\ \A t \in Ids : Running(t) => active = t /\ (stream # "none" <=> tasks[t].pc # "start")
        /\ (\A t \in Ids : ~Running(t)) => stream = "none"

(* The registered task, the only one that runs, moves on *)
LEMMA TurnMove ==
    ASSUME TypeOK, TurnInv, NEW t \in Ids, NEW pc \in PCs \ {"idle", "start", "done"},
           Goto(t, pc), Running(t), active' = active,
           tasks[t].pc # "start" /\ stream # "none" => stream' # "none",
           tasks[t].pc = "start" => stream' # "none"
    PROVE  TurnInv'
<1> SUFFICES ASSUME AllStreams' PROVE TurnInv'
  BY DEF TurnInv
<1>1. /\ tasks'[t].pc = pc /\ tasks'[t].kind = tasks[t].kind
      /\ \A u \in Ids \ {t} : tasks'[u] = tasks[u]
  BY GotoLemma DEF TypeOK
<1>2. AllStreams
  BY <1>1 DEF AllStreams
<1>3. active = t /\ (stream # "none" <=> tasks[t].pc # "start")
  BY <1>2 DEF TurnInv
<1>4. ASSUME NEW u \in Ids \ {t} PROVE ~Running(u) /\ ~Running(u)'
  BY <1>1, <1>2, <1>3 DEF TurnInv, Running
<1>5. Running(t)' /\ tasks'[t].pc # "start" /\ stream' # "none"
  BY <1>1, <1>3 DEF Running
<1> QED
  BY <1>3, <1>4, <1>5 DEF TurnInv

LEMMA TurnStep == TypeOK /\ IdleInv /\ TurnInv /\ [Next]_vars => TurnInv'
<1> SUFFICES ASSUME TypeOK, IdleInv, TurnInv, [Next]_vars PROVE TurnInv'
  OBVIOUS
<1>t. tasks \in [Ids -> Tasks]
  BY DEF TypeOK
<1> USE PCsLemma
<1>1. ASSUME NEW t \in Ids, Message(t) PROVE TurnInv'
  <2>1. /\ tasks' = [tasks EXCEPT ![t] = Task("stream", "start", {}, "none")]
        /\ tasks[t].pc = "idle" /\ ~Busy /\ active' = t /\ stream' = stream
    BY <1>1 DEF Message, New
  <2>2. /\ tasks'[t].pc = "start" /\ tasks'[t].kind = "stream"
        /\ \A u \in Ids \ {t} : tasks'[u] = tasks[u]
    BY <2>1, <1>t DEF Task
  <2> SUFFICES ASSUME AllStreams' PROVE TurnInv'
    BY DEF TurnInv
  <2>u. Running(t)' /\ ~Running(t)
    BY <2>1, <2>2 DEF Running
  <2>3. CASE AllStreams
    <3>1. ASSUME NEW u \in Ids PROVE ~Running(u)
      BY <2>1, <2>3 DEF TurnInv, Busy
    <3>2. stream = "none"
      BY <3>1, <2>3 DEF TurnInv
    <3>3. ASSUME NEW u \in Ids \ {t} PROVE ~Running(u)'
      BY <3>1, <2>2 DEF Running
    <3> QED
      BY <2>1, <2>2, <2>u, <3>2, <3>3 DEF TurnInv
  <2>4. CASE ~AllStreams
    BY <2>1, <2>2, <2>4 DEF AllStreams, IdleInv
  <2> QED
    BY <2>3, <2>4
<1>2. ASSUME NEW t \in Ids,
             \/ Start(t) \/ Prepare(t) \/ Handle(t) \/ StoreAsk(t) \/ ToolReturns(t)
             \/ Finish(t) \/ Timeout(t) \/ Fail(t)
             \/ Lookup(t) \/ Remember(t) \/ CommitAnswer(t) \/ Resolved(t) \/ Run(t)
      PROVE TurnInv'
  <2>1. PICK pc \in {"prepare", "talk", "closing", "saving", "failed", "found", "answer",
                     "resolved", "run", "result"} : Goto(t, pc)
    BY <1>2 DEF Start, Prepare, Handle, StoreAsk, ToolReturns, Finish, Timeout, Fail,
       Lookup, Remember, CommitAnswer, Resolved, Run
  <2>2. Running(t) /\ active' = active
    BY <1>2 DEF Start, Prepare, Handle, StoreAsk, ToolReturns, Finish, Timeout, Fail,
       Lookup, Remember, CommitAnswer, Resolved, Run, Running, memory
  <2>3. /\ tasks[t].pc # "start" /\ stream # "none" => stream' # "none"
        /\ tasks[t].pc = "start" => stream' # "none"
    BY <1>2 DEF Start, Prepare, Handle, StoreAsk, ToolReturns, Finish, Timeout, Fail,
       Lookup, Remember, CommitAnswer, Resolved, Run, Status, memory
  <2> QED
    BY <2>1, <2>2, <2>3, TurnMove
<1>3. ASSUME NEW t \in Ids, Close(t) PROVE TurnInv'
  <2>1. Running(t) /\ Goto(t, "done") /\ stream' = "none"
    BY <1>3 DEF Close, Running
  <2>2. /\ tasks'[t].pc = "done" /\ tasks'[t].kind = tasks[t].kind
        /\ \A u \in Ids \ {t} : tasks'[u] = tasks[u]
    BY <2>1, <1>t, GotoLemma
  <2> SUFFICES ASSUME AllStreams' PROVE TurnInv'
    BY DEF TurnInv
  <2>3. AllStreams
    BY <2>2 DEF AllStreams
  <2>4. ASSUME NEW u \in Ids PROVE ~Running(u)'
    BY <2>1, <2>2, <2>3 DEF TurnInv, Running
  <2> QED
    BY <2>1, <2>4 DEF TurnInv
<1>4. ASSUME NEW t \in Ids, NEW a \in Approvals, Ask(t, a) PROVE TurnInv'
  <2>1. /\ tasks[t].pc = "talk" /\ UNCHANGED <<active, stream>>
        /\ tasks' = [tasks EXCEPT ![t] = [tasks[t] EXCEPT !.pc = "storing", !.approval = {a}]]
    BY <1>4 DEF Ask
  <2>2. /\ tasks'[t].pc = "storing" /\ tasks'[t].kind = tasks[t].kind
        /\ \A u \in Ids \ {t} : tasks'[u] = tasks[u]
    BY <2>1, <1>t DEF Tasks
  <2>3. \A u \in Ids : /\ tasks'[u].kind = tasks[u].kind
                       /\ Running(u)' <=> Running(u)
                       /\ tasks'[u].pc = "start" <=> tasks[u].pc = "start"
    BY <2>1, <2>2 DEF Running
  <2> QED
    BY <2>1, <2>3 DEF TurnInv, AllStreams
<1>5. ASSUME NEW t \in Ids, NEW a \in Approvals, NEW action \in {"approved", "rejected"},
             Resolve(t, a, action)
      PROVE TurnInv'
  <2>1. PICK pc : tasks' = [tasks EXCEPT ![t] = Task("resolve", pc, {a}, action)]
    BY <1>5 DEF Resolve
  <2>2. tasks'[t].kind = "resolve"
    BY <2>1, <1>t DEF Task
  <2> QED
    BY <2>2 DEF TurnInv, AllStreams
<1>6. CASE Cancel
  <2>1. active \in Ids /\ Running(active) /\ UNCHANGED <<active, stream>>
    BY <1>6 DEF Cancel, Busy, TypeOK, memory
  <2>2. CASE tasks[active].pc # "start"
    BY <1>6, <2>1, <2>2, TurnMove DEF Cancel
  <2>3. CASE tasks[active].pc = "start"
    <3>1. Goto(active, "done")
      BY <1>6, <2>3 DEF Cancel
    <3>2. /\ tasks'[active].pc = "done" /\ tasks'[active].kind = tasks[active].kind
          /\ \A u \in Ids \ {active} : tasks'[u] = tasks[u]
      BY <2>1, <3>1, <1>t, GotoLemma
    <3> SUFFICES ASSUME AllStreams' PROVE TurnInv'
      BY DEF TurnInv
    <3>3. AllStreams
      BY <3>2 DEF AllStreams
    <3>4. stream = "none"
      BY <2>1, <2>3, <3>3 DEF TurnInv
    <3>5. ASSUME NEW u \in Ids PROVE ~Running(u)'
      BY <2>1, <3>2, <3>3 DEF TurnInv, Running
    <3> QED
      BY <2>1, <3>4, <3>5 DEF TurnInv
  <2> QED
    BY <2>2, <2>3
<1>7. CASE Crash
  <2>1. stream' = "none"
    BY <1>7 DEF Crash
  <2>2. ASSUME NEW t \in Ids PROVE ~Running(t)'
    BY <1>7, <1>t DEF Crash, Running, Tasks
  <2> QED
    BY <2>1, <2>2 DEF TurnInv
<1>8. ASSUME NEW t \in Ids, Talk(t) PROVE TurnInv'
  BY <1>8 DEF Talk, Status, TurnInv, AllStreams, Running
<1>9. CASE UNCHANGED <<tasks, active, stream>>
  BY <1>9 DEF TurnInv, AllStreams, Running
<1> QED
  BY <1>1, <1>2, <1>3, <1>4, <1>5, <1>6, <1>7, <1>8, <1>9
     DEF Next, vars, Proceed, Agent, Clear, ClearCommit, memory

LEMMA IdleStep == TypeOK /\ IdleInv /\ [Next]_vars => IdleInv'
<1> SUFFICES ASSUME TypeOK, IdleInv, [Next]_vars, NEW t \in Ids, tasks'[t].pc = "idle"
             PROVE  tasks'[t].kind = "stream"
  BY DEF IdleInv
<1>t. tasks \in [Ids -> Tasks]
  BY DEF TypeOK
<1> USE PCsLemma
<1>1. ASSUME NEW u \in Ids, NEW pc \in PCs \ {"idle"}, Goto(u, pc) PROVE tasks'[t] = tasks[t]
  BY <1>1, <1>t, GotoLemma
<1>2. ASSUME NEW u \in Ids,
             \/ Start(u) \/ Prepare(u) \/ Handle(u) \/ Close(u) \/ StoreAsk(u) \/ ToolReturns(u)
             \/ Finish(u) \/ Timeout(u) \/ Fail(u)
             \/ Lookup(u) \/ Remember(u) \/ CommitAnswer(u) \/ Resolved(u) \/ Run(u)
      PROVE tasks'[t] = tasks[t]
  <2>1. PICK pc \in {"prepare", "talk", "closing", "saving", "failed", "found", "answer",
                     "resolved", "run", "result", "done"} : Goto(u, pc)
    BY <1>2 DEF Start, Prepare, Handle, Close, StoreAsk, ToolReturns, Finish, Timeout, Fail,
       Lookup, Remember, CommitAnswer, Resolved, Run
  <2> QED
    BY <2>1, <1>1
<1>3. ASSUME NEW u \in Ids, NEW a \in Approvals, Ask(u, a) PROVE tasks'[t] = tasks[t]
  <2>1. tasks' = [tasks EXCEPT ![u] = [tasks[u] EXCEPT !.pc = "storing", !.approval = {a}]]
    BY <1>3 DEF Ask
  <2>2. tasks'[u].pc = "storing"
    BY <2>1, <1>t DEF Tasks
  <2> QED
    BY <2>1, <2>2, <1>t
<1>4. ASSUME NEW u \in Ids, Message(u) PROVE tasks'[t] = tasks[t]
  BY <1>4, <1>t DEF Message, Task
<1>5. ASSUME NEW u \in Ids, NEW a \in Approvals, NEW action \in {"approved", "rejected"},
             Resolve(u, a, action)
      PROVE tasks'[t] = tasks[t]
  <2>1. PICK pc \in {"answer", "lookup"} :
            tasks' = [tasks EXCEPT ![u] = Task("resolve", pc, {a}, action)]
    BY <1>5 DEF Resolve
  <2> QED
    BY <2>1, <1>t DEF Task
<1>6. CASE Cancel
  <2>1. active \in Ids
    BY <1>6 DEF Cancel, Busy, TypeOK
  <2>2. PICK pc \in {"cancelled", "closing", "done"} : Goto(active, pc)
    BY <1>6 DEF Cancel
  <2>3. tasks'[t] = tasks[t]
    BY <2>1, <2>2, <1>1
  <2> QED
    BY <2>3 DEF IdleInv
<1>7. CASE Crash
  <2>1. tasks'[t] = [tasks[t] EXCEPT !.pc = IF Running(t) THEN "done" ELSE @]
    BY <1>7 DEF Crash
  <2>2. ~Running(t)
    BY <2>1, <1>t DEF Tasks
  <2> QED
    BY <2>1, <2>2, <1>t DEF Tasks, IdleInv
<1>8. tasks'[t] = tasks[t] => tasks'[t].kind = "stream"
  BY DEF IdleInv
<1> QED
  BY <1>2, <1>3, <1>4, <1>5, <1>6, <1>7, <1>8
     DEF Next, vars, Proceed, Agent, Talk, Clear, ClearCommit

(* Until an approval is answered, the check of ACTIVE_STREAM_TASKS before
   create_task keeps a session to one turn, for any number of messages, cancels
   and restarts, and the stream state is there exactly while the turn runs. *)
THEOREM OneTurnHolds == Spec => []OneTurn
<1> DEFINE J == TypeOK /\ IdleInv /\ TurnInv
<1>1. Init => J
  BY InitIInv DEF Init, IInv, IdleInv, TurnInv, Running, Task
<1>2. J /\ [Next]_vars => J'
  BY TypeStep, IdleStep, TurnStep
<1>3. J => OneTurn
  BY DEF TurnInv, AllStreams, OneTurn
<1> HIDE DEF J
<1> QED
  BY <1>1, <1>2, <1>3, PTL DEF Spec
=============================================================================
