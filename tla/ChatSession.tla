----------------------------- MODULE ChatSession -----------------------------
(* One chat session on the server: routers/chat.py and the turn it runs,
   chat_orchestration_service.py with the agent loop of conversation_skills.py.

   A task is the asyncio task of a turn ("stream") or of a request that answers
   an approval ("resolve"); t numbers them in the order they begin, and a number
   is used once.  Each action is what a task does from one await to the next; a cancel
   reaches it at whichever await it is.  The model, the texts and the sockets
   are left out: the frontend sees a stream through its status. *)
EXTENDS Naturals

CONSTANTS Approvals,   \* ids of approval requests, each used once
          MaxTasks     \* bound: turns and answers ever

ASSUME ChatAssumption == MaxTasks \in Nat

VARIABLES rows,        \* chat_message: the approval_request of each approval
          answer,      \* chat_message: the approval_response a task has written
          ran,         \* tasks whose tool has been started
          pending,     \* PENDING_APPROVALS of the session
          tasks,
          active,      \* ACTIVE_STREAM_TASKS of the session, 0 if none
          stream,      \* the status in ACTIVE_STREAM_STATES, "none" if none
          alive,       \* the session is not deleted
          clearing     \* what a clear or a delete is about to commit

vars == <<rows, answer, ran, pending, tasks, active, stream, alive, clearing>>
db == <<rows, answer, ran, alive>>
memory == <<pending, active, stream>>

Ids == 1..MaxTasks
Nothing == [approval |-> {}, action |-> "none"]
NoClear == [on |-> FALSE, doomed |-> {}, delete |-> FALSE]

PCs == {"idle", "start", "prepare", "talk", "storing", "lookup", "found", "answer",
        "resolved", "run", "result", "saving", "cancelled", "failed", "closing", "done"}

Tasks == [kind : {"stream", "resolve"}, pc : PCs, approval : SUBSET Approvals,
          action : {"none", "approved", "rejected"}]

Task(kind, pc, approval, action) ==
    [kind |-> kind, pc |-> pc, approval |-> approval, action |-> action]

Init ==
    /\ rows = [a \in Approvals |-> "none"]
    /\ answer = [i \in Ids |-> Nothing]
    /\ ran = {}
    /\ pending = {}
    /\ tasks = [t \in Ids |-> Task("stream", "idle", {}, "none")]
    /\ active = 0
    /\ stream = "none"
    /\ alive = TRUE
    /\ clearing = NoClear

(* A task that has been made and has not returned *)
Running(t) == tasks[t].pc \notin {"idle", "done"}

(* The number of the next task *)
New(t) == tasks[t].pc = "idle" /\ \A u \in 1..(t - 1) : tasks[u].pc # "idle"

RunningTasks == {t \in Ids : Running(t)}

Busy == active # 0 /\ Running(active)

Goto(t, pc) == tasks' = [tasks EXCEPT ![t].pc = pc]

(* _update_stream_state: nothing to update when another task has popped it *)
Status(s) == IF stream = "none" THEN "none" ELSE s
-----------------------------------------------------------------------------
(* chat_websocket *)

(* Mutant: the running turn is not looked for. *)
MessageUnchecked(t) ==
    /\ New(t) /\ alive
    /\ tasks' = [tasks EXCEPT ![t] = Task("stream", "start", {}, "none")]
    /\ active' = t
    /\ UNCHANGED <<db, pending, stream, clearing>>

(* A message, once the socket's session has been authenticated: the check and
   the registration have no await between them *)
Message(t) ==
    /\ New(t)
    /\ alive
    /\ ~Busy
    /\ tasks' = [tasks EXCEPT ![t] = Task("stream", "start", {}, "none")]
    /\ active' = t
    /\ UNCHANGED <<db, pending, stream, clearing>>

(* The cancel command reaches whichever task is registered.  One that has not
   begun never does, and one whose handler waits for the sockets leaves it *)
Cancel ==
    /\ Busy
    /\ tasks[active].pc # "closing"
    /\ Goto(active, CASE tasks[active].pc = "start" -> "done"
                      [] tasks[active].pc \in {"cancelled", "failed"} -> "closing"
                      [] OTHER -> "cancelled")
    /\ UNCHANGED <<db, memory, clearing>>

(* _run_stream is scheduled, then prepare_user_turn commits the message *)
Start(t) ==
    /\ tasks[t].pc = "start"
    /\ stream' = "partial"
    /\ Goto(t, "prepare")
    /\ UNCHANGED <<db, pending, active, clearing>>

Prepare(t) ==
    /\ tasks[t].pc = "prepare"
    /\ Goto(t, "talk")
    /\ UNCHANGED <<db, memory, clearing>>

(* An exception of the turn, told to the clients; one in a request that answers
   an approval goes to the caller *)
Fail(t) ==
    /\ tasks[t].pc \in {"prepare", "talk", "storing", "lookup", "found", "answer",
                         "resolved", "run", "result", "saving"}
    /\ Goto(t, "failed")
    /\ UNCHANGED <<db, memory, clearing>>

(* The handlers of CancelledError and of Exception in _run_stream *)
Handle(t) ==
    /\ tasks[t].pc \in {"cancelled", "failed"}
    /\ stream' = IF tasks[t].kind = "resolve" THEN stream
                 ELSE Status(IF tasks[t].pc = "cancelled" THEN "complete" ELSE "error")
    /\ Goto(t, "closing")
    /\ UNCHANGED <<db, pending, active, clearing>>

(* What is saved after the last event, and finally: whatever is registered for
   the session is taken out *)
Close(t) ==
    /\ tasks[t].pc \in {"saving", "closing"}
    /\ active' = 0
    /\ stream' = "none"
    /\ Goto(t, "done")
    /\ UNCHANGED <<db, pending, clearing>>
-----------------------------------------------------------------------------
(* process_stream_events *)

(* Text, tool calls without risk and their results *)
Talk(t) ==
    /\ tasks[t].pc = "talk"
    /\ stream' = Status("partial")
    /\ UNCHANGED <<db, pending, active, tasks, clearing>>

(* Mutant: the status is the type of the event. *)
FinishWithType(t) ==
    /\ tasks[t].pc = "talk"
    /\ \E s \in {"done", "error"} : stream' = Status(s)
    /\ Goto(t, "saving")
    /\ UNCHANGED <<db, pending, active, clearing>>

(* The agent is done, or gives up with an error *)
Finish(t) ==
    /\ tasks[t].pc = "talk"
    /\ \E s \in {"complete", "error"} : stream' = Status(s)
    /\ Goto(t, "saving")
    /\ UNCHANGED <<db, pending, active, clearing>>

(* Mutant: the time limit is on turns, not on what follows an approval. *)
TimeoutOfTurns(t) ==
    /\ tasks[t].pc \in {"talk", "storing"} /\ tasks[t].kind = "stream"
    /\ stream' = Status("complete")
    /\ Goto(t, "saving")
    /\ UNCHANGED <<db, pending, active, clearing>>

(* asyncio.timeout(600) *)
Timeout(t) ==
    /\ tasks[t].pc \in {"talk", "storing"}
    /\ stream' = Status("complete")
    /\ Goto(t, "saving")
    /\ UNCHANGED <<db, pending, active, clearing>>

Fresh(a) ==
    /\ rows[a] = "none" /\ a \notin pending
    /\ \A u \in Ids : tasks[u].pc = "storing" => tasks[u].approval # {a}

(* _store_approval_request remembers the request and commits it; only then is
   it sent, and the agent loop returns *)
Ask(t, a) ==
    /\ tasks[t].pc = "talk"
    /\ Fresh(a)
    /\ pending' = pending \cup {a}
    /\ tasks' = [tasks EXCEPT ![t].pc = "storing", ![t].approval = {a}]
    /\ UNCHANGED <<db, active, stream, clearing>>

StoreAsk(t) ==
    /\ tasks[t].pc = "storing"
    /\ rows' = [a \in Approvals |-> IF a \in tasks[t].approval THEN "pending" ELSE rows[a]]
    /\ stream' = Status("awaiting_approval")
    /\ Goto(t, "saving")
    /\ UNCHANGED <<answer, ran, alive, pending, active, clearing>>
-----------------------------------------------------------------------------
(* resolve_chat_approval and resolve_pending_approval *)

(* A client that has seen the request answers it; the request's own task takes
   the place of whatever is registered *)
Resolve(t, a, action) ==
    /\ New(t)
    /\ alive
    /\ rows[a] # "none"
    /\ tasks' = [tasks EXCEPT ![t] =
           Task("resolve", IF a \in pending THEN "answer" ELSE "lookup", {a}, action)]
    /\ active' = t
    /\ stream' = "partial"
    /\ UNCHANGED <<db, pending, clearing>>

(* _load_pending_approval_from_db: the status of a row stays "pending" *)
Lookup(t) ==
    /\ tasks[t].pc = "lookup"
    /\ Goto(t, IF \E a \in tasks[t].approval : rows[a] = "pending" THEN "found" ELSE "failed")
    /\ UNCHANGED <<db, memory, clearing>>

(* It is pending again, even if it has been cleared since its row was read *)
Remember(t) ==
    /\ tasks[t].pc = "found"
    /\ pending' = pending \cup tasks[t].approval
    /\ Goto(t, "answer")
    /\ UNCHANGED <<db, active, stream, clearing>>

(* The approval_response is committed *)
CommitAnswer(t) ==
    /\ tasks[t].pc = "answer"
    /\ answer' = [answer EXCEPT ![t] = [approval |-> tasks[t].approval,
                                        action |-> tasks[t].action]]
    /\ Goto(t, "resolved")
    /\ UNCHANGED <<rows, ran, alive, memory, clearing>>

(* Mutant: a rejection does not return. *)
ResolvedAlways(t) ==
    /\ tasks[t].pc = "resolved"
    /\ pending' \in {pending \ tasks[t].approval, {}}
    /\ Goto(t, "run")
    /\ UNCHANGED <<db, active, stream, clearing>>

(* The clients are told.  A dictionary that a clear has replaced meanwhile is
   empty without this request, and then the new one is dropped *)
Resolved(t) ==
    /\ tasks[t].pc = "resolved"
    /\ pending' \in {pending \ tasks[t].approval, {}}
    /\ Goto(t, IF tasks[t].action = "rejected" THEN "saving" ELSE "run")
    /\ UNCHANGED <<db, active, stream, clearing>>

(* execute_skill_call *)
Run(t) ==
    /\ tasks[t].pc = "run"
    /\ ran' = ran \cup {t}
    /\ Goto(t, "result")
    /\ UNCHANGED <<rows, answer, alive, memory, clearing>>

(* The result is stored and continue_conversation_after_tool goes on talking *)
ToolReturns(t) ==
    /\ tasks[t].pc = "result"
    /\ stream' = Status("partial")
    /\ Goto(t, "talk")
    /\ UNCHANGED <<db, pending, active, clearing>>
-----------------------------------------------------------------------------
(* clear_session_messages and delete_session, up to their commit *)
Clear(delete) ==
    /\ alive /\ ~clearing.on
    /\ pending' = {}
    /\ clearing' = [on |-> TRUE, delete |-> delete,
                    doomed |-> {a \in Approvals : rows[a] = "pending"}]
    /\ UNCHANGED <<db, active, stream, tasks>>

ClearCommit ==
    /\ clearing.on
    /\ rows' = [a \in Approvals |-> IF a \in clearing.doomed THEN "deleted" ELSE rows[a]]
    /\ alive' = ~clearing.delete
    /\ clearing' = NoClear
    /\ UNCHANGED <<answer, ran, memory, tasks>>

(* The process dies and starts again: the database is what is left *)
Crash ==
    /\ pending # {} \/ clearing.on \/ RunningTasks # {}
    /\ pending' = {} /\ active' = 0 /\ stream' = "none"
    /\ clearing' = NoClear
    /\ tasks' = [t \in Ids |-> [tasks[t] EXCEPT !.pc = IF Running(t) THEN "done" ELSE @]]
    /\ UNCHANGED db
-----------------------------------------------------------------------------
(* What a task does next whatever the agent says *)
Proceed(t) ==
    \/ Start(t) \/ Prepare(t) \/ StoreAsk(t) \/ Handle(t) \/ Close(t)
    \/ Lookup(t) \/ Remember(t) \/ CommitAnswer(t) \/ Resolved(t) \/ Run(t) \/ ToolReturns(t)

Agent(t) == Talk(t) \/ Finish(t) \/ Fail(t) \/ \E a \in Approvals : Ask(t, a)

Next ==
    \/ \E t \in Ids :
           \/ Message(t) \/ Proceed(t) \/ Timeout(t) \/ Agent(t)
           \/ \E a \in Approvals, action \in {"approved", "rejected"} : Resolve(t, a, action)
    \/ Cancel
    \/ \E delete \in BOOLEAN : Clear(delete)
    \/ ClearCommit \/ Crash

Spec == Init /\ [][Next]_vars

(* The database answers or raises, a tool has a timeout of its own, and the
   600 seconds pass *)
Fairness == \A t \in Ids : WF_vars(Proceed(t)) /\ WF_vars(Timeout(t))

LiveSpec == Spec /\ Fairness
-----------------------------------------------------------------------------
TypeOK ==
    /\ rows \in [Approvals -> {"none", "pending", "deleted"}]
    /\ answer \in [Ids -> [approval : SUBSET Approvals,
                           action : {"none", "approved", "rejected"}]]
    /\ ran \subseteq Ids
    /\ pending \subseteq Approvals
    /\ tasks \in [Ids -> Tasks]
    /\ active \in 0..MaxTasks
    /\ stream \in {"none", "partial", "awaiting_approval", "complete", "error"}
    /\ alive \in BOOLEAN
    /\ clearing \in [on : BOOLEAN, doomed : SUBSET Approvals, delete : BOOLEAN]

(* Every tool that needs approval runs on an answer that is on record first, that
   says "approved", and that no other run uses; whatever is cancelled, cleared,
   forgotten by a restart or answered twice. *)
Promise == INSTANCE ChatApproval WITH
               Answers <- Ids,
               asked   <- {a \in Approvals : rows[a] # "none"},
               answer  <- answer,
               ran     <- ran

Approved == Promise!Spec

(* As long as no approval has been answered, a session runs one turn at a time,
   and a client that connects in the middle of it is told of it. *)
OneTurn ==
    (\A t \in Ids : tasks[t].kind = "stream") =>
        \A t \in Ids : Running(t) =>
            /\ \A u \in Ids : Running(u) => u = t
            /\ active = t
            /\ stream # "none" <=> tasks[t].pc # "start"

(* Every turn and every answer comes to an end, and the session is free again. *)
TurnEnds ==
    \A t \in Ids : Running(t) ~> tasks[t].pc = "done"

(* chat.py: "If there's already a running task for this session, reject new
   messages": a message starts a turn only when nothing runs. *)
BusyRejected ==
    [][\A t \in Ids : tasks[t].pc = "idle" /\ tasks'[t].pc = "start" => RunningTasks = {}]_vars
=============================================================================
