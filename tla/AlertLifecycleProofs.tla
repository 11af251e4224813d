------------------------ MODULE AlertLifecycleProofs ------------------------
(* Proofs about AlertLifecycle for every set of coroutines, rows, keys and
   kinds, every severity scale, window and bound. *)
EXTENDS AlertLifecycle, FiniteSetTheorems, TLAPS

Creating == {"find", "join", "open"}

(* What a coroutine may rely on between two of its steps: the alert it is
   creating is a committed row that no event has and no other coroutine
   creates, and the event it has loaded is still a row with the same key. *)
LocalsOK ==
    /\ \A t \in Tasks : task[t].pc \in Creating =>
          /\ task[t].alert \in AlertIds
          /\ alerts[task[t].alert].status # "none"
          /\ alerts[task[t].alert].event = NoEvent
    /\ \A t \in Tasks : task[t].pc \in {"check", "close"} => task[t].alert \in AlertIds
    /\ \A t \in Tasks : task[t].pc \in {"touch", "join", "close"} =>
          /\ task[t].event \in EventIds
          /\ Exists(task[t].event)
    /\ \A t \in Tasks : task[t].pc = "join" =>
          events[task[t].event].key = alerts[task[t].alert].key

Unshared ==
    \A t, u \in Tasks : /\ t # u
                        /\ task[t].pc \in Creating
                        /\ task[u].pc \in Creating
                        => task[t].alert # task[u].alert

FreeRowsUnlinked ==
    \A a \in AlertIds : alerts[a].status = "none" => alerts[a].event = NoEvent

IndInv == TypeOK /\ LocalsOK /\ Unshared /\ FreeRowsUnlinked /\ EventNeverEmpty

-----------------------------------------------------------------------------
LEMMA NoEventDistinct == NoEvent \notin EventIds
BY ConstantsAssumption

(* The empty rows and the idle coroutine have their types. *)
LEMMA EmptyRowTypes ==
    NoAlertRow \in Alert /\ NoEventRow \in Event /\ IdleTask \in Task
<1> DEFINE k == CHOOSE x \in Keys : TRUE
           d == CHOOSE x \in Kinds : TRUE
<1>1. k \in Keys /\ d \in Kinds
  BY ConstantsAssumption
<1>2. 1 \in Severities /\ 0 \in Times /\ 0 \in Nat
  BY ConstantsAssumption DEF Severities, Times
<1> HIDE DEF k, d
<1>3. NoEventRow \in Event
  BY <1>1, <1>2 DEF NoEventRow, Event, Statuses, k
<1>4. NoAlertRow \in Alert
  BY <1>1, <1>2 DEF NoAlertRow, Alert, Statuses, k, d
<1>5. IdleTask \in Task
  BY <1>1, <1>2, <1>3 DEF IdleTask, Task, Statuses, Pcs, k, d
<1> QED BY <1>3, <1>4, <1>5

(* A flush mixes the columns of the current row and of the session's new row,
   so it has the type of a row, and it never changes the key. *)
LEMMA FlushType ==
    ASSUME NEW row \in Event, NEW old \in Event, NEW new \in Event
    PROVE  /\ Flush(row, old, new) \in Event
           /\ Flush(row, old, new).key = row.key
           /\ Flush(row, old, new).status \in {row.status, new.status}
BY DEF Flush, Written, Event

LEMMA WithAlertType ==
    ASSUME NEW ev \in Event, NEW al \in Alert, NEW st \in Statuses
    PROVE  WithAlert(ev, al, st) \in Event /\ WithAlert(ev, al, st).status = st
<1>1. (IF al.sev > ev.sev THEN al.sev ELSE ev.sev) \in Severities
  BY DEF Event, Alert
<1>2. ev.count + 1 \in Nat /\ al.at \in Times
  BY DEF Event, Alert
<1> QED BY <1>1, <1>2 DEF WithAlert, Event

LEMMA RecoveredType ==
    ASSUME NEW ev \in Event, clock \in Times
    PROVE  Recovered(ev) \in Event /\ Recovered(ev).status = "resolved"
BY DEF Recovered, Event, Statuses

-----------------------------------------------------------------------------
(* The initial state: no row, no running coroutine. *)
LEMMA InitIndInv == Init => IndInv
<1> SUFFICES ASSUME Init PROVE IndInv
  OBVIOUS
<1>1. TypeOK
  BY EmptyRowTypes, ConstantsAssumption DEF Init, TypeOK, Times
<1>2. \A a \in AlertIds : alerts[a].event = NoEvent
  BY DEF Init, NoAlertRow
<1>3. \A e \in EventIds : events[e].status = "none"
  BY DEF Init, NoEventRow
<1>4. \A t \in Tasks : task[t].pc = "idle"
  BY DEF Init, IdleTask
<1> QED BY <1>1, <1>2, <1>3, <1>4 DEF IndInv, LocalsOK, Unshared, FreeRowsUnlinked,
        EventNeverEmpty, Exists, Creating

(* A step that only moves one coroutine, to a point where it creates no alert,
   keeps what the other coroutines rely on. *)
LEMMA MoveLocals ==
    ASSUME LocalsOK, Unshared, UNCHANGED <<alerts, events>>, NEW t \in Tasks,
           \A u \in Tasks \ {t} : task'[u] = task[u],
           task'[t].pc \notin Creating \cup {"check", "close"},
           task'[t].pc = "touch" => task'[t].event \in EventIds /\ Exists(task'[t].event)
    PROVE  LocalsOK' /\ Unshared'
BY DEF LocalsOK, Unshared, Creating, Exists

(* The deduplication reads; a coroutine that has not inserted its alert owns
   nothing yet. *)
LEMMA DetectIndInv ==
    ASSUME IndInv, NEW t \in Tasks, NEW key \in Keys, NEW kind \in Kinds,
           NEW sev \in Severities, Detect(t, key, kind, sev)
    PROVE  IndInv'
<1> USE DEF IndInv, history
<1>0. /\ UNCHANGED <<alerts, events, clock, changes>>
      /\ raced' \subseteq Kinds \X Keys /\ overlapped' \subseteq EventIds
      /\ task[t] \in Task
  <2>1. raced \subseteq Kinds \X Keys /\ overlapped \subseteq EventIds /\ task[t] \in Task
    BY DEF TypeOK
  <2>2. raced' \in {raced, raced \cup {<<kind, key>>}} /\ overlapped' = overlapped
    BY Zenon DEF Detect
  <2>3. raced' \subseteq Kinds \X Keys /\ overlapped' \subseteq EventIds
    BY <2>1, <2>2
  <2>4. UNCHANGED <<alerts, events, clock, changes>>
    BY Zenon DEF Detect
  <2> QED BY <2>1, <2>3, <2>4
<1>1. CASE task' = [task EXCEPT ![t].pc = "insert", ![t].key = key,
                                ![t].kind = kind, ![t].sev = sev]
  <2>1. task' = [task EXCEPT ![t] = [task[t] EXCEPT !.pc = "insert", !.key = key,
                                                    !.kind = kind, !.sev = sev]]
    BY <1>1
  <2>2. [task[t] EXCEPT !.pc = "insert", !.key = key, !.kind = kind, !.sev = sev] \in Task
    BY <1>0 DEF Task, Pcs
  <2>3. TypeOK'
    BY <1>0, <2>1, <2>2 DEF TypeOK
  <2>4. task'[t].pc = "insert" /\ \A u \in Tasks \ {t} : task'[u] = task[u]
    BY <1>0, <2>1 DEF TypeOK, Task
  <2>5. LocalsOK' /\ Unshared'
    BY <1>0, <2>4, MoveLocals DEF Creating
  <2> QED BY <1>0, <2>3, <2>5 DEF FreeRowsUnlinked, EventNeverEmpty, AlertsOf, Exists
<1>2. CASE \E e \in Latest(Candidates(key, 0)) :
             task' = [task EXCEPT ![t].pc = "touch", ![t].event = e,
                                  ![t].loaded = events[e]]
  <2>1. PICK e \in Latest(Candidates(key, 0)) :
             task' = [task EXCEPT ![t].pc = "touch", ![t].event = e,
                                  ![t].loaded = events[e]]
    BY <1>2
  <2>2. e \in EventIds /\ Exists(e)
    BY DEF Latest, Candidates, Open, Exists
  <2>3. task' = [task EXCEPT ![t] = [task[t] EXCEPT !.pc = "touch", !.event = e,
                                                    !.loaded = events[e]]]
    BY <2>1
  <2>4. [task[t] EXCEPT !.pc = "touch", !.event = e, !.loaded = events[e]] \in Task
    BY <1>0, <2>2 DEF Task, Pcs, TypeOK
  <2>5. TypeOK'
    BY <1>0, <2>3, <2>4 DEF TypeOK
  <2>6. /\ task'[t].pc = "touch" /\ task'[t].event = e
        /\ \A u \in Tasks \ {t} : task'[u] = task[u]
    BY <1>0, <2>3 DEF TypeOK, Task
  <2>7. LocalsOK' /\ Unshared'
    BY <1>0, <2>2, <2>6, MoveLocals DEF Creating
  <2> QED BY <1>0, <2>5, <2>7 DEF FreeRowsUnlinked, EventNeverEmpty, AlertsOf, Exists
<1>3. \/ task' = [task EXCEPT ![t].pc = "insert", ![t].key = key,
                               ![t].kind = kind, ![t].sev = sev]
      \/ \E e \in Latest(Candidates(key, 0)) :
            task' = [task EXCEPT ![t].pc = "touch", ![t].event = e,
                                 ![t].loaded = events[e]]
  BY Zenon DEF Detect
<1> QED BY <1>1, <1>2, <1>3

(* A flush of one event leaves every row a row of its key: if the coroutine
   then goes idle and the alerts stay, the invariant is kept.  TouchEvent and
   CloseEvent are such steps. *)
LEMMA FlushIndInv ==
    ASSUME IndInv, NEW t \in Tasks, NEW e \in EventIds, Exists(e),
           NEW old \in Event, NEW new \in Event,
           new.status = old.status \/ new.status \in Statuses,
           events' = [events EXCEPT ![e] = Flush(events[e], old, new)],
           task' = [task EXCEPT ![t] = IdleTask],
           UNCHANGED <<alerts, clock, changes, history>>
    PROVE  IndInv'
<1> USE DEF IndInv, history
<1> DEFINE row == Flush(events[e], old, new)
<1>1. events[e] \in Event
  BY DEF TypeOK
<1>2. row \in Event /\ row.key = events[e].key
  BY <1>1, FlushType
<1>3. row.status = Written(new.status, old.status, events[e].status)
  BY DEF Flush
<1>4. row.status # "none"
  BY <1>3 DEF Written, Exists, Statuses
<1> HIDE DEF row
<1>5. \A f \in EventIds : /\ events'[f].key = events[f].key
                          /\ Exists(f) <=> Exists(f)'
  BY <1>2, <1>4 DEF TypeOK, Exists, row
<1>6. TypeOK'
  BY <1>2, EmptyRowTypes DEF TypeOK, row
<1>7. \A u \in Tasks : task'[u] = task[u] \/ task'[u].pc = "idle"
  BY DEF TypeOK, IdleTask
<1>8. LocalsOK' /\ Unshared'
  BY <1>5, <1>7 DEF LocalsOK, Unshared, Creating
<1>9. EventNeverEmpty' /\ FreeRowsUnlinked'
  <2>1. \A f \in EventIds : AlertsOf(f)' = AlertsOf(f)
    BY DEF AlertsOf
  <2>2. \A a \in AlertIds : alerts[a].event \in EventIds \cup {NoEvent}
    BY DEF TypeOK, Alert
  <2> QED BY <1>5, <2>1, <2>2 DEF EventNeverEmpty, FreeRowsUnlinked
<1> QED BY <1>6, <1>8, <1>9

LEMMA TouchEventIndInv ==
    ASSUME IndInv, NEW t \in Tasks, TouchEvent(t)
    PROVE  IndInv'
<1> DEFINE e == task[t].event
           old == task[t].loaded
           new == [old EXCEPT !.ended = clock]
<1>1. e \in EventIds /\ Exists(e) /\ old \in Event /\ clock \in Times
  BY DEF TouchEvent, IndInv, LocalsOK, TypeOK, Task
<1>2. new \in Event /\ new.status = old.status
  BY <1>1 DEF Event
<1>3. events' = [events EXCEPT ![e] = Flush(events[e], old, new)]
  BY DEF TouchEvent
<1>4. task' = [task EXCEPT ![t] = IdleTask] /\ UNCHANGED <<alerts, clock, changes, history>>
  BY DEF TouchEvent
<1> HIDE DEF e, old, new
<1> QED BY <1>1, <1>2, <1>3, <1>4, FlushIndInv

LEMMA CloseEventIndInv ==
    ASSUME IndInv, NEW t \in Tasks, CloseEvent(t)
    PROVE  IndInv'
<1> DEFINE e == task[t].event
           old == task[t].loaded
           new == Recovered(old)
<1>1. e \in EventIds /\ Exists(e) /\ old \in Event /\ clock \in Times
  BY DEF CloseEvent, IndInv, LocalsOK, TypeOK, Task
<1>2. new \in Event /\ new.status \in Statuses
  BY <1>1, RecoveredType DEF Statuses
<1>3. events' = [events EXCEPT ![e] = Flush(events[e], old, new)]
  BY DEF CloseEvent
<1>4. task' = [task EXCEPT ![t] = IdleTask] /\ UNCHANGED <<alerts, clock, changes, history>>
  BY DEF CloseEvent
<1> HIDE DEF e, old, new
<1> QED BY <1>1, <1>2, <1>3, <1>4, FlushIndInv

(* The new row is nobody else's: every coroutine that creates an alert holds a
   row that already exists. *)
LEMMA InsertAlertIndInv ==
    ASSUME IndInv, NEW t \in Tasks, NEW a \in AlertIds, InsertAlert(t, a)
    PROVE  IndInv'
<1> USE DEF IndInv, history
<1> DEFINE row == [status |-> "active", key |-> task[t].key, kind |-> task[t].kind,
                   sev |-> task[t].sev, at |-> clock, event |-> NoEvent]
           l == [IdleTask EXCEPT !.pc = "find", !.alert = a]
<1>1. /\ alerts' = [alerts EXCEPT ![a] = row]
      /\ task' = [task EXCEPT ![t] = l]
      /\ UNCHANGED <<events, clock, changes, history>>
      /\ alerts[a].status = "none"
  BY DEF InsertAlert
<1>2. row \in Alert
  BY DEF TypeOK, Task, Alert, Statuses
<1>3. l \in Task /\ l.pc = "find" /\ l.alert = a
  BY EmptyRowTypes DEF Task, Pcs
<1>4. row.status = "active" /\ row.event = NoEvent
  OBVIOUS
<1> HIDE DEF row, l
<1>5. TypeOK'
  BY <1>1, <1>2, <1>3 DEF TypeOK
<1>6. /\ alerts'[a].status # "none" /\ alerts'[a].event = NoEvent
      /\ \A b \in AlertIds \ {a} : alerts'[b] = alerts[b]
      /\ task'[t].pc = "find" /\ task'[t].alert = a
      /\ \A u \in Tasks \ {t} : task'[u] = task[u]
  BY <1>1, <1>3, <1>4 DEF TypeOK
<1>7. alerts[a].event = NoEvent /\ \A b \in AlertIds : alerts'[b].event = alerts[b].event
  BY <1>1, <1>6 DEF FreeRowsUnlinked
<1>8. \A u \in Tasks \ {t} : task[u].pc \in Creating => task[u].alert # a
  BY <1>1 DEF LocalsOK
<1>9. LocalsOK'
  BY <1>1, <1>6, <1>8 DEF LocalsOK, Creating, Exists
<1>10. Unshared'
  BY <1>6, <1>8 DEF Unshared
<1>11. FreeRowsUnlinked'
  BY <1>6, <1>7 DEF FreeRowsUnlinked
<1>12. EventNeverEmpty'
  BY <1>1, <1>6, <1>7 DEF EventNeverEmpty, AlertsOf, Exists
<1> QED BY <1>5, <1>9, <1>10, <1>11, <1>12

LEMMA FindEventIndInv ==
    ASSUME IndInv, NEW t \in Tasks, FindEvent(t)
    PROVE  IndInv'
<1> USE DEF IndInv, history
<1> DEFINE a == task[t].alert
           E == Candidates(alerts[a].key, alerts[a].at - Window)
<1>1. /\ task[t].pc = "find" /\ task[t] \in Task
      /\ a \in AlertIds /\ alerts[a].status \in Statuses
      /\ UNCHANGED <<alerts, events, clock, changes>>
      /\ raced' \subseteq Kinds \X Keys /\ overlapped' \subseteq EventIds
  <2>1. raced \subseteq Kinds \X Keys /\ overlapped \subseteq EventIds
    BY DEF TypeOK
  <2>2. \/ overlapped' = overlapped
        \/ \E e \in EventIds : overlapped' = overlapped \cup {e}
    BY Zenon DEF FindEvent, Latest, Candidates
  <2> QED BY <2>1, <2>2 DEF FindEvent, TypeOK, LocalsOK, Creating, Alert
<1>2. CASE task' = [task EXCEPT ![t].pc = "open", ![t].alertStatus = alerts[a].status]
  <2> DEFINE l == [task[t] EXCEPT !.pc = "open", !.alertStatus = alerts[a].status]
  <2>1. task' = [task EXCEPT ![t] = l]
    BY <1>2
  <2>2. l \in Task /\ l.pc = "open" /\ l.alert = task[t].alert
    BY <1>1 DEF Task, Pcs
  <2> HIDE DEF l
  <2>3. TypeOK'
    BY <1>1, <2>1, <2>2 DEF TypeOK
  <2>4. /\ task'[t].pc = "open" /\ task'[t].alert = task[t].alert
        /\ \A u \in Tasks \ {t} : task'[u] = task[u]
    BY <2>1, <2>2 DEF TypeOK
  <2>5. LocalsOK' /\ Unshared'
    BY <1>1, <2>4 DEF LocalsOK, Unshared, Creating, Exists
  <2> QED BY <1>1, <2>3, <2>5 DEF FreeRowsUnlinked, EventNeverEmpty, AlertsOf, Exists
<1>3. ASSUME NEW e \in Latest(E),
             task' = [task EXCEPT ![t].pc = "join", ![t].event = e,
                                  ![t].alertStatus = alerts[a].status,
                                  ![t].loaded = events[e]]
      PROVE  IndInv'
  <2> DEFINE l == [task[t] EXCEPT !.pc = "join", !.event = e,
                                  !.alertStatus = alerts[a].status,
                                  !.loaded = events[e]]
  <2>1. task' = [task EXCEPT ![t] = l]
    BY <1>3
  <2>2. e \in EventIds /\ Exists(e) /\ events[e].key = alerts[a].key
    BY DEF Latest, Candidates, Open, Exists
  <2>3. l \in Task /\ l.pc = "join" /\ l.alert = task[t].alert /\ l.event = e
    BY <1>1, <2>2 DEF Task, Pcs, TypeOK
  <2> HIDE DEF l
  <2>4. TypeOK'
    BY <1>1, <2>1, <2>3 DEF TypeOK
  <2>5. /\ task'[t].pc = "join" /\ task'[t].alert = task[t].alert /\ task'[t].event = e
        /\ \A u \in Tasks \ {t} : task'[u] = task[u]
    BY <2>1, <2>3 DEF TypeOK
  <2>6. LocalsOK' /\ Unshared'
    BY <1>1, <2>2, <2>5 DEF LocalsOK, Unshared, Creating, Exists
  <2> QED BY <1>1, <2>4, <2>6 DEF FreeRowsUnlinked, EventNeverEmpty, AlertsOf, Exists
<1>4. \/ task' = [task EXCEPT ![t].pc = "open", ![t].alertStatus = alerts[a].status]
      \/ \E e \in Latest(E) :
            task' = [task EXCEPT ![t].pc = "join", ![t].event = e,
                                 ![t].alertStatus = alerts[a].status,
                                 ![t].loaded = events[e]]
  BY Zenon DEF FindEvent
<1> QED BY <1>2, <1>3, <1>4

(* Linking the alert a coroutine holds to an event, in the transaction that
   writes the event: JoinEvent and OpenEvent. *)
LEMMA LinkIndInv ==
    ASSUME IndInv, NEW t \in Tasks, NEW e \in EventIds, NEW row \in Event,
           task[t].pc \in Creating,
           row.status # "none",
           row.key = alerts[task[t].alert].key,
           Exists(e) => row.key = events[e].key,
           events' = [events EXCEPT ![e] = row],
           alerts' = [alerts EXCEPT ![task[t].alert].event = e],
           task' = [task EXCEPT ![t] = IdleTask],
           UNCHANGED <<clock, changes, history>>
    PROVE  IndInv'
<1> USE DEF IndInv, history
<1> DEFINE a == task[t].alert
<1>1. a \in AlertIds /\ alerts[a].status # "none" /\ alerts[a].event = NoEvent
  BY DEF LocalsOK
<1>2. alerts[a] \in Alert /\ alerts' = [alerts EXCEPT ![a] = [alerts[a] EXCEPT !.event = e]]
  BY <1>1 DEF TypeOK
<1>3. [alerts[a] EXCEPT !.event = e] \in Alert
  BY <1>2 DEF Alert
<1>4. TypeOK'
  BY <1>2, <1>3, EmptyRowTypes DEF TypeOK
<1>5. /\ alerts'[a].event = e /\ alerts'[a].status = alerts[a].status
      /\ alerts'[a].key = alerts[a].key
      /\ \A b \in AlertIds \ {a} : alerts'[b] = alerts[b]
  BY <1>1, <1>2 DEF TypeOK, Alert
<1>6. /\ events'[e] = row
      /\ \A f \in EventIds \ {e} : events'[f] = events[f]
  BY DEF TypeOK
<1>7. task'[t].pc = "idle" /\ \A u \in Tasks \ {t} : task'[u] = task[u]
  BY DEF TypeOK, IdleTask
<1>8. \A u \in Tasks \ {t} : task[u].pc \in Creating => task[u].alert # a
  BY DEF Unshared
<1>9. \A f \in EventIds : Exists(f) => Exists(f)' /\ events'[f].key = events[f].key
  BY <1>6 DEF Exists
<1>10. LocalsOK'
  BY <1>5, <1>7, <1>8, <1>9 DEF LocalsOK, Creating
<1>11. Unshared'
  BY <1>7 DEF Unshared, Creating
<1>12. FreeRowsUnlinked'
  BY <1>1, <1>5 DEF FreeRowsUnlinked
<1>13. EventNeverEmpty'
  <2>1. \A f \in EventIds : AlertsOf(f) \subseteq AlertsOf(f)'
    BY <1>1, <1>5, NoEventDistinct DEF AlertsOf
  <2>2. AlertsOf(e)' # {} /\ Exists(e)'
    BY <1>1, <1>5, <1>6 DEF AlertsOf, Exists
  <2>3. \A f \in EventIds : Exists(f)' => AlertsOf(f)' # {}
    BY <1>6, <2>1, <2>2 DEF EventNeverEmpty, Exists
  <2>4. \A b \in AlertIds : alerts[b].event \in EventIds \cup {NoEvent}
    BY DEF TypeOK, Alert
  <2>5. \A b \in AlertIds \ {a} : alerts'[b].event # NoEvent =>
            /\ alerts'[b].status # "none"
            /\ events'[alerts'[b].event].status # "none"
            /\ events'[alerts'[b].event].key = alerts'[b].key
    BY <1>5, <1>9, <2>4 DEF EventNeverEmpty, Exists
  <2>6. /\ alerts'[a].status # "none"
        /\ events'[alerts'[a].event].status # "none"
        /\ events'[alerts'[a].event].key = alerts'[a].key
    BY <1>1, <1>5, <1>6
  <2> QED BY <2>3, <2>5, <2>6 DEF EventNeverEmpty, Exists
<1> QED BY <1>4, <1>10, <1>11, <1>12, <1>13

LEMMA JoinEventIndInv ==
    ASSUME IndInv, NEW t \in Tasks, JoinEvent(t)
    PROVE  IndInv'
<1> DEFINE a == task[t].alert
           e == task[t].event
           old == task[t].loaded
           new == WithAlert(old, alerts[a], task[t].alertStatus)
           row == Flush(events[e], old, new)
<1>1. /\ task[t].pc = "join" /\ a \in AlertIds /\ e \in EventIds /\ Exists(e)
      /\ events[e].key = alerts[a].key
  BY DEF JoinEvent, IndInv, LocalsOK, Creating
<1>2. /\ old \in Event /\ alerts[a] \in Alert /\ events[e] \in Event
      /\ task[t].alertStatus \in Statuses
  BY <1>1 DEF IndInv, TypeOK, Task
<1>3. new \in Event /\ new.status \in Statuses
  BY <1>2, WithAlertType
<1> HIDE DEF new
<1>4. row \in Event /\ row.key = events[e].key /\ row.status \in {events[e].status, new.status}
  BY <1>2, <1>3, FlushType
<1>5. row.status # "none"
  BY <1>1, <1>3, <1>4 DEF Exists, Statuses
<1>6. /\ events' = [events EXCEPT ![e] = row]
      /\ alerts' = [alerts EXCEPT ![a].event = e]
      /\ task' = [task EXCEPT ![t] = IdleTask]
      /\ UNCHANGED <<clock, changes, history>>
  BY DEF JoinEvent, new
<1>7. task[t].pc \in Creating
  BY <1>1 DEF Creating
<1> HIDE DEF row
<1> QED BY <1>1, <1>4, <1>5, <1>6, <1>7, LinkIndInv

LEMMA OpenEventIndInv ==
    ASSUME IndInv, NEW t \in Tasks, NEW e \in EventIds, OpenEvent(t, e)
    PROVE  IndInv'
<1> DEFINE a == task[t].alert
           row == [status |-> task[t].alertStatus, key |-> alerts[a].key,
                   sev |-> alerts[a].sev, ended |-> alerts[a].at, count |-> 1]
<1>1. task[t].pc \in Creating /\ a \in AlertIds /\ ~Exists(e)
  BY DEF OpenEvent, IndInv, LocalsOK, Creating, Exists
<1>2. alerts[a] \in Alert /\ task[t].alertStatus \in Statuses
  BY <1>1 DEF IndInv, TypeOK, Task
<1>3. row \in Event /\ row.status # "none" /\ row.key = alerts[a].key
  BY <1>2 DEF Event, Alert, Statuses
<1>4. /\ events' = [events EXCEPT ![e] = row]
      /\ alerts' = [alerts EXCEPT ![a].event = e]
      /\ task' = [task EXCEPT ![t] = IdleTask]
      /\ UNCHANGED <<clock, changes, history>>
  BY DEF OpenEvent
<1> HIDE DEF row
<1> QED BY <1>1, <1>3, <1>4, LinkIndInv

-----------------------------------------------------------------------------
(* Steps that change no link and no key, make no row appear or vanish, and
   leave each coroutine where it was, idle, or looking at an existing event. *)
LEMMA StatusIndInv ==
    ASSUME IndInv, TypeOK',
           \A a \in AlertIds : /\ alerts'[a].event = alerts[a].event
                               /\ alerts'[a].key = alerts[a].key
                               /\ alerts'[a].status = "none" <=> alerts[a].status = "none",
           \A e \in EventIds : /\ events'[e].key = events[e].key
                               /\ Exists(e)' <=> Exists(e),
           \A u \in Tasks : \/ task'[u] = task[u]
                            \/ task'[u].pc = "idle"
                            \/ task'[u].pc = "check" /\ task'[u].alert \in AlertIds
                            \/ /\ task'[u].pc = "close" /\ task'[u].alert \in AlertIds
                               /\ task'[u].event \in EventIds /\ Exists(task'[u].event)
    PROVE  IndInv'
<1> USE DEF IndInv, history
<1>1. LocalsOK'
  BY DEF LocalsOK, Creating
<1>2. Unshared'
  BY DEF Unshared, Creating
<1>3. FreeRowsUnlinked'
  BY DEF FreeRowsUnlinked
<1>4. EventNeverEmpty'
  <2>1. \A e \in EventIds : AlertsOf(e)' = AlertsOf(e)
    BY DEF AlertsOf
  <2>2. \A a \in AlertIds : alerts[a].event \in EventIds \cup {NoEvent}
    BY DEF TypeOK, Alert
  <2> QED BY <2>1, <2>2 DEF EventNeverEmpty
<1> QED BY <1>1, <1>2, <1>3, <1>4

LEMMA ChangeTyped == TypeOK /\ Change => changes' \in 0..MaxChanges
BY ConstantsAssumption DEF TypeOK, Change

LEMMA AcknowledgeAlertIndInv ==
    ASSUME IndInv, NEW a \in AlertIds, AcknowledgeAlert(a)
    PROVE  IndInv'
<1> USE DEF IndInv, history
<1>1. /\ alerts[a].status # "none" /\ alerts[a] \in Alert
      /\ alerts' = [alerts EXCEPT ![a] = [alerts[a] EXCEPT !.status = "acknowledged"]]
      /\ UNCHANGED <<events, task, clock, history>>
      /\ changes' \in 0..MaxChanges
  BY ChangeTyped DEF AcknowledgeAlert, TypeOK
<1>2. [alerts[a] EXCEPT !.status = "acknowledged"] \in Alert
  BY <1>1 DEF Alert, Statuses
<1>3. TypeOK'
  BY <1>1, <1>2 DEF TypeOK
<1>4. \A b \in AlertIds : /\ alerts'[b].event = alerts[b].event
                          /\ alerts'[b].key = alerts[b].key
                          /\ alerts'[b].status = "none" <=> alerts[b].status = "none"
  BY <1>1 DEF TypeOK, Alert
<1> QED BY <1>1, <1>3, <1>4, StatusIndInv DEF Exists

LEMMA ResolveAlertIndInv ==
    ASSUME IndInv, NEW t \in Tasks, NEW a \in AlertIds, ResolveAlert(t, a)
    PROVE  IndInv'
<1> USE DEF IndInv, history
<1> DEFINE l == [task[t] EXCEPT !.pc = "check", !.alert = a]
<1>1. /\ alerts[a].status # "none" /\ alerts[a] \in Alert /\ task[t] \in Task
      /\ alerts' = [alerts EXCEPT ![a] = [alerts[a] EXCEPT !.status = "resolved"]]
      /\ task' = [task EXCEPT ![t] = l]
      /\ UNCHANGED <<events, clock, history>>
      /\ changes' \in 0..MaxChanges
  BY ChangeTyped DEF ResolveAlert, TypeOK, Open
<1>2. [alerts[a] EXCEPT !.status = "resolved"] \in Alert
  BY <1>1 DEF Alert, Statuses
<1>3. l \in Task /\ l.pc = "check" /\ l.alert = a
  BY <1>1 DEF Task, Pcs
<1> HIDE DEF l
<1>4. TypeOK'
  BY <1>1, <1>2, <1>3 DEF TypeOK
<1>5. \A b \in AlertIds : /\ alerts'[b].event = alerts[b].event
                          /\ alerts'[b].key = alerts[b].key
                          /\ alerts'[b].status = "none" <=> alerts[b].status = "none"
  BY <1>1 DEF TypeOK, Alert
<1>6. \A u \in Tasks : \/ task'[u] = task[u]
                       \/ task'[u].pc = "check" /\ task'[u].alert \in AlertIds
  BY <1>1, <1>3 DEF TypeOK
<1> QED BY <1>1, <1>4, <1>5, <1>6, StatusIndInv DEF Exists

LEMMA CheckEventIndInv ==
    ASSUME IndInv, NEW t \in Tasks, CheckEvent(t)
    PROVE  IndInv'
<1> USE DEF IndInv, history
<1> DEFINE a == task[t].alert
           e == alerts[a].event
           l == [task[t] EXCEPT !.pc = "close", !.event = e, !.loaded = events[e]]
<1>1. /\ task[t].pc = "check" /\ a \in AlertIds /\ task[t] \in Task /\ alerts[a] \in Alert
      /\ UNCHANGED <<alerts, events, clock, changes, history>>
  BY DEF CheckEvent, LocalsOK, TypeOK
<1>2. CASE task' = [task EXCEPT ![t] = IdleTask]
  <2>1. TypeOK'
    BY <1>1, <1>2, EmptyRowTypes DEF TypeOK
  <2>2. \A u \in Tasks : task'[u] = task[u] \/ task'[u].pc = "idle"
    BY <1>2 DEF TypeOK, IdleTask
  <2> QED BY <1>1, <2>1, <2>2, StatusIndInv DEF Exists
<1>3. CASE e # NoEvent /\ task' = [task EXCEPT ![t].pc = "close", ![t].event = e,
                                               ![t].loaded = events[e]]
  <2>1. e \in EventIds /\ Exists(e)
    BY <1>1, <1>3 DEF Alert, EventNeverEmpty
  <2>2. task' = [task EXCEPT ![t] = l]
    BY <1>3
  <2>3. l \in Task /\ l.pc = "close" /\ l.alert = a /\ l.event = e
    BY <1>1, <2>1 DEF Task, Pcs, TypeOK
  <2> HIDE DEF l
  <2>4. TypeOK'
    BY <1>1, <2>2, <2>3 DEF TypeOK
  <2>5. \A u \in Tasks :
          \/ task'[u] = task[u]
          \/ /\ task'[u].pc = "close" /\ task'[u].alert \in AlertIds
             /\ task'[u].event \in EventIds /\ Exists(task'[u].event)
    BY <1>1, <2>1, <2>2, <2>3 DEF TypeOK
  <2> QED BY <1>1, <2>4, <2>5, StatusIndInv DEF Exists
<1> QED BY <1>2, <1>3 DEF CheckEvent

LEMMA AcknowledgeEventIndInv ==
    ASSUME IndInv, NEW e \in EventIds, AcknowledgeEvent(e)
    PROVE  IndInv'
<1> USE DEF IndInv, history
<1>1. /\ Exists(e) /\ events[e] \in Event
      /\ events' = [events EXCEPT ![e] = [events[e] EXCEPT !.status = "acknowledged"]]
      /\ UNCHANGED <<task, clock, history>>
      /\ changes' \in 0..MaxChanges
  BY ChangeTyped DEF AcknowledgeEvent, TypeOK, Exists
<1>2. \A a \in AlertIds : [alerts[a] EXCEPT !.status = "acknowledged"] \in Alert
  BY DEF TypeOK, Alert, Statuses
<1>3. [events[e] EXCEPT !.status = "acknowledged"] \in Event
  BY <1>1 DEF Event, Statuses
<1>4. TypeOK'
  BY <1>1, <1>2, <1>3 DEF TypeOK, AcknowledgeEvent
<1>5. \A b \in AlertIds : /\ alerts'[b].event = alerts[b].event
                          /\ alerts'[b].key = alerts[b].key
                          /\ alerts'[b].status = "none" <=> alerts[b].status = "none"
  BY DEF AcknowledgeEvent, TypeOK, Alert
<1>6. \A f \in EventIds : /\ events'[f].key = events[f].key
                          /\ Exists(f)' <=> Exists(f)
  BY <1>1 DEF TypeOK, Event, Exists
<1> QED BY <1>1, <1>4, <1>5, <1>6, StatusIndInv

LEMMA ResolveEventIndInv ==
    ASSUME IndInv, NEW e \in EventIds, ResolveEvent(e)
    PROVE  IndInv'
<1> USE DEF IndInv, history
<1>1. /\ Exists(e) /\ events[e] \in Event
      /\ events' = [events EXCEPT ![e] = Recovered(events[e])]
      /\ UNCHANGED <<task, clock, history>>
      /\ changes' \in 0..MaxChanges
  BY ChangeTyped DEF ResolveEvent, TypeOK, Exists
<1>2. \A a \in AlertIds : [alerts[a] EXCEPT !.status = "resolved"] \in Alert
  BY DEF TypeOK, Alert, Statuses
<1>3. /\ Recovered(events[e]) \in Event /\ Recovered(events[e]).status = "resolved"
      /\ Recovered(events[e]).key = events[e].key
  <2>1. clock \in Times
    BY DEF TypeOK
  <2> QED BY <1>1, <2>1, RecoveredType DEF Recovered, Event
<1>4. TypeOK'
  BY <1>1, <1>2, <1>3 DEF TypeOK, ResolveEvent
<1>5. \A b \in AlertIds : /\ alerts'[b].event = alerts[b].event
                          /\ alerts'[b].key = alerts[b].key
                          /\ alerts'[b].status = "none" <=> alerts[b].status = "none"
  BY NoEventDistinct DEF ResolveEvent, TypeOK, Alert, AlertsOf, FreeRowsUnlinked
<1>6. \A f \in EventIds : /\ events'[f].key = events[f].key
                          /\ Exists(f)' <=> Exists(f)
  BY <1>1, <1>3 DEF TypeOK, Exists
<1> QED BY <1>1, <1>4, <1>5, <1>6, StatusIndInv

(* A restart loses the coroutines and nothing else. *)
LEMMA CrashIndInv ==
    ASSUME IndInv, Crash
    PROVE  IndInv'
<1> USE DEF IndInv, history
<1>1. changes' \in 0..MaxChanges
  BY ChangeTyped DEF Crash
<1>2. TypeOK'
  BY <1>1, EmptyRowTypes DEF Crash, TypeOK
<1>3. \A u \in Tasks : task'[u].pc = "idle"
  BY DEF Crash, IdleTask
<1> QED BY <1>2, <1>3, StatusIndInv DEF Crash, Exists

LEMMA TickIndInv ==
    ASSUME IndInv, Tick
    PROVE  IndInv'
<1> USE DEF IndInv, history
<1>1. TypeOK'
  BY ConstantsAssumption DEF Tick, TypeOK, Times
<1> QED BY <1>1, StatusIndInv DEF Tick, Exists

-----------------------------------------------------------------------------
(* Every step of every coroutine, user and restart keeps the invariant. *)
LEMMA NextIndInv ==
    ASSUME IndInv, [Next]_vars
    PROVE  IndInv'
<1>1. ASSUME NEW t \in Collectors, Collect(t)
      PROVE  IndInv'
  BY <1>1, DetectIndInv, TouchEventIndInv, InsertAlertIndInv, FindEventIndInv,
     JoinEventIndInv, OpenEventIndInv DEF Collect, Tasks
<1>2. ASSUME NEW t \in Tasks, Resolve(t)
      PROVE  IndInv'
  BY <1>2, ResolveAlertIndInv, CheckEventIndInv, CloseEventIndInv DEF Resolve
<1>3. CASE User
  BY <1>3, AcknowledgeAlertIndInv, AcknowledgeEventIndInv, ResolveEventIndInv DEF User
<1>4. CASE Crash
  BY <1>4, CrashIndInv
<1>5. CASE Tick
  BY <1>5, TickIndInv
<1>6. CASE UNCHANGED vars
  BY <1>6 DEF vars, history, IndInv, TypeOK, LocalsOK, Unshared, FreeRowsUnlinked,
              EventNeverEmpty, AlertsOf, Exists
<1> QED BY <1>1, <1>2, <1>3, <1>4, <1>5, <1>6 DEF Next

(* Type correctness of the tables and of every coroutine's locals. *)
THEOREM TypeCorrect == Spec => []TypeOK
<1>1. IndInv => TypeOK
  BY DEF IndInv
<1> QED BY InitIndInv, NextIndInv, <1>1, PTL DEF Spec

(* However the collectors, requests and restarts interleave, an event always
   has an alert of its own key and an alert is linked only to a committed
   event. *)
THEOREM EventsHaveAlerts == Spec => []EventNeverEmpty
<1>1. IndInv => EventNeverEmpty
  BY DEF IndInv
<1> QED BY InitIndInv, NextIndInv, <1>1, PTL DEF Spec

-----------------------------------------------------------------------------
(* The row a coroutine loaded before it adds an alert still has the event's
   count and severity, whatever users and auto-resolution do in between (they
   write neither), unless another coroutine was adding an alert to the event at
   the same time; and then it has at most as many alerts as the event by now. *)
Fresh(t, e) ==
    /\ task[t].loaded.count \in 1..Cardinality(AlertsOf(e))
    /\ e \notin overlapped => /\ task[t].loaded.count = events[e].count
                             /\ task[t].loaded.sev = events[e].sev

LoadedFresh ==
    /\ \A t \in Tasks, e \in EventIds : Joining(t, e) => Fresh(t, e)
    /\ \A t, u \in Tasks : /\ t # u
                           /\ task[t].pc = "join"
                           /\ task[u].pc = "join"
                           /\ task[t].event = task[u].event
                           => task[t].event \in overlapped

AggInv == LoadedFresh /\ AlertCountExact /\ SeverityIsHighest

(* A step that links no alert, writes no count and no severity, and makes no
   coroutine ready to add an alert. *)
LEMMA KeepAgg ==
    ASSUME IndInv, AggInv, overlapped' = overlapped,
           \A a \in AlertIds : alerts'[a].event = alerts[a].event,
           \A a \in AlertIds : alerts[a].event # NoEvent => alerts'[a].sev = alerts[a].sev,
           \A e \in EventIds : /\ events'[e].count = events[e].count
                               /\ events'[e].sev = events[e].sev
                               /\ Exists(e)' <=> Exists(e),
           \A t \in Tasks : task'[t] = task[t] \/ task'[t].pc # "join"
    PROVE  AggInv'
<1> USE DEF AggInv, IndInv
<1>1. \A e \in EventIds : AlertsOf(e)' = AlertsOf(e)
  BY DEF AlertsOf
<1>2. \A e \in EventIds : \A a \in AlertsOf(e) : alerts'[a].sev = alerts[a].sev
  BY NoEventDistinct DEF AlertsOf
<1>3. \A t \in Tasks : task[t].pc = "join" => task[t].event \in EventIds
  BY DEF LocalsOK
<1>4. \A t \in Tasks : task'[t].pc = "join" => task'[t] = task[t]
  OBVIOUS
<1>5. LoadedFresh'
  <2>1. \A t \in Tasks, e \in EventIds : Joining(t, e)' => Joining(t, e) /\ task'[t] = task[t]
    BY <1>4 DEF Joining
  <2>2. \A t \in Tasks, e \in EventIds : Fresh(t, e) /\ task'[t] = task[t] => Fresh(t, e)'
    BY <1>1 DEF Fresh
  <2>3. \A t \in Tasks, e \in EventIds : Joining(t, e)' => Fresh(t, e)'
    BY <2>1, <2>2 DEF LoadedFresh
  <2>4. \A t, u \in Tasks : /\ t # u
                            /\ task'[t].pc = "join"
                            /\ task'[u].pc = "join"
                            /\ task'[t].event = task'[u].event
                            => task'[t].event \in overlapped
    BY <1>4 DEF LoadedFresh
  <2> QED BY <2>3, <2>4 DEF LoadedFresh
<1>6. AlertCountExact'
  BY <1>1 DEF AlertCountExact
<1>7. SeverityIsHighest'
  BY <1>1, <1>2 DEF SeverityIsHighest
<1> QED BY <1>5, <1>6, <1>7

(* Steps that rewrite one existing event through a flush that changes neither
   its count nor its severity. *)
LEMMA FlushAgg ==
    ASSUME IndInv, AggInv, NEW t \in Tasks, NEW e \in EventIds, Exists(e),
           NEW old \in Event, NEW new \in Event,
           new.count = old.count, new.sev = old.sev,
           events' = [events EXCEPT ![e] = Flush(events[e], old, new)],
           task' = [task EXCEPT ![t] = IdleTask],
           events'[e].status # "none", alerts' = alerts, overlapped' = overlapped
    PROVE  AggInv'
<1>1. /\ Flush(events[e], old, new).count = events[e].count
      /\ Flush(events[e], old, new).sev = events[e].sev
  BY DEF Flush, Written
<1>2. \A f \in EventIds : /\ events'[f].count = events[f].count
                          /\ events'[f].sev = events[f].sev
                          /\ Exists(f)' <=> Exists(f)
  BY <1>1 DEF IndInv, TypeOK, Exists
<1>3. \A u \in Tasks : task'[u] = task[u] \/ task'[u].pc # "join"
  BY DEF IndInv, TypeOK, IdleTask
<1> QED BY <1>2, <1>3, KeepAgg

(* The two steps that link an alert.  A coroutine that was not alone writes a
   count that is too low, and keeps a severity another one has written. *)
LEMMA LinkAgg ==
    ASSUME IndInv, AggInv, NEW t \in Tasks, NEW e \in EventIds,
           task[t].pc \in Creating,
           events'[e].status # "none",
           \A f \in EventIds \ {e} : events'[f] = events[f],
           alerts' = [alerts EXCEPT ![task[t].alert].event = e],
           task' = [task EXCEPT ![t] = IdleTask],
           overlapped' = overlapped,
           \/ /\ Exists(e)
              /\ events'[e].count \in 2..(Cardinality(AlertsOf(e)) + 1)
              /\ events'[e].sev \in {events[e].sev, alerts[task[t].alert].sev}
              /\ e \notin overlapped =>
                    /\ events'[e].count = events[e].count + 1
                    /\ events'[e].sev = IF alerts[task[t].alert].sev > events[e].sev
                                        THEN alerts[task[t].alert].sev ELSE events[e].sev
                    /\ \A u \in Tasks \ {t} : ~Joining(u, e)
           \/ /\ ~Exists(e)
              /\ events'[e].count = 1
              /\ events'[e].sev = alerts[task[t].alert].sev
    PROVE  AggInv'
<1> USE DEF AggInv, IndInv
<1> DEFINE a == task[t].alert
<1>1. a \in AlertIds /\ alerts[a].event = NoEvent /\ alerts[a] \in Alert
  BY DEF LocalsOK, TypeOK
<1>2. /\ alerts'[a].event = e /\ alerts'[a].sev = alerts[a].sev
      /\ \A b \in AlertIds \ {a} : alerts'[b] = alerts[b]
  BY <1>1 DEF TypeOK, Alert
<1>3. /\ AlertsOf(e)' = AlertsOf(e) \cup {a} /\ a \notin AlertsOf(e)
      /\ \A f \in EventIds \ {e} : AlertsOf(f)' = AlertsOf(f)
  BY <1>1, <1>2, NoEventDistinct DEF AlertsOf
<1>4. \A b \in AlertIds : alerts'[b].sev = alerts[b].sev
  BY <1>2
<1>5. ~Exists(e) => AlertsOf(e) = {}
  BY NoEventDistinct DEF EventNeverEmpty, AlertsOf, Exists
<1>6. /\ IsFiniteSet(AlertsOf(e))
      /\ Cardinality(AlertsOf(e)') = Cardinality(AlertsOf(e)) + 1
      /\ Cardinality(AlertsOf(e)) \in Nat
      /\ ~Exists(e) => Cardinality(AlertsOf(e)) = 0
  <2>1. IsFiniteSet(AlertsOf(e))
    BY ConstantsAssumption, FS_Subset DEF AlertsOf
  <2>2. Cardinality(AlertsOf(e)') = Cardinality(AlertsOf(e)) + 1
    BY <1>3, <2>1, FS_AddElement
  <2> QED BY <1>5, <2>1, <2>2, FS_EmptySet, FS_CardinalityType
<1>7. LoadedFresh'
  <2>1. task'[t].pc = "idle" /\ \A u \in Tasks \ {t} : task'[u] = task[u]
    BY DEF TypeOK, IdleTask
  <2>2. \A u \in Tasks : task'[u].pc = "join" => u # t /\ task'[u] = task[u]
    BY <2>1
  <2>3. \A u \in Tasks : task[u].pc = "join" => task[u].event \in EventIds /\ Exists(task[u].event)
    BY DEF LocalsOK
  <2>4. ASSUME NEW u \in Tasks, NEW f \in EventIds, Joining(u, f)'
        PROVE  Fresh(u, f)'
    <3>1. u # t /\ task'[u] = task[u] /\ Joining(u, f) /\ Exists(f)
      BY <2>2, <2>3, <2>4 DEF Joining
    <3>2. Fresh(u, f)
      BY <3>1 DEF LoadedFresh
    <3>3. CASE f = e
      <4>1. e \in overlapped
        BY <3>1, <3>3
      <4> QED BY <1>6, <3>1, <3>2, <3>3, <4>1 DEF Fresh
    <3>4. CASE f # e
      BY <1>3, <3>1, <3>2, <3>4 DEF Fresh
    <3> QED BY <3>3, <3>4
  <2>5. \A u, v \in Tasks : /\ u # v
                            /\ task'[u].pc = "join"
                            /\ task'[v].pc = "join"
                            /\ task'[u].event = task'[v].event
                            => task'[u].event \in overlapped
    BY <2>2 DEF LoadedFresh
  <2> QED BY <2>4, <2>5 DEF LoadedFresh
<1>8. AlertCountExact'
  <2>1. /\ events'[e].count \in 1..Cardinality(AlertsOf(e)')
        /\ e \notin overlapped => events'[e].count = Cardinality(AlertsOf(e)')
    <3>1. CASE Exists(e)
      BY <1>6, <3>1 DEF AlertCountExact
    <3>2. CASE ~Exists(e)
      BY <1>6, <3>2
    <3> QED BY <3>1, <3>2
  <2>2. \A f \in EventIds \ {e} : Exists(f)' =>
          /\ events'[f].count \in 1..Cardinality(AlertsOf(f)')
          /\ f \notin overlapped => events'[f].count = Cardinality(AlertsOf(f)')
    BY <1>3 DEF AlertCountExact, Exists
  <2> QED BY <2>1, <2>2 DEF AlertCountExact
<1>9. SeverityIsHighest'
  <2>1. \A b \in AlertIds : alerts[b].sev \in Int
    BY DEF TypeOK, Alert, Severities
  <2>2. events[e].sev \in Int
    BY DEF TypeOK, Event, Severities
  <2>3. \A f \in EventIds : AlertsOf(f) \subseteq AlertIds
    BY DEF AlertsOf
  <2>4. \E b \in AlertsOf(e)' : alerts'[b].sev = events'[e].sev
    <3>1. CASE events'[e].sev = alerts[a].sev
      BY <1>3, <1>2, <3>1
    <3>2. CASE Exists(e) /\ events'[e].sev = events[e].sev
      <4>1. \E b \in AlertsOf(e) : alerts[b].sev = events[e].sev
        BY <3>2 DEF SeverityIsHighest
      <4> QED BY <1>3, <1>4, <2>3, <3>2, <4>1
    <3> QED BY <3>1, <3>2
  <2>5. e \notin overlapped => \A b \in AlertsOf(e)' : alerts'[b].sev <= events'[e].sev
    <3>1. CASE Exists(e) /\ e \notin overlapped
      <4>1. \A b \in AlertsOf(e) : alerts[b].sev <= events[e].sev
        BY <3>1 DEF SeverityIsHighest
      <4> QED BY <1>1, <1>3, <1>4, <2>1, <2>2, <2>3, <3>1, <4>1
    <3>2. CASE ~Exists(e)
      BY <1>1, <1>3, <1>4, <1>5, <2>1, <3>2
    <3> QED BY <3>1, <3>2
  <2>6. \A f \in EventIds \ {e} : Exists(f)' =>
          /\ \E b \in AlertsOf(f)' : alerts'[b].sev = events'[f].sev
          /\ f \notin overlapped => \A b \in AlertsOf(f)' : alerts'[b].sev <= events'[f].sev
    BY <1>3, <1>4, <2>3 DEF SeverityIsHighest, Exists
  <2> QED BY <2>4, <2>5, <2>6 DEF SeverityIsHighest
<1> QED BY <1>7, <1>8, <1>9

LEMMA InitAgg == Init => AggInv
<1> SUFFICES ASSUME Init PROVE AggInv
  OBVIOUS
<1>1. \A e \in EventIds : ~Exists(e)
  BY DEF Init, NoEventRow, Exists
<1>2. \A t \in Tasks : task[t].pc = "idle"
  BY DEF Init, IdleTask
<1> QED BY <1>1, <1>2 DEF AggInv, LoadedFresh, Joining, AlertCountExact, SeverityIsHighest

(* The SELECT of _find_matching_event: a second coroutine about to add an alert
   to the event is on record. *)
LEMMA FindAgg ==
    ASSUME IndInv, AggInv, NEW t \in Tasks, FindEvent(t)
    PROVE  AggInv'
<1> USE DEF IndInv
<1> DEFINE a == task[t].alert
           E == Candidates(alerts[a].key, alerts[a].at - Window)
<1>0. task[t] \in Task /\ UNCHANGED <<alerts, events>>
  BY Zenon DEF TypeOK, FindEvent
<1>1. CASE /\ task' = [task EXCEPT ![t].pc = "open", ![t].alertStatus = alerts[a].status]
           /\ overlapped' = overlapped
  <2>1. task'[t].pc = "open" /\ \A u \in Tasks \ {t} : task'[u] = task[u]
    BY <1>0, <1>1 DEF TypeOK, Task
  <2> QED BY <1>0, <1>1, <2>1, KeepAgg DEF Exists
<1>2. ASSUME NEW e \in Latest(E),
             task' = [task EXCEPT ![t].pc = "join", ![t].event = e,
                                  ![t].alertStatus = alerts[a].status,
                                  ![t].loaded = events[e]],
             overlapped' = IF \E u \in Tasks : Joining(u, e)
                           THEN overlapped \cup {e} ELSE overlapped
      PROVE  AggInv'
  <2>1. e \in EventIds /\ Exists(e)
    BY DEF Latest, Candidates, Open, Exists
  <2>2. /\ task'[t].pc = "join" /\ task'[t].event = e /\ task'[t].loaded = events[e]
        /\ \A u \in Tasks \ {t} : task'[u] = task[u]
    BY <1>0, <1>2 DEF TypeOK, Task
  <2>3. \A f \in EventIds : AlertsOf(f)' = AlertsOf(f) /\ (Exists(f)' <=> Exists(f))
    BY <1>0 DEF AlertsOf, Exists
  <2>4. overlapped \subseteq overlapped'
    BY <1>2
  <2>5. \A u \in Tasks : task[u].pc = "join" => task[u].event \in EventIds
    BY DEF LocalsOK
  <2>6. LoadedFresh'
    <3>1. ASSUME NEW u \in Tasks, NEW f \in EventIds, Joining(u, f)'
          PROVE  Fresh(u, f)'
      <4>1. CASE u = t
        <5>1. f = e /\ events' = events
          BY <1>0, <2>2, <3>1, <4>1 DEF Joining
        <5> QED BY <2>1, <2>2, <2>3, <2>4, <4>1, <5>1 DEF AggInv, AlertCountExact, Fresh
      <4>2. CASE u # t
        <5>1. task'[u] = task[u] /\ Fresh(u, f)
          BY <2>2, <3>1, <4>2 DEF AggInv, LoadedFresh, Joining
        <5> QED BY <1>0, <2>3, <2>4, <5>1 DEF Fresh
      <4> QED BY <4>1, <4>2
    <3>2. ASSUME NEW u \in Tasks, NEW v \in Tasks, u # v,
                 task'[u].pc = "join", task'[v].pc = "join", task'[u].event = task'[v].event
          PROVE  task'[u].event \in overlapped'
      <4>1. CASE u = t
        BY <1>2, <2>2, <3>2, <4>1 DEF Joining
      <4>2. CASE v = t
        <5>1. task'[v].event = e /\ task'[u] = task[u]
          BY <2>2, <3>2, <4>2
        <5>2. Joining(u, e)
          BY <3>2, <5>1 DEF Joining
        <5> QED BY <1>2, <3>2, <5>1, <5>2
      <4>3. CASE u # t /\ v # t
        BY <2>2, <2>4, <3>2, <4>3 DEF AggInv, LoadedFresh
      <4> QED BY <4>1, <4>2, <4>3
    <3> QED BY <3>1, <3>2 DEF LoadedFresh
  <2>7. AlertCountExact'
    BY <1>0, <2>3, <2>4 DEF AggInv, AlertCountExact
  <2>8. SeverityIsHighest'
    BY <1>0, <2>3, <2>4 DEF AggInv, SeverityIsHighest
  <2> QED BY <2>6, <2>7, <2>8 DEF AggInv
<1>3. \/ /\ task' = [task EXCEPT ![t].pc = "open", ![t].alertStatus = alerts[a].status]
         /\ overlapped' = overlapped
      \/ \E e \in Latest(E) :
            /\ task' = [task EXCEPT ![t].pc = "join", ![t].event = e,
                                    ![t].alertStatus = alerts[a].status,
                                    ![t].loaded = events[e]]
            /\ overlapped' = IF \E u \in Tasks : Joining(u, e)
                             THEN overlapped \cup {e} ELSE overlapped
  BY Zenon DEF FindEvent
<1> QED BY <1>1, <1>2, <1>3

LEMMA CollectAgg ==
    ASSUME IndInv, IndInv', AggInv, NEW t \in Tasks, Collect(t)
    PROVE  AggInv'
<1>0. t \in Tasks /\ task[t] \in Task
  BY DEF IndInv, TypeOK
<1>1. ASSUME NEW key \in Keys, NEW kind \in Kinds, NEW sev \in Severities,
             Detect(t, key, kind, sev)
      PROVE  AggInv'
  <2>1. UNCHANGED <<alerts, events, overlapped>>
    BY Zenon, <1>1 DEF Detect
  <2>2. task'[t].pc \in {"insert", "touch"} /\ \A u \in Tasks \ {t} : task'[u] = task[u]
    <3>1. CASE task' = [task EXCEPT ![t].pc = "insert", ![t].key = key,
                                    ![t].kind = kind, ![t].sev = sev]
      BY <1>0, <3>1 DEF IndInv, TypeOK, Task
    <3>2. CASE \E e \in Latest(Candidates(key, 0)) :
                  task' = [task EXCEPT ![t].pc = "touch", ![t].event = e,
                                       ![t].loaded = events[e]]
      BY <1>0, <3>2 DEF IndInv, TypeOK, Task
    <3>3. \/ task' = [task EXCEPT ![t].pc = "insert", ![t].key = key,
                                  ![t].kind = kind, ![t].sev = sev]
          \/ \E e \in Latest(Candidates(key, 0)) :
                task' = [task EXCEPT ![t].pc = "touch", ![t].event = e,
                                     ![t].loaded = events[e]]
      BY Zenon, <1>1 DEF Detect
    <3> QED BY <3>1, <3>2, <3>3
  <2> QED BY <2>1, <2>2, KeepAgg DEF Exists
<1>2. CASE TouchEvent(t)
  <2> DEFINE e == task[t].event
             old == task[t].loaded
             new == [old EXCEPT !.ended = clock]
  <2>1. e \in EventIds /\ Exists(e) /\ old \in Event /\ clock \in Times
    BY <1>0, <1>2 DEF TouchEvent, IndInv, LocalsOK, TypeOK, Task
  <2>2. new \in Event /\ new.count = old.count /\ new.sev = old.sev /\ new.status = old.status
    BY <2>1 DEF Event
  <2>3. /\ events' = [events EXCEPT ![e] = Flush(events[e], old, new)]
        /\ task' = [task EXCEPT ![t] = IdleTask] /\ alerts' = alerts
        /\ overlapped' = overlapped
    BY <1>2 DEF TouchEvent, history
  <2>4. events'[e].status # "none"
    <3>1. Flush(events[e], old, new).status = events[e].status
      BY <2>2 DEF Flush, Written
    <3> QED BY <2>1, <2>3, <3>1 DEF IndInv, TypeOK, Exists
  <2> HIDE DEF e, old, new
  <2> QED BY <1>0, <2>1, <2>2, <2>3, <2>4, FlushAgg
<1>3. ASSUME NEW a \in AlertIds, InsertAlert(t, a)
      PROVE  AggInv'
  <2>1. alerts[a].event = NoEvent /\ UNCHANGED <<events, overlapped>>
    BY <1>3 DEF InsertAlert, IndInv, FreeRowsUnlinked, history
  <2>2. /\ alerts'[a].event = NoEvent /\ \A b \in AlertIds \ {a} : alerts'[b] = alerts[b]
    BY <1>3 DEF InsertAlert, IndInv, TypeOK
  <2>3. task'[t].pc = "find" /\ \A u \in Tasks \ {t} : task'[u] = task[u]
    <3>1. [IdleTask EXCEPT !.pc = "find", !.alert = a].pc = "find"
      BY EmptyRowTypes DEF Task
    <3> QED BY <1>0, <1>3, <3>1 DEF InsertAlert, IndInv, TypeOK
  <2> QED BY <2>1, <2>2, <2>3, KeepAgg DEF Exists
<1>4. CASE FindEvent(t)
  BY <1>4, FindAgg
<1>5. CASE JoinEvent(t)
  <2> DEFINE a == task[t].alert
             e == task[t].event
             old == task[t].loaded
             new == WithAlert(old, alerts[a], task[t].alertStatus)
             row == Flush(events[e], old, new)
  <2>1. /\ task[t].pc \in Creating /\ a \in AlertIds /\ e \in EventIds /\ Exists(e)
        /\ old \in Event /\ events[e] \in Event /\ alerts[a] \in Alert
        /\ task[t].alertStatus \in Statuses
    BY <1>0, <1>5 DEF JoinEvent, IndInv, LocalsOK, TypeOK, Task, Creating
  <2>2. /\ old.count \in 1..Cardinality(AlertsOf(e))
        /\ e \notin overlapped => /\ old.count = events[e].count
                                 /\ old.sev = events[e].sev
                                 /\ \A u \in Tasks \ {t} : ~Joining(u, e)
    BY <2>1, <1>5 DEF JoinEvent, AggInv, LoadedFresh, Fresh, Joining
  <2>3. /\ events' = [events EXCEPT ![e] = row]
        /\ alerts' = [alerts EXCEPT ![a].event = e]
        /\ task' = [task EXCEPT ![t] = IdleTask]
        /\ overlapped' = overlapped
    BY <1>5 DEF JoinEvent, history
  <2>4. /\ events'[e] = row /\ \A f \in EventIds \ {e} : events'[f] = events[f]
    BY <2>1, <2>3 DEF IndInv, TypeOK
  <2>5. /\ new.count = old.count + 1
        /\ new.sev = IF alerts[a].sev > old.sev THEN alerts[a].sev ELSE old.sev
        /\ new.status \in Statuses
    BY <2>1 DEF WithAlert, Event
  <2>6. Cardinality(AlertsOf(e)) \in Nat
    BY ConstantsAssumption, FS_Subset, FS_CardinalityType DEF AlertsOf
  <2>7. row.count = Written(new.count, old.count, events[e].count)
        /\ row.sev = Written(new.sev, old.sev, events[e].sev)
        /\ row.status = Written(new.status, old.status, events[e].status)
    BY DEF Flush
  <2> HIDE DEF row, new
  <2>8. /\ row.count = old.count + 1
        /\ row.count \in 2..(Cardinality(AlertsOf(e)) + 1)
    BY <2>2, <2>5, <2>6, <2>7 DEF Written
  <2>9. /\ row.sev \in {events[e].sev, alerts[a].sev}
        /\ e \notin overlapped =>
              row.sev = IF alerts[a].sev > events[e].sev THEN alerts[a].sev ELSE events[e].sev
    BY <2>2, <2>5, <2>7 DEF Written
  <2>10. row.status # "none"
    BY <2>1, <2>5, <2>7 DEF Written, Exists, Statuses
  <2> HIDE DEF old
  <2> QED BY <2>1, <2>2, <2>3, <2>4, <2>8, <2>9, <2>10, LinkAgg
<1>6. ASSUME NEW e \in EventIds, OpenEvent(t, e)
      PROVE  AggInv'
  <2> DEFINE a == task[t].alert
             row == [status |-> task[t].alertStatus, key |-> alerts[a].key,
                     sev |-> alerts[a].sev, ended |-> alerts[a].at, count |-> 1]
  <2>1. /\ events' = [events EXCEPT ![e] = row]
        /\ alerts' = [alerts EXCEPT ![a].event = e]
        /\ task' = [task EXCEPT ![t] = IdleTask]
        /\ task[t].pc \in Creating /\ ~Exists(e) /\ overlapped' = overlapped
    BY <1>6 DEF OpenEvent, Creating, Exists, history
  <2>2. /\ events'[e] = row /\ \A f \in EventIds \ {e} : events'[f] = events[f]
    BY <2>1 DEF IndInv, TypeOK
  <2>3. row.status # "none" /\ row.count = 1 /\ row.sev = alerts[a].sev
    BY <1>0 DEF Task, Statuses
  <2> HIDE DEF row
  <2> QED BY <2>1, <2>2, <2>3, LinkAgg
<1> QED BY <1>1, <1>2, <1>3, <1>4, <1>5, <1>6 DEF Collect

LEMMA ResolveAgg ==
    ASSUME IndInv, IndInv', AggInv, NEW t \in Tasks, Resolve(t)
    PROVE  AggInv'
<1>0. task[t] \in Task
  BY DEF IndInv, TypeOK
<1>1. ASSUME NEW a \in AlertIds, ResolveAlert(t, a)
      PROVE  AggInv'
  <2>1. UNCHANGED <<events, overlapped>>
    BY <1>1 DEF ResolveAlert, history
  <2>2. \A b \in AlertIds : alerts'[b].event = alerts[b].event /\ alerts'[b].sev = alerts[b].sev
    BY <1>1 DEF ResolveAlert, IndInv, TypeOK, Alert
  <2>3. task'[t].pc = "check" /\ \A u \in Tasks \ {t} : task'[u] = task[u]
    BY <1>0, <1>1 DEF ResolveAlert, IndInv, TypeOK, Task
  <2> QED BY <2>1, <2>2, <2>3, KeepAgg DEF Exists
<1>2. CASE CheckEvent(t)
  <2>1. UNCHANGED <<alerts, events, overlapped>> /\ \A u \in Tasks \ {t} : task'[u] = task[u]
    BY <1>0, <1>2 DEF CheckEvent, IndInv, TypeOK, history
  <2>2. task'[t].pc \in {"close", "idle"}
    BY <1>0, <1>2 DEF CheckEvent, IndInv, TypeOK, Task, IdleTask
  <2> QED BY <2>1, <2>2, KeepAgg DEF Exists
<1>3. CASE CloseEvent(t)
  <2> DEFINE e == task[t].event
             old == task[t].loaded
             new == Recovered(old)
  <2>1. e \in EventIds /\ Exists(e) /\ old \in Event /\ clock \in Times
    BY <1>0, <1>3 DEF CloseEvent, IndInv, LocalsOK, TypeOK, Task
  <2>2. new \in Event /\ new.count = old.count /\ new.sev = old.sev /\ new.status = "resolved"
    BY <2>1, RecoveredType DEF Event, Recovered
  <2>3. /\ events' = [events EXCEPT ![e] = Flush(events[e], old, new)]
        /\ task' = [task EXCEPT ![t] = IdleTask] /\ alerts' = alerts
        /\ overlapped' = overlapped
    BY <1>3 DEF CloseEvent, history
  <2>4. events'[e].status # "none"
    <3>1. Flush(events[e], old, new).status \in {"resolved", events[e].status}
      BY <2>2 DEF Flush, Written
    <3> QED BY <2>1, <2>3, <3>1 DEF IndInv, TypeOK, Exists
  <2> HIDE DEF e, old, new
  <2> QED BY <2>1, <2>2, <2>3, <2>4, FlushAgg
<1> QED BY <1>1, <1>2, <1>3 DEF Resolve

LEMMA OtherAgg ==
    ASSUME IndInv, IndInv', AggInv, User \/ Crash \/ Tick \/ UNCHANGED vars
    PROVE  AggInv'
<1>1. ASSUME NEW a \in AlertIds, AcknowledgeAlert(a)
      PROVE  AggInv'
  <2>1. \A b \in AlertIds : alerts'[b].event = alerts[b].event /\ alerts'[b].sev = alerts[b].sev
    BY <1>1 DEF AcknowledgeAlert, IndInv, TypeOK, Alert
  <2>2. UNCHANGED <<events, task, overlapped>>
    BY <1>1 DEF AcknowledgeAlert, history
  <2> QED BY <2>1, <2>2, KeepAgg DEF Exists
<1>2. ASSUME NEW e \in EventIds, AcknowledgeEvent(e) \/ ResolveEvent(e)
      PROVE  AggInv'
  <2>1. \A b \in AlertIds : alerts'[b].event = alerts[b].event /\ alerts'[b].sev = alerts[b].sev
    BY <1>2 DEF AcknowledgeEvent, ResolveEvent, IndInv, TypeOK, Alert
  <2>2. UNCHANGED <<task, overlapped>>
    BY <1>2 DEF AcknowledgeEvent, ResolveEvent, history
  <2>3. \A f \in EventIds : /\ events'[f].count = events[f].count
                            /\ events'[f].sev = events[f].sev
                            /\ Exists(f)' <=> Exists(f)
    <3>1. CASE AcknowledgeEvent(e)
      BY <3>1 DEF AcknowledgeEvent, Exists, IndInv, TypeOK, Event
    <3>2. CASE ResolveEvent(e)
      <4>1. events[e] \in Event /\ Exists(e)
        BY <3>2 DEF ResolveEvent, IndInv, TypeOK, Exists
      <4>2. /\ Recovered(events[e]).count = events[e].count
            /\ Recovered(events[e]).sev = events[e].sev
            /\ Recovered(events[e]).status = "resolved"
        BY <4>1 DEF Recovered, Event
      <4>3. events' = [events EXCEPT ![e] = Recovered(events[e])]
        BY <3>2 DEF ResolveEvent
      <4> QED BY <4>1, <4>2, <4>3 DEF Exists, IndInv, TypeOK
    <3> QED BY <1>2, <3>1, <3>2
  <2> QED BY <2>1, <2>2, <2>3, KeepAgg
<1>3. CASE Crash
  <2>1. \A u \in Tasks : task'[u].pc = "idle"
    BY <1>3 DEF Crash, IdleTask
  <2> QED BY <1>3, <2>1, KeepAgg DEF Crash, Exists, history
<1>4. CASE Tick \/ UNCHANGED vars
  BY <1>4, KeepAgg DEF Tick, vars, history, Exists
<1> QED BY <1>1, <1>2, <1>3, <1>4 DEF User

(* alert_count and severity in every reachable state, although both are computed
   from a row read in an earlier step: whatever other collectors, users,
   auto-resolution and restarts do in between, an event has the severity of one of
   its alerts and no higher count than it has alerts, and both are exact as long as
   no two coroutines were adding alerts to that event at once. *)
THEOREM AggregationExact == Spec => [](AlertCountExact /\ SeverityIsHighest)
<1>1. ASSUME IndInv, AggInv, [Next]_vars
      PROVE  IndInv' /\ AggInv'
  <2>1. IndInv'
    BY <1>1, NextIndInv
  <2>2. ASSUME NEW t \in Collectors, Collect(t) PROVE AggInv'
    BY <1>1, <2>1, <2>2, CollectAgg DEF Tasks
  <2>3. ASSUME NEW t \in Tasks, Resolve(t) PROVE AggInv'
    BY <1>1, <2>1, <2>3, ResolveAgg
  <2>4. ASSUME User \/ Crash \/ Tick \/ UNCHANGED vars PROVE AggInv'
    BY <1>1, <2>1, <2>4, OtherAgg
  <2> QED BY <1>1, <2>1, <2>2, <2>3, <2>4 DEF Next
<1>2. AggInv => AlertCountExact /\ SeverityIsHighest
  BY DEF AggInv
<1> QED BY InitIndInv, InitAgg, <1>1, <1>2, PTL DEF Spec

(* alert_count alone: never more than the alerts linked to the event, and exactly
   their number unless two coroutines were adding one at once. *)
THEOREM CountsAreExact == Spec => []AlertCountExact
<1>1. Spec => [](AlertCountExact /\ SeverityIsHighest)
  BY AggregationExact
<1> QED BY <1>1, PTL

-----------------------------------------------------------------------------
(* The deduplication SELECT still holds when the collector inserts, unless another
   coroutine made it too; and the only one to insert is the one that made it. *)
NoneActive(kind, key) ==
    \A a \in AlertIds : ~ /\ alerts[a].status = "active"
                          /\ alerts[a].kind = kind
                          /\ alerts[a].key = key

SelectHolds ==
    /\ \A t \in Tasks, kind \in Kinds, key \in Keys :
          About(t, kind, key) /\ <<kind, key>> \notin raced => NoneActive(kind, key)
    /\ \A t, u \in Tasks, kind \in Kinds, key \in Keys :
          t # u /\ About(t, kind, key) /\ About(u, kind, key) => <<kind, key>> \in raced

OneInv == OneActiveAlertPerMetric /\ SelectHolds

(* A step that makes no alert active and no coroutine ready to insert. *)
LEMMA KeepOne ==
    ASSUME OneInv, raced' = raced,
           \A a \in AlertIds : alerts'[a].status = "active" =>
               /\ alerts[a].status = "active"
               /\ alerts'[a].kind = alerts[a].kind
               /\ alerts'[a].key = alerts[a].key,
           \A t \in Tasks : task'[t].pc = "insert" => task'[t] = task[t]
    PROVE  OneInv'
<1>1. OneActiveAlertPerMetric'
  BY DEF OneInv, OneActiveAlertPerMetric
<1>2. \A t \in Tasks, kind \in Kinds, key \in Keys :
          About(t, kind, key)' => About(t, kind, key)
  BY DEF About
<1>3. \A kind, key : NoneActive(kind, key) => NoneActive(kind, key)'
  BY DEF NoneActive
<1>4. SelectHolds'
  BY <1>2, <1>3 DEF OneInv, SelectHolds
<1> QED BY <1>1, <1>4 DEF OneInv

(* A step writes the record of its own coroutine only. *)
LEMMA Moved ==
    ASSUME TypeOK, NEW t \in Tasks, NEW r, task' = [task EXCEPT ![t] = r]
    PROVE  task'[t] = r /\ \A u \in Tasks \ {t} : task'[u] = task[u]
BY DEF TypeOK

LEMMA ToIdle ==
    ASSUME TypeOK, NEW t \in Tasks, task' = [task EXCEPT ![t] = IdleTask]
    PROVE  task'[t].pc = "idle" /\ \A u \in Tasks \ {t} : task'[u] = task[u]
BY Moved DEF IdleTask

LEMMA CollectOne ==
    ASSUME TypeOK, OneInv, NEW t \in Tasks, Collect(t)
    PROVE  OneInv'
<1>0. task[t] \in Task
  BY DEF TypeOK
<1>1. ASSUME NEW key \in Keys, NEW kind \in Kinds, NEW sev \in Severities,
             Detect(t, key, kind, sev)
      PROVE  OneInv'
  <2>0. UNCHANGED alerts
    BY Zenon, <1>1 DEF Detect
  <2>1. ASSUME NEW e, task' = [task EXCEPT ![t].pc = "touch", ![t].event = e,
                                          ![t].loaded = events[e]],
               raced' = raced
        PROVE  OneInv'
    <3> DEFINE l == [task[t] EXCEPT !.pc = "touch", !.event = e, !.loaded = events[e]]
    <3>1. task' = [task EXCEPT ![t] = l] /\ l.pc = "touch"
      BY <1>0, <2>1 DEF Task
    <3> HIDE DEF l
    <3>2. task'[t].pc = "touch" /\ \A u \in Tasks \ {t} : task'[u] = task[u]
      BY <3>1, Moved
    <3> QED BY <2>0, <2>1, <3>2, KeepOne
  <2>2. CASE /\ ~OpenAlert(kind, key)
             /\ task' = [task EXCEPT ![t].pc = "insert", ![t].key = key,
                                     ![t].kind = kind, ![t].sev = sev]
             /\ raced' = IF \E u \in Tasks : About(u, kind, key)
                         THEN raced \cup {<<kind, key>>} ELSE raced
    <3> DEFINE l == [task[t] EXCEPT !.pc = "insert", !.key = key, !.kind = kind, !.sev = sev]
    <3>1. task' = [task EXCEPT ![t] = l] /\ l.key = key /\ l.kind = kind
      BY <1>0, <2>2 DEF Task
    <3> HIDE DEF l
    <3>2. /\ task'[t].key = key /\ task'[t].kind = kind
          /\ \A u \in Tasks \ {t} : task'[u] = task[u]
      BY <3>1, Moved
    <3>3. /\ raced \subseteq raced'
          /\ (\E u \in Tasks : About(u, kind, key)) => <<kind, key>> \in raced'
      BY <2>2
    <3>4. NoneActive(kind, key)
      BY <2>2 DEF OpenAlert, Open, NoneActive
    <3>5. \A k, m : NoneActive(k, m) => NoneActive(k, m)'
      BY <2>0 DEF NoneActive
    <3>6. ASSUME NEW u \in Tasks, NEW k \in Kinds, NEW m \in Keys, About(u, k, m)'
          PROVE  \/ u = t /\ k = kind /\ m = key
                 \/ u # t /\ About(u, k, m)
      <4>1. CASE u = t
        BY <3>2, <3>6, <4>1 DEF About
      <4>2. CASE u # t
        BY <3>2, <3>6, <4>2 DEF About
      <4> QED BY <4>1, <4>2
    <3>7. SelectHolds'
      <4>1. ASSUME NEW u \in Tasks, NEW k \in Kinds, NEW m \in Keys,
                   About(u, k, m)', <<k, m>> \notin raced'
            PROVE  NoneActive(k, m)'
        BY <3>3, <3>4, <3>5, <3>6, <4>1 DEF OneInv, SelectHolds
      <4>2. ASSUME NEW u \in Tasks, NEW v \in Tasks, NEW k \in Kinds, NEW m \in Keys,
                   u # v, About(u, k, m)', About(v, k, m)'
            PROVE  <<k, m>> \in raced'
        BY <3>3, <3>6, <4>2 DEF OneInv, SelectHolds
      <4> QED BY <4>1, <4>2 DEF SelectHolds
    <3>8. OneActiveAlertPerMetric'
      BY <2>0, <3>3 DEF OneInv, OneActiveAlertPerMetric
    <3> QED BY <3>7, <3>8 DEF OneInv
  <2>3. \/ /\ ~OpenAlert(kind, key)
           /\ task' = [task EXCEPT ![t].pc = "insert", ![t].key = key,
                                   ![t].kind = kind, ![t].sev = sev]
           /\ raced' = IF \E u \in Tasks : About(u, kind, key)
                       THEN raced \cup {<<kind, key>>} ELSE raced
        \/ \E e \in Latest(Candidates(key, 0)) :
              /\ task' = [task EXCEPT ![t].pc = "touch", ![t].event = e,
                                      ![t].loaded = events[e]]
              /\ raced' = raced
    BY Zenon, <1>1 DEF Detect
  <2> QED BY <2>1, <2>2, <2>3
<1>2. ASSUME NEW a \in AlertIds, InsertAlert(t, a)
      PROVE  OneInv'
  <2> DEFINE kind == task[t].kind
             key == task[t].key
  <2>0. About(t, kind, key) /\ kind \in Kinds /\ key \in Keys /\ raced' = raced
    BY <1>0, <1>2 DEF InsertAlert, About, Task, history
  <2>1. /\ alerts'[a].kind = kind /\ alerts'[a].key = key
        /\ \A b \in AlertIds \ {a} : alerts'[b] = alerts[b]
    BY <1>2 DEF InsertAlert, TypeOK
  <2>2. <<kind, key>> \notin raced => NoneActive(kind, key)
    BY <2>0 DEF OneInv, SelectHolds
  <2>3. OneActiveAlertPerMetric'
    BY <2>0, <2>1, <2>2 DEF OneInv, OneActiveAlertPerMetric, NoneActive
  <2>4. task'[t].pc = "find" /\ \A u \in Tasks \ {t} : task'[u] = task[u]
    <3> DEFINE l == [IdleTask EXCEPT !.pc = "find", !.alert = a]
    <3>1. task' = [task EXCEPT ![t] = l] /\ l.pc = "find"
      BY <1>2, EmptyRowTypes DEF InsertAlert, Task
    <3> HIDE DEF l
    <3> QED BY <3>1, Moved
  <2>5. \A u \in Tasks, k \in Kinds, m \in Keys :
            About(u, k, m)' => u # t /\ About(u, k, m)
    BY <2>4 DEF About
  <2>6. \A k \in Kinds, m \in Keys :
            NoneActive(k, m) /\ <<k, m>> # <<kind, key>> => NoneActive(k, m)'
    BY <2>1 DEF NoneActive
  <2>7. SelectHolds'
    <3>1. ASSUME NEW u \in Tasks, NEW k \in Kinds, NEW m \in Keys,
                 About(u, k, m)', <<k, m>> \notin raced
          PROVE  NoneActive(k, m)'
      <4>1. u # t /\ About(u, k, m)
        BY <2>5, <3>1
      <4>2. NoneActive(k, m) /\ <<k, m>> # <<kind, key>>
        BY <2>0, <3>1, <4>1 DEF OneInv, SelectHolds
      <4> QED BY <2>6, <4>2
    <3> QED BY <2>0, <2>5, <3>1 DEF OneInv, SelectHolds
  <2> QED BY <2>3, <2>7 DEF OneInv
<1>3. CASE TouchEvent(t)
  <2>1. /\ task'[t].pc = "idle" /\ UNCHANGED <<alerts, raced>>
        /\ \A u \in Tasks \ {t} : task'[u] = task[u]
    BY <1>3, ToIdle DEF TouchEvent, history
  <2> QED BY <2>1, KeepOne
<1>4. CASE FindEvent(t)
  <2> DEFINE al == task[t].alert
             E == Candidates(alerts[al].key, alerts[al].at - Window)
             Moves == task'[t].pc # "insert" /\ \A u \in Tasks \ {t} : task'[u] = task[u]
  <2>1. UNCHANGED <<alerts, raced>>
    BY Zenon, <1>4 DEF FindEvent
  <2>2. ASSUME NEW st, task' = [task EXCEPT ![t].pc = "open", ![t].alertStatus = st]
        PROVE  Moves
    <3> DEFINE l == [task[t] EXCEPT !.pc = "open", !.alertStatus = st]
    <3>1. task' = [task EXCEPT ![t] = l] /\ l.pc = "open"
      BY <1>0, <2>2 DEF Task
    <3> HIDE DEF l
    <3> QED BY <3>1, Moved
  <2>3. ASSUME NEW e, NEW st,
               task' = [task EXCEPT ![t].pc = "join", ![t].event = e,
                                    ![t].alertStatus = st, ![t].loaded = events[e]]
        PROVE  Moves
    <3> DEFINE l == [task[t] EXCEPT !.pc = "join", !.event = e, !.alertStatus = st,
                                    !.loaded = events[e]]
    <3>1. task' = [task EXCEPT ![t] = l] /\ l.pc = "join"
      BY <1>0, <2>3 DEF Task
    <3> HIDE DEF l
    <3> QED BY <3>1, Moved
  <2>4. \/ task' = [task EXCEPT ![t].pc = "open", ![t].alertStatus = alerts[al].status]
        \/ \E e \in Latest(E) :
              task' = [task EXCEPT ![t].pc = "join", ![t].event = e,
                                   ![t].alertStatus = alerts[al].status,
                                   ![t].loaded = events[e]]
    BY Zenon, <1>4 DEF FindEvent
  <2>5. Moves
    BY <2>2, <2>3, <2>4
  <2> QED BY <2>1, <2>5, KeepOne
<1>5. CASE JoinEvent(t) \/ \E e \in EventIds : OpenEvent(t, e)
  <2>1. /\ task'[t].pc = "idle" /\ raced' = raced
        /\ \A u \in Tasks \ {t} : task'[u] = task[u]
    BY <1>5, ToIdle DEF JoinEvent, OpenEvent, history
  <2>2. \E a, e : alerts' = [alerts EXCEPT ![a].event = e]
    BY <1>5 DEF JoinEvent, OpenEvent
  <2>3. \A b \in AlertIds : /\ alerts'[b].status = alerts[b].status
                            /\ alerts'[b].kind = alerts[b].kind
                            /\ alerts'[b].key = alerts[b].key
    BY <2>2 DEF TypeOK, Alert
  <2> QED BY <2>1, <2>3, KeepOne
<1> QED BY <1>1, <1>2, <1>3, <1>4, <1>5 DEF Collect

LEMMA OthersOne ==
    ASSUME TypeOK, OneInv,
           \/ \E t \in Tasks : Resolve(t)
           \/ User \/ Crash \/ Tick \/ UNCHANGED vars
    PROVE  OneInv'
<1>1. ASSUME NEW t \in Tasks, Resolve(t)
      PROVE  OneInv'
  <2> DEFINE Quiet == task'[t].pc # "insert" /\ \A u \in Tasks \ {t} : task'[u] = task[u]
  <2>1. Quiet
    <3>1. task[t] \in Task
      BY DEF TypeOK
    <3>2. ASSUME NEW a, task' = [task EXCEPT ![t].pc = "check", ![t].alert = a]
          PROVE  Quiet
      <4> DEFINE l == [task[t] EXCEPT !.pc = "check", !.alert = a]
      <4>1. task' = [task EXCEPT ![t] = l] /\ l.pc = "check"
        BY <3>1, <3>2 DEF Task
      <4> HIDE DEF l
      <4> QED BY <4>1, Moved
    <3>3. ASSUME NEW e, task' = [task EXCEPT ![t].pc = "close", ![t].event = e,
                                            ![t].loaded = events[e]]
          PROVE  Quiet
      <4> DEFINE l == [task[t] EXCEPT !.pc = "close", !.event = e, !.loaded = events[e]]
      <4>1. task' = [task EXCEPT ![t] = l] /\ l.pc = "close"
        BY <3>1, <3>3 DEF Task
      <4> HIDE DEF l
      <4> QED BY <4>1, Moved
    <3> QED BY <1>1, <3>2, <3>3, ToIdle DEF Resolve, ResolveAlert, CheckEvent, CloseEvent
  <2>2. \/ UNCHANGED alerts
        \/ \E a \in AlertIds : alerts' = [alerts EXCEPT ![a].status = "resolved"]
    BY <1>1 DEF Resolve, ResolveAlert, CheckEvent, CloseEvent
  <2>3. \A b \in AlertIds : alerts'[b].status = "active" => alerts'[b] = alerts[b]
    BY <2>2 DEF TypeOK, Alert
  <2>4. raced' = raced
    BY <1>1 DEF Resolve, ResolveAlert, CheckEvent, CloseEvent, history
  <2> QED BY <2>1, <2>3, <2>4, KeepOne
<1>2. CASE User
  <2>1. UNCHANGED <<task, raced>>
    BY <1>2 DEF User, AcknowledgeAlert, AcknowledgeEvent, ResolveEvent, history
  <2>2. ASSUME NEW b \in AlertIds, alerts'[b].status = "active"
        PROVE  alerts'[b] = alerts[b]
    <3>1. CASE \E a \in AlertIds : AcknowledgeAlert(a)
      BY <2>2, <3>1 DEF AcknowledgeAlert, TypeOK, Alert
    <3>2. CASE \E e \in EventIds : AcknowledgeEvent(e) \/ ResolveEvent(e)
      BY <2>2, <3>2 DEF AcknowledgeEvent, ResolveEvent, TypeOK, Alert
    <3> QED BY <1>2, <3>1, <3>2 DEF User
  <2> QED BY <2>1, <2>2, KeepOne
<1>3. CASE Crash
  BY <1>3, KeepOne DEF Crash, IdleTask, history
<1>4. CASE Tick \/ UNCHANGED vars
  BY <1>4, KeepOne DEF Tick, vars, history
<1> QED BY <1>1, <1>2, <1>3, <1>4

(* The deduplication by a SELECT before the insert: whatever users resolve or
   acknowledge in between and wherever a restart cuts create_alert off, a metric has
   one active alert of a type at most, unless the scheduled collection and a manual
   refresh, or two of these, had both made the SELECT before either inserted. *)
THEOREM DeduplicationSuffices == Spec => []OneActiveAlertPerMetric
<1>1. Init => OneInv
  BY DEF Init, OneInv, OneActiveAlertPerMetric, SelectHolds, About, NoAlertRow, IdleTask
<1>2. ASSUME TypeOK, OneInv, [Next]_vars
      PROVE  OneInv'
  <2>1. ASSUME NEW t \in Collectors, Collect(t) PROVE OneInv'
    BY <1>2, <2>1, CollectOne DEF Tasks
  <2> QED BY <1>2, <2>1, OthersOne DEF Next
<1>3. OneInv => OneActiveAlertPerMetric
  BY DEF OneInv
<1> QED BY <1>1, <1>2, <1>3, TypeCorrect, PTL DEF Spec
=============================================================================
