----------------------- MODULE SshConnectionPoolProofs -----------------------
(* Safety of the SSH connection pool, for any number of users and connections
   and any idle time and back-off.  The proofs need no property of the lock's
   queue but that a lock is passed on only by its holder. *)
EXTENDS SshConnectionPool, TLAPS

USE PoolAssumption DEF PoolAssumption

Typed ==
    /\ pool \in Conns \cup {None}
    /\ user \in [Users -> Places]
    /\ loop \in LoopPlaces
    /\ delay \in 0..BackoffMax
    /\ retryIn \in Nat
    /\ sinceFail \in 0..BackoffMax

(* Whoever is connecting holds the lock. *)
CreatorHoldsLock == \A u \in Users : user[u].pc = "creating" => holder = u

(* Of the delay of the last failure what is left is not yet over. *)
DelayAccounted == retryIn + sinceFail >= delay

IInv == Typed /\ CreatorHoldsLock /\ PooledIsOpen /\ DelayAccounted

LEMMA InitEstablishes == Init => IInv
BY DEF Init, IInv, Typed, Places, LoopPlaces, CreatorHoldsLock, PooledIsOpen, Usable, DelayAccounted, Users

LEMMA NextDelayTyped == Typed => NextDelay \in 0..BackoffMax
BY DEF Typed, NextDelay

(* The steps of users, the health loop, stop() and the environment keep it. *)
LEMMA UserSteps ==
    ASSUME IInv, NEW u \in Users,
           Request(u) \/ Acquire(u) \/ Cancel(u) \/ Release(u)
    PROVE  IInv'
<1> USE DEF IInv
<1>1. CASE Request(u)
  <2>1. Typed' BY <1>1 DEF Request, Typed, Places, Goes, connVars, failureVars
  <2>2. CreatorHoldsLock'
    <3> SUFFICES ASSUME NEW v \in Users, user'[v].pc = "creating" PROVE holder' = v
      BY DEF CreatorHoldsLock
    <3>1. user[v].pc = "creating" /\ v # u BY <1>1 DEF Request, Goes, Typed, Places
    <3>2. holder = v BY <3>1 DEF CreatorHoldsLock
    <3> QED BY <3>2, <1>1 DEF Request, Enter, Users
  <2>3. PooledIsOpen' /\ DelayAccounted'
    BY <1>1 DEF Request, PooledIsOpen, Usable, DelayAccounted, connVars, failureVars
  <2> QED BY <2>1, <2>2, <2>3
<1>2. CASE Reuse(u)
  <2>1. Typed' BY <1>2 DEF Reuse, Usable, Typed, Places, Goes, failureVars
  <2>2. CreatorHoldsLock'
    BY <1>2 DEF Reuse, Goes, Typed, Places, CreatorHoldsLock
  <2>3. PooledIsOpen' /\ DelayAccounted'
    BY <1>2 DEF Reuse, PooledIsOpen, Usable, DelayAccounted, failureVars
  <2> QED BY <2>1, <2>2, <2>3
<1>3. CASE Replace(u)
  <2>1. Typed' BY <1>3 DEF Replace, Typed, Places, Goes, failureVars
  <2>2. CreatorHoldsLock'
    BY <1>3 DEF Replace, Goes, Typed, Places, CreatorHoldsLock, lock
  <2>3. PooledIsOpen' /\ DelayAccounted'
    BY <1>3 DEF Replace, PooledIsOpen, Usable, DelayAccounted, failureVars
  <2> QED BY <2>1, <2>2, <2>3
<1>4. CASE Created(u)
  <2>0. PICK c \in Fresh :
          /\ pool' = c /\ open' = open \cup {c} /\ Goes(u, "using", c)
    BY <1>4 DEF Created
  <2>1. Typed' BY <2>0, <1>4 DEF Created, Fresh, Typed, Places, Goes
  <2>2. CreatorHoldsLock'
    BY <2>0, <1>4 DEF Created, Goes, Typed, Places, CreatorHoldsLock
  <2>3. PooledIsOpen' BY <2>0 DEF PooledIsOpen
  <2>4. DelayAccounted' BY <1>4 DEF Created, Typed, DelayAccounted
  <2> QED BY <2>1, <2>2, <2>3, <2>4
<1>5. CASE CreateFailed(u)
  <2>1. Typed' BY <1>5, NextDelayTyped DEF CreateFailed, Typed, Places, Goes
  <2>2. CreatorHoldsLock'
    BY <1>5 DEF CreateFailed, Goes, Typed, Places, CreatorHoldsLock
  <2>3. PooledIsOpen' BY <1>5 DEF CreateFailed, PooledIsOpen, Usable, connVars
  <2>4. DelayAccounted' BY <1>5, NextDelayTyped DEF CreateFailed, DelayAccounted
  <2> QED BY <2>1, <2>2, <2>3, <2>4
<1>6. CASE Cancel(u)
  <2>1. Typed' BY <1>6 DEF Cancel, Typed, Places, Goes, failureVars
  <2>2. CreatorHoldsLock'
    BY <1>6 DEF Cancel, Goes, Typed, Places, CreatorHoldsLock, Abandon
  <2>3. PooledIsOpen' /\ DelayAccounted'
    BY <1>6 DEF Cancel, PooledIsOpen, Usable, DelayAccounted, connVars, failureVars
  <2> QED BY <2>1, <2>2, <2>3
<1>7. CASE Release(u)
  <2>1. Typed' BY <1>7 DEF Release, Typed, Places, Goes, failureVars
  <2>2. CreatorHoldsLock'
    BY <1>7 DEF Release, Goes, Typed, Places, CreatorHoldsLock, lock
  <2>3. PooledIsOpen' /\ DelayAccounted'
    BY <1>7 DEF Release, PooledIsOpen, Usable, DelayAccounted, failureVars
  <2> QED BY <2>1, <2>2, <2>3
<1> QED BY <1>1, <1>2, <1>3, <1>4, <1>5, <1>6, <1>7 DEF Acquire

LEMMA LoopSteps ==
    ASSUME IInv, CopyConnections \/ Examine \/ CloseExpired \/ Probe
    PROVE  IInv'
<1> USE DEF IInv
<1>1. CASE CopyConnections
  BY <1>1 DEF CopyConnections, At, Typed, LoopPlaces, CreatorHoldsLock, PooledIsOpen, Usable,
              DelayAccounted, connVars, failureVars, lock
<1>2. CASE Examine
  <2>1. Typed' /\ PooledIsOpen' /\ DelayAccounted'
    BY <1>2 DEF Examine, At, Typed, LoopPlaces, PooledIsOpen, Usable, DelayAccounted, connVars, failureVars
  <2>2. CreatorHoldsLock'
    BY <1>2 DEF Examine, Enter, lock, CreatorHoldsLock, Users
  <2> QED BY <2>1, <2>2
<1>3. CASE CloseExpired
  <2>1. Typed' /\ PooledIsOpen' /\ DelayAccounted'
    BY <1>3 DEF CloseExpired, At, Typed, LoopPlaces, PooledIsOpen, Usable, DelayAccounted, failureVars
  <2>2. CreatorHoldsLock'
    BY <1>3 DEF CloseExpired, CreatorHoldsLock
  <2> QED BY <2>1, <2>2
<1>4. CASE Probe
  BY <1>4 DEF Probe, At, Typed, LoopPlaces, CreatorHoldsLock, PooledIsOpen, Usable,
              DelayAccounted, failureVars, lock
<1> QED BY <1>1, <1>2, <1>3, <1>4

LEMMA OtherSteps ==
    ASSUME IInv,
           \/ StopLoop \/ CloseAll \/ Tick \/ AbandonedEnds
           \/ \E c \in Conns : Break(c)
    PROVE  IInv'
<1> USE DEF IInv
<1>1. CASE StopLoop
  <2>1. Typed' /\ PooledIsOpen' /\ DelayAccounted'
    BY <1>1 DEF StopLoop, At, Typed, LoopPlaces, PooledIsOpen, Usable, DelayAccounted, connVars, failureVars
  <2>2. CreatorHoldsLock'
    BY <1>1 DEF StopLoop, Abandon, CreatorHoldsLock
  <2> QED BY <2>1, <2>2
<1>2. CASE CloseAll
  BY <1>2 DEF CloseAll, Typed, CreatorHoldsLock, PooledIsOpen, Usable, DelayAccounted, lock
<1>3. CASE Tick
  <2>1. Typed' /\ DelayAccounted' BY <1>3 DEF Tick, Typed, DelayAccounted
  <2>2. CreatorHoldsLock' /\ PooledIsOpen'
    BY <1>3 DEF Tick, CreatorHoldsLock, PooledIsOpen, Usable, lock
  <2> QED BY <2>1, <2>2
<1>4. CASE \E c \in Conns : Break(c)
  BY <1>4 DEF Break, Typed, CreatorHoldsLock, PooledIsOpen, Usable,
              DelayAccounted, failureVars, lock
<1>5. CASE AbandonedEnds
  BY <1>5 DEF AbandonedEnds, Typed, CreatorHoldsLock, PooledIsOpen, Usable,
              DelayAccounted, failureVars, connVars, lock
<1> QED BY <1>1, <1>2, <1>3, <1>4, <1>5

LEMMA StepPreserves == IInv /\ [Next]_vars => IInv'
<1> SUFFICES ASSUME IInv, [Next]_vars PROVE IInv' OBVIOUS
<1>1. CASE Next BY <1>1, UserSteps, LoopSteps, OtherSteps DEF Next
<1>2. CASE UNCHANGED vars
  BY <1>2 DEF vars, connVars, failureVars, lock, IInv, Typed, CreatorHoldsLock,
              PooledIsOpen, Usable, DelayAccounted
<1> QED BY <1>1, <1>2

LEMMA Invariance == Spec => []IInv
BY InitEstablishes, StepPreserves, PTL DEF Spec

(* _acquire_connection never hands out a connection that the pool has closed,
   whatever the health loop, failing users and stop() do meanwhile. *)
THEOREM HandsOutOpenConnections == Spec => []PooledIsOpen
<1>1. IInv => PooledIsOpen BY DEF IInv
<1> QED BY <1>1, Invariance, PTL

(* The threads connecting to the host are those of cancelled coroutines and, if a
   coroutine is connecting, its own. *)
Connecting(u) == user[u].pc = "creating"

ThreadsAccounted ==
    /\ abandoned \in 0..MaxAbandoned
    /\ (\E u \in Users : Connecting(u)) => threads = abandoned + 1
    /\ (\A u \in Users : ~Connecting(u)) => threads = abandoned

(* A step in which no coroutine begins or ends to connect. *)
LEMMA SameThreads ==
    ASSUME ThreadsAccounted, UNCHANGED work,
           \A u \in Users : Connecting(u)' <=> Connecting(u)
    PROVE  ThreadsAccounted'
BY DEF ThreadsAccounted, work

LEMMA ThreadsStep ==
    ASSUME IInv, ThreadsAccounted, [Next]_vars
    PROVE  ThreadsAccounted'
<1> USE DEF IInv, Typed
<1>1. ASSUME NEW u \in Users, NEW pc, NEW c, Goes(u, pc, c)
      PROVE  /\ Connecting(u)' <=> pc = "creating"
             /\ \A v \in Users \ {u} : Connecting(v)' <=> Connecting(v)
  BY <1>1 DEF Goes, Connecting
<1>2. ASSUME NEW u \in Users, Connecting(u)
      PROVE  \A v \in Users \ {u} : ~Connecting(v)
  BY <1>2 DEF CreatorHoldsLock, Connecting
<1>3. ASSUME NEW u \in Users, Request(u) \/ Reuse(u) \/ Release(u)
      PROVE  ThreadsAccounted'
  <2>1. ~Connecting(u)
    BY <1>3 DEF Request, Reuse, Release, Connecting
  <2>2. UNCHANGED work /\ \E pc \in {"waiting", "using", "idle"} : \E c : Goes(u, pc, c)
    BY <1>3 DEF Request, Reuse, Release
  <2>3. \A v \in Users : Connecting(v)' <=> Connecting(v)
    BY <1>1, <2>1, <2>2
  <2> QED BY <2>2, <2>3, SameThreads
<1>4. ASSUME NEW u \in Users, Replace(u)
      PROVE  ThreadsAccounted'
  <2>1. ~Connecting(u) /\ holder = u /\ UNCHANGED abandoned
    BY <1>4 DEF Replace, Connecting
  <2>2. \A v \in Users : ~Connecting(v)
    BY <2>1 DEF CreatorHoldsLock, Connecting
  <2>3. CASE Goes(u, "idle", None) /\ UNCHANGED threads
    <3>1. \A v \in Users : Connecting(v)' <=> Connecting(v)
      BY <1>1, <2>1, <2>3
    <3> QED BY <2>1, <2>3, <3>1, SameThreads DEF work
  <2>4. CASE Goes(u, "creating", None) /\ threads' = threads + 1
    <3>1. Connecting(u)'
      BY <1>1, <2>4
    <3> QED BY <2>1, <2>2, <2>4, <3>1 DEF ThreadsAccounted
  <2> QED BY <1>4, <2>3, <2>4 DEF Replace
<1>5. ASSUME NEW u \in Users, Created(u) \/ CreateFailed(u)
      PROVE  ThreadsAccounted'
  <2>1. /\ Connecting(u) /\ threads' = threads - 1 /\ UNCHANGED abandoned
        /\ \E pc \in {"using", "idle"} : \E c : Goes(u, pc, c)
    BY <1>5 DEF Created, CreateFailed, Connecting
  <2>2. \A v \in Users : ~Connecting(v)'
    BY <1>1, <1>2, <2>1
  <2> QED BY <2>1, <2>2 DEF ThreadsAccounted
<1>6. ASSUME NEW u \in Users, Cancel(u)
      PROVE  ThreadsAccounted'
  <2>1. Goes(u, "idle", None)
    BY <1>6 DEF Cancel
  <2>2. CASE ~Connecting(u)
    <3>1. UNCHANGED work
      BY <1>6, <2>2 DEF Cancel, Connecting
    <3>2. \A v \in Users : Connecting(v)' <=> Connecting(v)
      BY <1>1, <2>1, <2>2
    <3> QED BY <3>1, <3>2, SameThreads
  <2>3. CASE Connecting(u)
    <3>1. \A v \in Users : ~Connecting(v)'
      BY <1>1, <1>2, <2>1, <2>3
    <3>2. \/ threads' = threads - 1 /\ UNCHANGED abandoned
          \/ abandoned < MaxAbandoned /\ abandoned' = abandoned + 1 /\ UNCHANGED threads
      BY <1>6, <2>3 DEF Cancel, Connecting
    <3> QED BY <2>3, <3>1, <3>2 DEF ThreadsAccounted
  <2> QED BY <2>2, <2>3
<1>7. CASE AbandonedEnds
  <2>1. \A v \in Users : Connecting(v)' <=> Connecting(v)
    BY <1>7 DEF AbandonedEnds, Connecting
  <2> QED BY <1>7, <2>1 DEF AbandonedEnds, ThreadsAccounted
<1>8. CASE \/ CopyConnections \/ Examine \/ CloseExpired \/ Probe
           \/ StopLoop \/ CloseAll \/ Tick \/ (\E c \in Conns : Break(c)) \/ UNCHANGED vars
  <2>1. UNCHANGED <<user, threads, abandoned>>
    BY <1>8 DEF CopyConnections, Examine, CloseExpired, Probe, StopLoop, CloseAll, Tick, Break,
                vars, work
  <2>2. \A v \in Users : Connecting(v)' <=> Connecting(v)
    BY <2>1 DEF Connecting
  <2> QED BY <2>1, <2>2, SameThreads DEF work
<1> QED BY <1>3, <1>4, <1>5, <1>6, <1>7, <1>8 DEF Next, Acquire

LEMMA ThreadsInvariance == Spec => []ThreadsAccounted
<1>1. Init => ThreadsAccounted
  BY DEF Init, ThreadsAccounted, Connecting
<1> QED BY <1>1, ThreadsStep, Invariance, PTL DEF Spec

(* The lock of a host admits one connection attempt at a time; a thread connects
   beside it only if its coroutine was cancelled while it connected. *)
THEOREM AttemptsAreSerial == Spec => []OneAttempt
<1>1. ThreadsAccounted => OneAttempt
  BY DEF ThreadsAccounted, OneAttempt
<1> QED BY <1>1, ThreadsInvariance, PTL

(* _check_retry_backoff under the lock: no collector connects before the delay
   of the last failure is over, whichever user caused the failure. *)
THEOREM BackoffRespected == Spec => CollectorsBackOff
<1> DEFINE Waits == \A u \in Collectors :
        user[u].pc # "creating" /\ user'[u].pc = "creating" => sinceFail >= delay
<1>1. ASSUME IInv, Next PROVE Waits
  <2> SUFFICES ASSUME NEW u \in Collectors,
                      user[u].pc # "creating", user'[u].pc = "creating"
               PROVE  sinceFail >= delay
    OBVIOUS
  <2>0. u \in Users /\ Typed BY <1>1 DEF Users, IInv
  <2>1. Replace(u) /\ ~BackingOff(u)
    <3>1. CASE \E v \in Users : Request(v) \/ Acquire(v) \/ Cancel(v) \/ Release(v)
      BY <3>1, <2>0 DEF Request, Acquire, Reuse, Replace, Created, CreateFailed,
                        Cancel, Release, Goes, Typed, Places
    <3>2. CASE UNCHANGED user BY <3>2
    <3>3. (\E v \in Users : Request(v) \/ Acquire(v) \/ Cancel(v) \/ Release(v)) \/ UNCHANGED user
      BY <1>1 DEF Next, CopyConnections, Examine, CloseExpired, Probe, StopLoop,
                  CloseAll, Break, Tick, AbandonedEnds
    <3> QED BY <3>1, <3>2, <3>3
  <2>2. retryIn = 0 \/ delay = 0 BY <2>0, <2>1 DEF BackingOff, Typed
  <2> QED BY <1>1, <2>0, <2>2 DEF IInv, DelayAccounted, Typed
<1>2. IInv /\ [Next]_vars => [Waits]_vars BY <1>1
<1> QED BY <1>2, Invariance, PTL DEF Spec, CollectorsBackOff
-----------------------------------------------------------------------------
(* What the other theorems do not need: the types of the connections, the lock's
   queue and the clocks. *)
Procs == Users \cup {Health}

LockTyped == holder \in Procs \cup {None} /\ waiters \in Seq(Procs)

ConnsTyped ==
    /\ open \subseteq Conns /\ alive \subseteq open /\ healthy \subseteq Conns
    /\ age \in [Conns -> 0..MaxIdle + 1]

RestTyped == /\ retryIn \in 0..BackoffMax
             /\ phase \in {"running", "stopping", "stopped"}

(* asyncio.Lock: whoever enters, leaves or gives up, the queue holds coroutines. *)
LEMMA LockSteps ==
    ASSUME LockTyped, NEW p \in Procs, Enter(p) \/ Leave \/ Abandon(p) \/ UNCHANGED lock
    PROVE  LockTyped'
<1> USE DEF LockTyped
<1>1. CASE Enter(p)
  BY <1>1 DEF Enter
<1>2. Leave => LockTyped'
  BY DEF Leave
<1>3. CASE Abandon(p)
  <2>1. CASE \E i \in DOMAIN waiters :
               /\ waiters' = SubSeq(waiters, 1, i - 1) \o SubSeq(waiters, i + 1, Len(waiters))
               /\ UNCHANGED holder
    BY <2>1
  <2> QED BY <1>2, <1>3, <2>1 DEF Abandon
<1>4. CASE UNCHANGED lock
  BY <1>4 DEF lock
<1> QED BY <1>1, <1>2, <1>3, <1>4

(* Every step of a coroutine of the pool keeps the lock's types. *)
LEMMA LockStaysTyped ==
    ASSUME IInv, LockTyped, [Next]_vars
    PROVE  LockTyped'
<1>1. \A p \in Procs : Enter(p) \/ Leave \/ Abandon(p) \/ UNCHANGED lock => LockTyped'
  BY LockSteps
<1>2. Health \in Procs /\ Users \subseteq Procs
  BY DEF Procs
<1>3. ASSUME NEW u \in Users, Request(u) \/ Acquire(u) \/ Cancel(u) \/ Release(u)
      PROVE  LockTyped'
  BY <1>1, <1>2, <1>3 DEF Request, Acquire, Reuse, Replace, Created, CreateFailed, Cancel, Release
<1>4. CASE CopyConnections \/ Examine \/ CloseExpired \/ Probe
  BY <1>1, <1>2, <1>4 DEF CopyConnections, Examine, CloseExpired, Probe
<1>5. CASE \/ StopLoop \/ CloseAll \/ Tick \/ AbandonedEnds
           \/ (\E c \in Conns : Break(c)) \/ UNCHANGED vars
  BY <1>1, <1>2, <1>5 DEF StopLoop, CloseAll, Tick, AbandonedEnds, Break, vars, lock
<1> QED BY <1>3, <1>4, <1>5 DEF Next

LEMMA CloseTyped ==
    ASSUME ConnsTyped, NEW c, Close(c)
    PROVE  open' \subseteq Conns /\ alive' \subseteq open'
BY DEF ConnsTyped, Close

LEMMA ConnsStayTyped ==
    ASSUME IInv, ConnsTyped, [Next]_vars
    PROVE  ConnsTyped'
<1> USE DEF IInv, Typed
<1>1. ASSUME NEW u \in Users, Request(u) \/ Acquire(u) \/ Cancel(u) \/ Release(u)
      PROVE  ConnsTyped'
  <2>1. CASE Request(u) \/ CreateFailed(u) \/ Cancel(u)
    BY <2>1 DEF Request, CreateFailed, Cancel, connVars, ConnsTyped
  <2>2. CASE Reuse(u)
    BY <2>2 DEF Reuse, Usable, ConnsTyped
  <2>3. CASE Replace(u)
    BY <2>3, CloseTyped DEF Replace, ConnsTyped
  <2>4. CASE Created(u)
    <3>1. PICK c \in Fresh : /\ open' = open \cup {c} /\ alive' = alive \cup {c}
                             /\ healthy' = healthy \cup {c} /\ age' = [age EXCEPT ![c] = 0]
      BY <2>4 DEF Created
    <3>2. c \in Conns
      BY DEF Fresh
    <3> QED BY <3>1, <3>2 DEF ConnsTyped
  <2>5. CASE Release(u)
    BY <2>5 DEF Release, ConnsTyped
  <2> QED BY <1>1, <2>1, <2>2, <2>3, <2>4, <2>5 DEF Acquire
<1>2. CASE CopyConnections \/ Examine
  BY <1>2 DEF CopyConnections, Examine, connVars, ConnsTyped
<1>3. CASE CloseExpired
  BY <1>3, CloseTyped DEF CloseExpired, ConnsTyped
<1>4. CASE Probe
  BY <1>4 DEF Probe, ConnsTyped
<1>5. CASE StopLoop \/ AbandonedEnds \/ UNCHANGED vars
  BY <1>5 DEF StopLoop, AbandonedEnds, vars, connVars, ConnsTyped
<1>6. CASE CloseAll
  BY <1>6, CloseTyped DEF CloseAll, ConnsTyped
<1>7. CASE \E c \in Conns : Break(c)
  BY <1>7 DEF Break, ConnsTyped
<1>8. CASE Tick
  <2>1. \A c \in Conns : (IF c \notin {pool, loop.conn} THEN 0
                          ELSE IF age[c] > MaxIdle THEN age[c] ELSE age[c] + 1) \in 0..MaxIdle + 1
    BY DEF ConnsTyped
  <2> QED BY <1>8, <2>1 DEF Tick, ConnsTyped
<1> QED BY <1>1, <1>2, <1>3, <1>4, <1>5, <1>6, <1>7, <1>8 DEF Next

LEMMA RestStaysTyped ==
    ASSUME IInv, RestTyped, [Next]_vars
    PROVE  RestTyped'
<1> USE DEF IInv, RestTyped
<1>1. ASSUME NEW u \in Users, Request(u) \/ Acquire(u) \/ Cancel(u) \/ Release(u)
      PROVE  RestTyped'
  BY <1>1, NextDelayTyped DEF Request, Acquire, Reuse, Replace, Created, CreateFailed, Cancel,
                              Release, failureVars
<1>2. CASE CopyConnections \/ Examine \/ CloseExpired \/ Probe
  BY <1>2 DEF CopyConnections, Examine, CloseExpired, Probe, failureVars
<1>3. CASE \/ StopLoop \/ CloseAll \/ Tick \/ AbandonedEnds
           \/ (\E c \in Conns : Break(c)) \/ UNCHANGED vars
  BY <1>3 DEF StopLoop, CloseAll, Tick, AbandonedEnds, Break, vars, failureVars
<1> QED BY <1>1, <1>2, <1>3 DEF Next

(* The pool's dictionaries, the lock with its queue, and the coroutines' places
   stay well-typed. *)
THEOREM PoolTyped == Spec => []TypeOK
<1>1. Init => LockTyped /\ ConnsTyped /\ RestTyped
  BY DEF Init, LockTyped, ConnsTyped, RestTyped
<1>2. ASSUME IInv, LockTyped, ConnsTyped, RestTyped, [Next]_vars
      PROVE  LockTyped' /\ ConnsTyped' /\ RestTyped'
  BY <1>2, LockStaysTyped, ConnsStayTyped, RestStaysTyped
<1>3. IInv /\ ThreadsAccounted /\ LockTyped /\ ConnsTyped /\ RestTyped => TypeOK
  BY DEF IInv, Typed, ThreadsAccounted, LockTyped, ConnsTyped, RestTyped, TypeOK, Procs
<1> QED BY <1>1, <1>2, <1>3, Invariance, ThreadsInvariance, PTL DEF Spec
==============================================================================
