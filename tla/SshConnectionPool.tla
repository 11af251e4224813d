-------------------------- MODULE SshConnectionPool --------------------------
(* services/ssh_connection_pool.py: the pool keeps one connection per host and
   one asyncio.Lock per host.  Hosts meet only in the health loop, which copies
   the dictionary and works through the copy, so one host is modelled and the
   loop may pause (in other hosts) between copying and examining it.

   A user is a coroutine inside get_connection or get_collector_connection;
   only collectors respect the back-off.  connect() runs in a thread of the
   executor, which goes on when its coroutine is cancelled.  An action is the code
   between two awaits.  Connection ids are reused once nothing refers to them. *)
EXTENDS Naturals, Sequences

CONSTANTS Conns,        \* identities of SSHConnection objects
          Collectors,   \* coroutines calling get_collector_connection
          Requests,     \* coroutines calling get_connection
          Health,       \* the coroutine of _health_check_loop
          None,
          MaxIdle,      \* max_idle_seconds
          BackoffBase, BackoffMax,
          MaxAbandoned  \* bound on threads connecting for cancelled coroutines

Users == Collectors \cup Requests

ASSUME PoolAssumption ==
    /\ Collectors \cap Requests = {}
    /\ Health \notin Users
    /\ None \notin Conns \cup Users \cup {Health}
    /\ MaxIdle \in Nat
    /\ BackoffBase \in Nat \ {0}
    /\ BackoffMax \in Nat /\ BackoffMax >= BackoffBase
    /\ MaxAbandoned \in Nat

VARIABLES pool,      \* _connections of the host, or None
          open,      \* connections whose client has not been closed
          alive,     \* those of them whose transport is active
          healthy,   \* connections with is_healthy
          age,       \* time since mark_used of those the pool and its loop know
          holder,    \* who holds the lock, or None
          waiters,   \* who waits for it, first come first served
          user,      \* each user's place in the code and its connection
          loop,      \* the same of the health loop
          delay,     \* _failure_states: the delay its failures amount to, 0 if absent
          retryIn,   \* next_retry_at - now
          phase,     \* of start() and stop()
          threads,   \* how many threads are connecting to the host
          abandoned, \* history: how many of them belong to cancelled coroutines
          sinceFail  \* history: time since the last failed attempt

failureVars == <<delay, retryIn, sinceFail>>
connVars == <<open, alive, healthy, age>>
lock == <<holder, waiters>>
work == <<threads, abandoned>>
vars == <<pool, connVars, lock, user, loop, failureVars, phase, work>>

(* asyncio.Lock, which serves its waiters in order *)
Enter(p) ==
    \/ /\ holder = None
       /\ holder' = p
       /\ UNCHANGED waiters
    \/ /\ holder # None
       /\ waiters' = Append(waiters, p)
       /\ UNCHANGED holder

Leave ==
    \/ /\ waiters = <<>>
       /\ holder' = None
       /\ UNCHANGED waiters
    \/ /\ waiters # <<>>
       /\ holder' = Head(waiters)
       /\ waiters' = Tail(waiters)

Abandon(p) ==
    \/ /\ holder = p
       /\ Leave
    \/ \E i \in DOMAIN waiters :
       /\ waiters[i] = p
       /\ waiters' = SubSeq(waiters, 1, i - 1) \o SubSeq(waiters, i + 1, Len(waiters))
       /\ UNCHANGED holder
    \/ /\ holder # p
       /\ \A i \in DOMAIN waiters : waiters[i] # p
       /\ UNCHANGED <<holder, waiters>>

Using(c) == {u \in Users : user[u] = [pc |-> "using", conn |-> c]}
Fresh == {c \in Conns \ open : c # pool /\ loop.conn # c /\ Using(c) = {}}

(* Mutant: the client is dropped with its transport running. *)
CloseKeepsTransport(c) ==
    /\ open' = open \ {c}
    /\ UNCHANGED alive

(* client.close() *)
Close(c) ==
    /\ open' = open \ {c}
    /\ alive' = alive \ {c}

Init ==
    /\ pool = None
    /\ open = {} /\ alive = {} /\ healthy = {}
    /\ age = [c \in Conns |-> 0]
    /\ holder = None /\ waiters = <<>>
    /\ user = [u \in Users |-> [pc |-> "idle", conn |-> None]]
    /\ loop = [pc |-> "sleep", conn |-> None]
    /\ delay = 0 /\ retryIn = 0 /\ sinceFail = 0
    /\ phase = "running"
    /\ threads = 0 /\ abandoned = 0

-----------------------------------------------------------------------------
(* Acquiring and using a connection *)

Goes(u, pc, c) == user' = [user EXCEPT ![u] = [pc |-> pc, conn |-> c]]

(* After stop() get_ssh_pool makes a new pool: this one has no new users. *)
Request(u) ==
    /\ phase # "stopped"
    /\ user[u].pc = "idle"
    /\ Goes(u, "waiting", None)
    /\ Enter(u)
    /\ UNCHANGED <<pool, connVars, loop, failureVars, phase, work>>

Usable == pool # None /\ pool \in healthy

(* The pooled connection is returned as it is if it is marked healthy. *)
Reuse(u) ==
    /\ user[u].pc = "waiting" /\ holder = u
    /\ Usable
    /\ age' = [age EXCEPT ![pool] = 0]
    /\ Goes(u, "using", pool)
    /\ Leave
    /\ UNCHANGED <<pool, open, alive, healthy, loop, failureVars, phase, work>>

(* _check_retry_backoff *)
BackingOff(u) == u \in Collectors /\ delay > 0 /\ retryIn > 0

(* Mutant: the lock is released before the connection is made. *)
ReplaceUnlocked(u) ==
    /\ user[u].pc = "waiting" /\ holder = u
    /\ ~Usable
    /\ Close(pool)
    /\ \/ BackingOff(u) /\ Goes(u, "idle", None) /\ UNCHANGED threads
       \/ ~BackingOff(u) /\ Goes(u, "creating", None) /\ threads' = threads + 1
    /\ Leave
    /\ UNCHANGED <<pool, healthy, age, loop, failureVars, phase, abandoned>>

(* Mutant: the error of the back-off leaves the lock held. *)
ReplaceKeepsLock(u) ==
    /\ user[u].pc = "waiting" /\ holder = u
    /\ ~Usable
    /\ Close(pool)
    /\ \/ BackingOff(u) /\ Goes(u, "idle", None) /\ UNCHANGED threads
       \/ ~BackingOff(u) /\ Goes(u, "creating", None) /\ threads' = threads + 1
    /\ UNCHANGED <<pool, healthy, age, lock, loop, failureVars, phase, abandoned>>

(* An unhealthy connection is closed, and stays in the pool until another
   takes its place; the back-off may end the call here. *)
Replace(u) ==
    /\ user[u].pc = "waiting" /\ holder = u
    /\ ~Usable
    /\ Close(pool)
    /\ \/ /\ BackingOff(u)
          /\ Goes(u, "idle", None)
          /\ Leave
          /\ UNCHANGED threads
       \/ /\ ~BackingOff(u)
          /\ Goes(u, "creating", None)
          /\ threads' = threads + 1
          /\ UNCHANGED lock
    /\ UNCHANGED <<pool, healthy, age, loop, failureVars, phase, abandoned>>

(* creator() has returned a connection. *)
Created(u) ==
    /\ user[u].pc = "creating" /\ holder = u
    /\ \E c \in Fresh :
       /\ pool' = c
       /\ open' = open \cup {c}
       /\ alive' = alive \cup {c}
       /\ healthy' = healthy \cup {c}
       /\ age' = [age EXCEPT ![c] = 0]
       /\ Goes(u, "using", c)
    /\ delay' = 0 /\ retryIn' = 0
    /\ threads' = threads - 1
    /\ Leave
    /\ UNCHANGED <<loop, sinceFail, phase, abandoned>>

(* min(max, base * 2 ** (failures - 1)): each further failure doubles it. *)
NextDelay ==
    LET d == IF delay = 0 THEN BackoffBase ELSE 2 * delay
    IN IF d < BackoffMax THEN d ELSE BackoffMax

(* Mutant: a failure during the back-off does not move its end. *)
CreateFailedKeepsDeadline(u) ==
    /\ user[u].pc = "creating" /\ holder = u
    /\ delay' = NextDelay
    /\ retryIn' = IF retryIn > 0 THEN retryIn ELSE NextDelay
    /\ sinceFail' = 0
    /\ threads' = threads - 1
    /\ Goes(u, "idle", None)
    /\ Leave
    /\ UNCHANGED <<pool, connVars, loop, phase, abandoned>>

(* creator() has returned None: _record_connection_failure and ConnectionError *)
CreateFailed(u) ==
    /\ user[u].pc = "creating" /\ holder = u
    /\ delay' = NextDelay
    /\ retryIn' = NextDelay
    /\ sinceFail' = 0
    /\ threads' = threads - 1
    /\ Goes(u, "idle", None)
    /\ Leave
    /\ UNCHANGED <<pool, connVars, loop, phase, abandoned>>

(* The coroutine is cancelled while it waits for the lock or for creator(): no
   handler catches it and the lock is released.  If its thread is already
   connecting, the thread goes on. *)
Cancel(u) ==
    /\ \/ /\ user[u].pc = "waiting"
          /\ UNCHANGED work
       \/ /\ user[u].pc = "creating"
          /\ \/ threads' = threads - 1 /\ UNCHANGED abandoned
             \/ abandoned < MaxAbandoned /\ abandoned' = abandoned + 1 /\ UNCHANGED threads
    /\ Goes(u, "idle", None)
    /\ Abandon(u)
    /\ UNCHANGED <<pool, connVars, loop, failureVars, phase>>

(* Such a thread has connected or failed: nobody takes what it has made, closes
   it or records the failure. *)
AbandonedEnds ==
    /\ abandoned > 0
    /\ abandoned' = abandoned - 1
    /\ threads' = threads - 1
    /\ UNCHANGED <<pool, connVars, lock, user, loop, failureVars, phase>>

(* _yield_connection: an exception marks the user's connection, which need not
   be the pooled one any more. *)
Release(u) ==
    /\ user[u].pc = "using"
    /\ \/ UNCHANGED healthy
       \/ healthy' = healthy \ {user[u].conn}
    /\ Goes(u, "idle", None)
    /\ UNCHANGED <<pool, open, alive, age, lock, loop, failureVars, phase, work>>

-----------------------------------------------------------------------------
(* _health_check_loop *)

At(pc, c) == loop' = [pc |-> pc, conn |-> c]

CopyConnections ==
    /\ loop.pc = "sleep"
    /\ pool # None
    /\ At("examine", pool)
    /\ UNCHANGED <<pool, connVars, lock, user, failureVars, phase, work>>

IsExpired(c) == age[c] > MaxIdle

Examine ==
    /\ loop.pc = "examine"
    /\ \/ /\ IsExpired(loop.conn)
          /\ At("lock", loop.conn)
          /\ Enter(Health)
       \/ /\ ~IsExpired(loop.conn)
          /\ At("probe", loop.conn)
          /\ UNCHANGED lock
    /\ UNCHANGED <<pool, connVars, user, failureVars, phase, work>>

(* Mutant: the closed connection stays in the pool. *)
CloseExpiredKept ==
    /\ loop.pc = "lock" /\ holder = Health
    /\ Close(loop.conn)
    /\ Leave
    /\ At("sleep", None)
    /\ UNCHANGED <<pool, healthy, age, user, failureVars, phase, work>>

(* The copied connection is closed and the pooled one removed, whether or not
   they are still the same. *)
CloseExpired ==
    /\ loop.pc = "lock" /\ holder = Health
    /\ Close(loop.conn)
    /\ pool' = None
    /\ Leave
    /\ At("sleep", None)
    /\ UNCHANGED <<healthy, age, user, failureVars, phase, work>>

(* _check_connection_health *)
Probe ==
    /\ loop.pc = "probe"
    /\ healthy' = IF loop.conn \in alive THEN healthy ELSE healthy \ {loop.conn}
    /\ At("sleep", None)
    /\ UNCHANGED <<pool, open, alive, age, lock, user, failureVars, phase, work>>

-----------------------------------------------------------------------------
(* stop(): the health loop ends at its await, then everything is closed. *)
StopLoop ==
    /\ phase = "running"
    /\ phase' = "stopping"
    /\ At("done", None)
    /\ Abandon(Health)
    /\ UNCHANGED <<pool, connVars, user, failureVars, work>>

CloseAll ==
    /\ phase = "stopping"
    /\ phase' = "stopped"
    /\ Close(pool)
    /\ pool' = None
    /\ delay' = 0 /\ retryIn' = 0
    /\ UNCHANGED <<healthy, age, lock, user, loop, sinceFail, work>>

(* The remote side or the network ends a transport. *)
Break(c) ==
    /\ c \in alive
    /\ alive' = alive \ {c}
    /\ UNCHANGED <<pool, open, healthy, age, lock, user, loop, failureVars, phase, work>>

Tick ==
    /\ age' = [c \in Conns |-> IF c \notin {pool, loop.conn} THEN 0
                              ELSE IF age[c] > MaxIdle THEN age[c] ELSE age[c] + 1]
    /\ retryIn' = IF retryIn > 0 THEN retryIn - 1 ELSE 0
    /\ sinceFail' = IF sinceFail < BackoffMax THEN sinceFail + 1 ELSE sinceFail
    /\ UNCHANGED <<pool, open, alive, healthy, lock, user, loop, delay, phase, work>>

Acquire(u) == Reuse(u) \/ Replace(u) \/ Created(u) \/ CreateFailed(u)

Next ==
    \/ \E u \in Users : Request(u) \/ Acquire(u) \/ Cancel(u) \/ Release(u)
    \/ AbandonedEnds
    \/ CopyConnections \/ Examine \/ CloseExpired \/ Probe
    \/ StopLoop \/ CloseAll
    \/ \E c \in Conns : Break(c)
    \/ Tick

(* The event loop runs every ready coroutine, and a connection attempt ends by
   its own timeouts.  Nothing is assumed of users, hosts or stop(). *)
Fairness ==
    /\ \A u \in Users : WF_vars(Acquire(u))
    /\ WF_vars(CloseExpired)

Spec == Init /\ [][Next]_vars
FairSpec == Spec /\ Fairness

-----------------------------------------------------------------------------
Places == [pc : {"idle", "waiting", "creating"}, conn : {None}]
          \cup [pc : {"using"}, conn : Conns]
LoopPlaces == [pc : {"sleep", "done"}, conn : {None}]
              \cup [pc : {"examine", "lock", "probe"}, conn : Conns]

TypeOK ==
    /\ pool \in Conns \cup {None}
    /\ open \subseteq Conns /\ alive \subseteq open /\ healthy \subseteq Conns
    /\ age \in [Conns -> 0..MaxIdle + 1]
    /\ holder \in Users \cup {Health, None}
    /\ waiters \in Seq(Users \cup {Health})
    /\ user \in [Users -> Places]
    /\ loop \in LoopPlaces
    /\ delay \in 0..BackoffMax
    /\ retryIn \in 0..BackoffMax
    /\ sinceFail \in 0..BackoffMax
    /\ phase \in {"running", "stopping", "stopped"}
    /\ abandoned \in 0..MaxAbandoned /\ threads \in Nat

(* A connection the pool would hand out is one it has not closed: no order of
   expiry, replacement, failure and stop leaves a closed one marked healthy. *)
PooledIsOpen == Usable => pool \in open

(* The lock admits one attempt at a time: of the threads connecting to the host
   all but one belong to coroutines that were cancelled while they connected,
   whoever fails, waits or is cancelled while it waits. *)
OneAttempt == threads <= abandoned + 1

(* A collector starts an attempt only when the whole delay of the consecutive
   failures so far has passed since the last of them, also if it waited for the
   lock meanwhile or operators' requests failed in between. *)
CollectorsBackOff ==
    [][\A u \in Collectors :
        user[u].pc # "creating" /\ user'[u].pc = "creating"
            => sinceFail >= delay]_vars

(* Every call that waits for the lock gets a connection or an error. *)
AcquireReturns ==
    \A u \in Users :
        user[u].pc \in {"waiting", "creating"} ~> user[u].pc \in {"idle", "using"}
==============================================================================
