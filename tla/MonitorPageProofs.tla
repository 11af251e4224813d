-------------------------- MODULE MonitorPageProofs --------------------------
(* Proofs about MonitorPage for any datasources, windows, ranges, bounds and
   number of reconnections.  First the feed of the page (FeedInv: what the user
   is told about it); then sorting by time (ByTimeOrders); then, one part of the
   invariant after the other, what waits in the sockets (InboxesTrue), the calls
   in flight (CallsInv), what is drawn (ChartInv, CardInv) and what the newest
   call will bring back (PendingKeeps); last the theorems. *)
EXTENDS MonitorPage, FiniteSetTheorems, WellFoundedInduction, TLAPS

USE MonitorAssumption, ReconnectAssumption DEF MonitorAssumption, ReconnectAssumption

Manager == [url : [conn : Datasources, version : 0..MaxVersions],
            sock : SocketStates, shouldReconnect : BOOLEAN,
            reconnectAttempts : 0..MaxReconnectAttempts,
            timer : BOOLEAN, inbox : Seq(Points)]

(* The feed of the page: the part of the state that decides on its messages *)
FeedTyped ==
    /\ managers \in Seq(Manager)
    /\ stored \in Seq(Datasources) /\ Len(stored) <= MaxSamples
    /\ selected \in Datasources
    /\ version \in 0..MaxVersions
    /\ ws \in 0..Len(managers)

(* As long as the page is live, its manager is the one of the selection shown,
   so that its handlers are heard. *)
FeedIsCurrent ==
    mounted /\ isRealtime =>
        ws # 0 /\ managers[ws].url = [conn |-> selected, version |-> version]

FeedInv == FeedTyped /\ FeedIsCurrent /\ LossIsVisible

-----------------------------------------------------------------------------
LEMMA EmptyInbox == <<>> \in Seq(Points)
OBVIOUS

LEMMA NewTyped ==
    ASSUME NEW ms \in Seq(Manager), NEW url \in [conn : Datasources, version : 0..MaxVersions]
    PROVE  /\ New(ms, url) \in Seq(Manager)
           /\ Len(New(ms, url)) = Len(ms) + 1
           /\ New(ms, url)[Len(ms) + 1].url = url
           /\ New(ms, url)[Len(ms) + 1].sock = "connecting"
<1> DEFINE m == [url |-> url, sock |-> "connecting", shouldReconnect |-> TRUE,
                 reconnectAttempts |-> 0, timer |-> FALSE, inbox |-> <<>>]
<1>1. m \in Manager /\ m.url = url /\ m.sock = "connecting"
  BY EmptyInbox DEF Manager, SocketStates
<1>2. New(ms, url) = Append(ms, m)
  BY DEF New
<1> HIDE DEF m
<1> QED BY <1>1, <1>2

LEMMA DisconnectTyped ==
    ASSUME NEW ms \in Seq(Manager), NEW m \in 0..Len(ms)
    PROVE  Disconnect(ms, m) \in Seq(Manager) /\ Len(Disconnect(ms, m)) = Len(ms)
<1>1. CASE m = 0
  BY <1>1 DEF Disconnect
<1>2. CASE m # 0
  <2> DEFINE r == [ms[m] EXCEPT !.shouldReconnect = FALSE, !.sock = "none", !.inbox = <<>>]
  <2>1. ms[m] \in Manager
    BY <1>2
  <2>2. r \in Manager
    BY <2>1, EmptyInbox DEF Manager, SocketStates
  <2>3. Disconnect(ms, m) = [ms EXCEPT ![m] = r]
    BY <1>2 DEF Disconnect
  <2> HIDE DEF r
  <2> QED BY <1>2, <2>2, <2>3
<1> QED BY <1>1, <1>2

(* Starting the feed for the selection that the step shows. *)
LEMMA Starts ==
    ASSUME FeedTyped, StartMonitoring(selected', version'), UNCHANGED stored,
           selected' \in Datasources, version' \in 0..MaxVersions
    PROVE  FeedInv'
<1>1. Disconnect(managers, ws) \in Seq(Manager) /\ Len(Disconnect(managers, ws)) = Len(managers)
  BY DisconnectTyped DEF FeedTyped
<1>0. [conn |-> selected', version |-> version'] \in [conn : Datasources, version : 0..MaxVersions]
  OBVIOUS
<1>2. /\ managers' \in Seq(Manager) /\ Len(managers') = Len(managers) + 1
      /\ ws' = Len(managers')
      /\ managers'[ws'].url = [conn |-> selected', version |-> version']
      /\ managers'[ws'].sock = "connecting"
  BY <1>0, <1>1, NewTyped DEF StartMonitoring
<1>3. ws' \in 1..Len(managers')
  BY <1>2 DEF FeedTyped
<1> QED BY <1>2, <1>3 DEF FeedInv, FeedTyped, FeedIsCurrent, LossIsVisible

(* Stopping it, in a page that is no longer live or no longer there. *)
LEMMA Stops ==
    ASSUME FeedTyped, StopMonitoring, UNCHANGED stored,
           selected' \in Datasources, version' \in 0..MaxVersions,
           ~(mounted' /\ isRealtime')
    PROVE  FeedInv'
<1>1. managers' \in Seq(Manager) /\ ws' = 0
  BY DisconnectTyped DEF StopMonitoring, FeedTyped
<1>2. ws' \in 0..Len(managers')
  BY <1>1
<1> QED BY <1>1, <1>2 DEF FeedInv, FeedTyped, FeedIsCurrent, LossIsVisible

(* A step that leaves the feed alone and forgets no loss. *)
LEMMA Keeps ==
    ASSUME FeedInv, UNCHANGED <<managers, stored, selected, version, ws>>,
           mounted' => mounted,
           isRealtime' => isRealtime,
           "socket" \in status => "socket" \in status'
    PROVE  FeedInv'
BY DEF FeedInv, FeedTyped, FeedIsCurrent, LossIsVisible

(* The event of a socket: the record of one manager changes, its URL does not. *)
LEMMA SocketEvent ==
    ASSUME FeedInv, UNCHANGED <<stored, selected, version, ws, mounted, isRealtime>>,
           NEW m \in 1..Len(managers), NEW r \in Manager,
           managers' = [managers EXCEPT ![m] = r],
           r.url = managers[m].url,
           mounted /\ isRealtime /\ managers'[ws].sock = "closed" => "socket" \in status'
    PROVE  FeedInv'
<1>1. managers' \in Seq(Manager) /\ Len(managers') = Len(managers)
  BY DEF FeedInv, FeedTyped
<1>2. ws # 0 => managers'[ws].url = managers[ws].url
  BY DEF FeedInv, FeedTyped
<1> QED BY <1>1, <1>2 DEF FeedInv, FeedTyped, FeedIsCurrent, LossIsVisible

-----------------------------------------------------------------------------
LEMMA InitFeed == Init => FeedInv
<1>1. Init => FeedTyped
  BY DEF Init, FeedTyped
<1> QED BY <1>1 DEF Init, FeedInv, FeedIsCurrent, LossIsVisible

(* A new selection, live or not. *)
LEMMA ReloadFeed ==
    ASSUME FeedInv, NEW realtime, ReloadData(selected', realtime),
           selected' \in Datasources, UNCHANGED stored, isRealtime' => realtime
    PROVE  FeedInv'
<1>1. version' \in 0..MaxVersions /\ version' = version + 1
  BY DEF ReloadData, FeedInv, FeedTyped
<1>2. CASE realtime
  BY <1>1, <1>2, Starts DEF ReloadData, FeedInv
<1>3. CASE ~realtime
  BY <1>1, <1>3, Stops DEF ReloadData, FeedInv
<1> QED BY <1>2, <1>3

(* What the retry button starts is the feed of what the page shows. *)
LEMMA RestartFeed ==
    ASSUME FeedInv, NEW new, Restart(new), "socket" \in status => "socket" \in new,
           UNCHANGED <<stored, mounted, selected, version, isRealtime>>
    PROVE  FeedInv'
<1>1. CASE StartMonitoring(selected, version)
  <2>1. StartMonitoring(selected', version')
    BY <1>1
  <2> QED BY <2>1, Starts DEF FeedInv, FeedTyped
<1>2. CASE UNCHANGED <<managers, ws>> /\ status' = new
  BY <1>2, Keeps
<1> QED BY <1>1, <1>2 DEF Restart

LEMMA UserFeed ==
    ASSUME FeedInv, User
    PROVE  FeedInv'
<1> USE DEF FeedInv
<1>1. ASSUME NEW d \in Datasources, Render(d) PROVE FeedInv'
  <2>1. selected' = d /\ version' = version + 1 /\ version' \in 0..MaxVersions
    BY <1>1 DEF Render, FeedTyped
  <2> QED BY <1>1, <2>1, Starts DEF Render
<1>2. ASSUME NEW d \in Datasources, SelectDatasource(d) PROVE FeedInv'
  BY <1>2, ReloadFeed DEF SelectDatasource
<1>3. CASE Cleanup
  <2>1. version' \in 0..MaxVersions
    BY <1>3 DEF Cleanup, FeedTyped
  <2> QED BY <1>3, <2>1, Stops DEF Cleanup, FeedTyped
<1>4. CASE SelectTimeRange \/ ResumeRealtime
  <2>1. ReloadData(selected', TRUE) /\ selected' \in Datasources /\ UNCHANGED stored
    BY <1>4 DEF SelectTimeRange, ResumeRealtime, FeedTyped
  <2> QED BY <2>1, ReloadFeed
<1>5. CASE PauseRealtime
  BY <1>5, Stops DEF PauseRealtime, FeedTyped
<1>6. CASE Refresh
  BY <1>6, Keeps DEF Refresh, ClickRefresh
<1>7. CASE Retry
  BY <1>7, Keeps DEF Retry
<1>8. ASSUME NEW r \in Ranges, LoadCustomRange(r) PROVE FeedInv'
  BY <1>8, Stops DEF LoadCustomRange, FeedTyped
<1>9. CASE RetryRefresh
  <2>1. /\ Restart(status \ {"refresh"})
        /\ UNCHANGED <<stored, mounted, selected, version, isRealtime>>
    BY <1>9 DEF RetryRefresh, ClickRefresh
  <2> QED BY <2>1, RestartFeed
<1> QED BY <1>1, <1>2, <1>3, <1>4, <1>5, <1>6, <1>7, <1>8, <1>9 DEF User

LEMMA RetryFeed ==
    ASSUME FeedInv, NEW c, NEW new, AfterRetry(c, new), "socket" \in status => "socket" \in new,
           UNCHANGED <<stored, mounted, selected, version, isRealtime>>
    PROVE  FeedInv'
<1>1. CASE Restart(new)
  BY <1>1, RestartFeed
<1>2. CASE UNCHANGED <<managers, ws>> /\ status' = new
  BY <1>2, Keeps
<1> QED BY <1>1, <1>2 DEF AfterRetry

LEMMA HistoryKeepsLoss ==
    ASSUME NEW c, NEW answer
    PROVE  "socket" \in status => "socket" \in HistoryStatus(c, answer)
BY DEF HistoryStatus

LEMMA ReturnsFeed ==
    ASSUME FeedInv, NEW c, NEW answer, Returns(c, answer)
    PROVE  FeedInv'
<1>1. CASE LatestReturns(c, answer)
  <2>1. PICK new : /\ AfterRetry(c, new)
                   /\ new \in {status, status \ {"latest"}, status \cup {"latest"}}
    BY <1>1 DEF LatestReturns
  <2> QED BY <1>1, <2>1, RetryFeed DEF LatestReturns
<1>2. CASE HistoryReturns(c, answer)
  BY <1>2, RetryFeed, HistoryKeepsLoss DEF HistoryReturns
<1>3. CASE CustomReturns(c, answer)
  <2> DEFINE undo == ~(answer.ok /\ Fresh(c)) /\ IsCurrent(c.conn, c.version)
  <2>1. /\ UNCHANGED <<stored, mounted, selected, version>>
        /\ isRealtime' = IF undo THEN c.wasRealtime ELSE isRealtime
        /\ IF undo /\ c.wasRealtime THEN StartMonitoring(c.conn, version)
                                    ELSE UNCHANGED <<managers, ws>>
        /\ status' = HistoryStatus(c, answer) \ (IF undo /\ c.wasRealtime THEN {"socket"} ELSE {})
    BY <1>3 DEF CustomReturns
  <2>2. CASE undo /\ c.wasRealtime
    <3>1. c.conn = selected
      BY <2>2 DEF IsCurrent
    <3>2. StartMonitoring(selected', version')
      BY <2>1, <2>2, <3>1
    <3> QED BY <2>1, <3>2, Starts DEF FeedInv, FeedTyped
  <2>3. CASE ~(undo /\ c.wasRealtime)
    <3>1. isRealtime' => isRealtime
      BY <2>1, <2>3
    <3> QED BY <2>1, <2>3, <3>1, HistoryKeepsLoss, Keeps
  <2> HIDE DEF undo
  <2> QED BY <2>2, <2>3
<1>4. CASE RefreshReturns(c, answer)
  BY <1>4, Keeps DEF RefreshReturns
<1> QED BY <1>1, <1>2, <1>3, <1>4 DEF Returns

-----------------------------------------------------------------------------
(* The handlers of the page's own manager are heard while the page is live. *)
LEMMA Heard ==
    ASSUME FeedInv, mounted, isRealtime
    PROVE  ws # 0 /\ Listening(ws)
BY DEF FeedInv, FeedIsCurrent, Listening, IsCurrent

LEMMA SocketFeed ==
    ASSUME FeedInv, NEW m \in DOMAIN managers,
           SocketOpens(m) \/ SocketCloses(m) \/ TimerFires(m) \/ PacketArrives(m)
    PROVE  FeedInv'
<1>1. m \in 1..Len(managers) /\ managers[m] \in Manager
  BY DEF FeedInv, FeedTyped
<1>2. CASE SocketOpens(m)
  <2>1. Greeting(Len(stored)) \in Points
    BY DEF Greeting, Points, FeedInv, FeedTyped
  <2> DEFINE first == <<Greeting(Len(stored))>>
  <2>2. first \in Seq(Points)
    BY <2>1
  <2> HIDE DEF first
  <2> DEFINE r == [managers[m] EXCEPT !.sock = "open", !.reconnectAttempts = 0, !.inbox = first]
  <2>3. r \in Manager /\ r.url = managers[m].url /\ r.sock = "open"
    <3>1. 0 \in 0..MaxReconnectAttempts /\ "open" \in SocketStates
      BY DEF SocketStates
    <3> QED BY <1>1, <2>2, <3>1 DEF Manager
  <2>4. managers' = [managers EXCEPT ![m] = r]
    BY <1>2 DEF SocketOpens, Opened, first
  <2>5. UNCHANGED <<stored, selected, version, ws, mounted, isRealtime>>
    BY <1>2 DEF SocketOpens, pageVars
  <2> HIDE DEF r
  <2>6. ASSUME mounted, isRealtime, managers'[ws].sock = "closed"
        PROVE  "socket" \in status'
    <3>1. ws # 0 /\ ws # m /\ managers'[ws] = managers[ws]
      BY <1>1, <2>3, <2>4, <2>6, Heard DEF FeedInv, FeedTyped
    <3>2. status' = status
      BY <1>2, <3>1 DEF SocketOpens, Listening
    <3> QED BY <2>6, <3>1, <3>2 DEF FeedInv, LossIsVisible
  <2> QED BY <1>1, <2>3, <2>4, <2>5, <2>6, SocketEvent
<1>3. CASE SocketCloses(m)
  <2> DEFINE again == /\ managers[m].shouldReconnect
                      /\ managers[m].reconnectAttempts < MaxReconnectAttempts
             r == [managers[m] EXCEPT
                     !.sock = "closed", !.inbox = <<>>,
                     !.reconnectAttempts = IF again THEN @ + 1 ELSE @,
                     !.timer = again]
  <2>1. again \in BOOLEAN
    OBVIOUS
  <2>2. (IF again THEN managers[m].reconnectAttempts + 1 ELSE managers[m].reconnectAttempts)
             \in 0..MaxReconnectAttempts
    BY <1>1 DEF Manager
  <2>3. managers' = [managers EXCEPT ![m] = r]
    BY <1>3 DEF SocketCloses, Closed
  <2> HIDE DEF again
  <2>4. r \in Manager /\ r.url = managers[m].url
    BY <1>1, <2>1, <2>2, EmptyInbox DEF Manager, SocketStates
  <2>5. UNCHANGED <<stored, selected, version, ws, mounted, isRealtime>>
    BY <1>3 DEF SocketCloses, pageVars
  <2> HIDE DEF r
  <2>6. ASSUME mounted, isRealtime, managers'[ws].sock = "closed"
        PROVE  "socket" \in status'
    <3>1. ws # 0 /\ Listening(ws)
      BY <2>6, Heard
    <3>2. CASE ws = m
      BY <1>3, <3>1, <3>2 DEF SocketCloses
    <3>3. CASE ws # m
      <4>1. managers'[ws] = managers[ws]
        BY <1>1, <2>3, <3>1, <3>3 DEF FeedInv, FeedTyped
      <4>2. "socket" \in status
        BY <2>6, <4>1 DEF FeedInv, LossIsVisible
      <4> QED BY <1>3, <4>2 DEF SocketCloses
    <3> QED BY <3>2, <3>3
  <2> QED BY <1>1, <2>3, <2>4, <2>5, <2>6, SocketEvent
<1>4. CASE TimerFires(m)
  <2> DEFINE r == [managers[m] EXCEPT !.timer = FALSE,
                                      !.sock = IF Live(m) THEN @ ELSE "connecting"]
  <2>1. r \in Manager /\ r.url = managers[m].url /\ r.sock # "closed"
    BY <1>1 DEF Manager, SocketStates, Live
  <2>2. managers' = [managers EXCEPT ![m] = r]
    BY <1>4 DEF TimerFires, Reconnect
  <2>3. UNCHANGED <<stored, selected, version, ws, mounted, isRealtime, status>>
    BY <1>4 DEF TimerFires, pageVars
  <2> HIDE DEF r
  <2>4. ASSUME mounted, isRealtime, managers'[ws].sock = "closed"
        PROVE  "socket" \in status'
    <3>1. ws # 0 /\ ws # m /\ managers'[ws] = managers[ws]
      BY <1>1, <2>1, <2>2, <2>4, Heard DEF FeedInv, FeedTyped
    <3> QED BY <2>3, <2>4, <3>1 DEF FeedInv, LossIsVisible
  <2> QED BY <1>1, <2>1, <2>2, <2>3, <2>4, SocketEvent
<1>5. CASE PacketArrives(m)
  <2> DEFINE r == [managers[m] EXCEPT !.inbox = Tail(@)]
  <2>1. Tail(managers[m].inbox) \in Seq(Points)
    <3>1. managers[m].inbox \in Seq(Points) /\ managers[m].inbox # <<>>
      BY <1>1, <1>5 DEF PacketArrives, Manager
    <3> QED BY <3>1
  <2>2. managers[m].sock = "open"
    BY <1>5 DEF PacketArrives, MessageArrives, Received
  <2>3. r \in Manager /\ r.url = managers[m].url /\ r.sock = "open"
    BY <1>1, <2>1, <2>2 DEF Manager
  <2>4. managers' = [managers EXCEPT ![m] = r]
    BY <1>5 DEF PacketArrives, MessageArrives, Received
  <2>5. UNCHANGED <<stored, selected, version, ws, mounted, isRealtime>>
    BY <1>5 DEF PacketArrives, MessageArrives, pageVars
  <2>6. ws # m /\ "socket" \in status => "socket" \in status'
    BY <1>5 DEF PacketArrives, MessageArrives, Listening
  <2> HIDE DEF r
  <2>7. ASSUME mounted, isRealtime, managers'[ws].sock = "closed"
        PROVE  "socket" \in status'
    <3>1. ws # 0 /\ ws # m /\ managers'[ws] = managers[ws]
      BY <1>1, <2>3, <2>4, <2>7, Heard DEF FeedInv, FeedTyped
    <3> QED BY <2>6, <2>7, <3>1 DEF FeedInv, LossIsVisible
  <2> QED BY <1>1, <2>3, <2>4, <2>5, <2>7, SocketEvent
<1> QED BY <1>2, <1>3, <1>4, <1>5

LEMMA CollectFeed ==
    ASSUME FeedInv, NEW d \in Datasources, Collect(d)
    PROVE  FeedInv'
<1> DEFINE k == Len(stored) + 1
           p == [id |-> k, at |-> IF d \in Integrated THEN 2 * k ELSE 2 * k + 1]
           push(m) == IF managers[m].sock = "open" /\ managers[m].url.conn = d
                      THEN [managers[m] EXCEPT !.inbox = Append(@, p)]
                      ELSE managers[m]
<1>1. /\ managers \in Seq(Manager) /\ ws \in 0..Len(managers)
      /\ stored \in Seq(Datasources) /\ Len(stored) < MaxSamples
  BY DEF FeedInv, FeedTyped, Collect
<1>2. p \in Points
  BY <1>1 DEF Points
<1>3. managers' = [m \in DOMAIN managers |-> push(m)]
  BY DEF Collect
<1> HIDE DEF p
<1>4. ASSUME NEW m \in DOMAIN managers
      PROVE  push(m) \in Manager /\ push(m).url = managers[m].url /\ push(m).sock = managers[m].sock
  <2>1. managers[m] \in Manager
    BY <1>1
  <2>2. Append(managers[m].inbox, p) \in Seq(Points)
    BY <1>2, <2>1 DEF Manager
  <2> DEFINE q == Append(managers[m].inbox, p)
  <2> HIDE DEF q
  <2>3. q \in Seq(Points)
    BY <2>2 DEF q
  <2>4. push(m) = IF managers[m].sock = "open" /\ managers[m].url.conn = d
                  THEN [managers[m] EXCEPT !.inbox = q] ELSE managers[m]
    BY DEF q
  <2> HIDE DEF push
  <2> QED BY <2>1, <2>3, <2>4 DEF Manager
<1> HIDE DEF push
<1>5. /\ managers' \in Seq(Manager) /\ Len(managers') = Len(managers)
      /\ \A m \in 1..Len(managers) : managers'[m] = push(m)
  <2>1. DOMAIN managers = 1..Len(managers) /\ Len(managers) \in Nat
    BY <1>1
  <2>2. \A m \in 1..Len(managers) : push(m) \in Manager
    BY <2>1, <1>4
  <2>3. managers' = [m \in 1..Len(managers) |-> push(m)]
    BY <1>3, <2>1
  <2>4. managers' \in [1..Len(managers) -> Manager]
    BY <2>2, <2>3
  <2> QED BY <2>1, <2>3, <2>4
<1>6. stored' \in Seq(Datasources) /\ Len(stored') <= MaxSamples
  BY <1>1 DEF Collect
<1>7. UNCHANGED <<mounted, selected, version, isRealtime, ws, status>>
  BY DEF Collect, pageVars
<1>8. ws # 0 => managers'[ws].url = managers[ws].url /\ managers'[ws].sock = managers[ws].sock
  BY <1>1, <1>4, <1>5
<1>9. FeedTyped'
  BY <1>1, <1>5, <1>6, <1>7 DEF FeedInv, FeedTyped
<1> QED BY <1>7, <1>8, <1>9 DEF FeedInv, FeedIsCurrent, LossIsVisible

LEMMA StepFeed ==
    ASSUME FeedInv, [Next]_vars
    PROVE  FeedInv'
<1>1. CASE Works
  BY <1>1, CollectFeed, ReturnsFeed, SocketFeed DEF Works
<1>2. CASE Fails
  BY <1>2, ReturnsFeed, SocketFeed DEF Fails
<1>3. CASE UNCHANGED vars
  BY <1>3, Keeps DEF vars, pageVars
<1> QED BY <1>1, <1>2, <1>3, UserFeed DEF Next

(* monitor.js: whatever is selected, paused, refreshed and retried, and however
   often sockets close and managers that were let go connect again, a page that
   says it is live shows the loss of its feed from the moment the socket closes
   until it is open again or the user has it started anew. *)
THEOREM LossIsShown == Spec => []LossIsVisible
<1>1. FeedInv => LossIsVisible
  BY DEF FeedInv
<1> QED BY <1>1, InitFeed, StepFeed, PTL DEF Spec

-----------------------------------------------------------------------------
(* No two of the points have the same time. *)
Distinct(points) == \A p, q \in points : p.at = q.at => p = q

(* The functions that number a set of points in the order of their times *)
Orders(points) ==
    {s \in [1..Cardinality(points) -> points] :
        \A i, j \in DOMAIN s : i < j => s[i].at < s[j].at}

(* A finite set of points has one that is the latest. *)
LEMMA HasLatest ==
    ASSUME NEW S \in SUBSET Points, S # {}
    PROVE  \E p \in S : \A q \in S : q.at <= p.at
<1> DEFINE U == {u \in Nat : \A q \in S : q.at <= u}
<1>1. \A p \in S : p.at \in Nat /\ p.at <= 2 * MaxSamples + 1
  BY DEF Points
<1>2. 2 * MaxSamples + 1 \in U
  BY <1>1
<1>3. PICK u \in U : \A y \in U : ~(<<y, u>> \in OpToRel(<, Nat))
  <2>1. U \subseteq Nat /\ U # {}
    BY <1>2
  <2> HIDE DEF U
  <2> QED BY <2>1, NatLessThanWellFounded, WFMin
<1>4. \A y \in U : ~(y < u)
  BY <1>3 DEF OpToRel
<1>5. CASE \E p \in S : p.at = u
  BY <1>5
<1>6. CASE \A p \in S : p.at # u
  <2>1. u # 0
    BY <1>1, <1>6
  <2>2. u - 1 \in U
    BY <1>1, <1>6, <2>1
  <2> QED BY <1>4, <2>2
<1> QED BY <1>5, <1>6

LEMMA PointsFinite ==
    ASSUME NEW S \in SUBSET Points, Distinct(S)
    PROVE  IsFiniteSet(S) /\ Cardinality(S) \in Nat
<1> DEFINE f == [p \in S |-> p.at]
<1>1. f \in [S -> 0..(2 * MaxSamples + 1)]
  BY DEF Points
<1>2. f \in Injection(S, 0..(2 * MaxSamples + 1))
  BY <1>1 DEF Injection, IsInjective, Distinct, Points
<1>3. IsFiniteSet(0..(2 * MaxSamples + 1))
  BY FS_Interval
<1> HIDE DEF f
<1> QED BY <1>2, <1>3, FS_Injection, FS_CardinalityType

LEMMA CanBeOrdered ==
    ASSUME NEW S \in SUBSET Points, Distinct(S)
    PROVE  Orders(S) # {}
<1> DEFINE Bad(n) == \E R \in SUBSET Points : /\ Distinct(R) /\ Orders(R) = {}
                                              /\ Cardinality(R) = n
           T == {n \in Nat : Bad(n)}
<1>1. SUFFICES ASSUME Orders(S) = {} PROVE FALSE
  OBVIOUS
<1>2. T \subseteq Nat /\ T # {}
  BY <1>1, PointsFinite
<1>3. PICK n \in T : \A m \in T : ~(<<m, n>> \in OpToRel(<, Nat))
  <2> HIDE DEF T
  <2> QED BY <1>2, NatLessThanWellFounded, WFMin
<1>4. n \in Nat /\ \A m \in T : ~(m < n)
  BY <1>3 DEF OpToRel
<1>5. PICK R \in SUBSET Points : Distinct(R) /\ Orders(R) = {} /\ Cardinality(R) = n
  BY <1>3
<1>6. IsFiniteSet(R)
  BY <1>5, PointsFinite
<1>7. R # {}
  <2>1. SUFFICES ASSUME R = {} PROVE FALSE
    OBVIOUS
  <2>2. Cardinality(R) = 0 /\ 1..0 = {}
    BY <2>1, FS_EmptySet
  <2>3. [i \in 1..0 |-> i] \in Orders(R)
    BY <2>2 DEF Orders
  <2> QED BY <1>5, <2>3
<1>8. PICK p \in R : \A q \in R : q.at <= p.at
  BY <1>7, HasLatest
<1> DEFINE Q == R \ {p}
<1>9. /\ Q \in SUBSET Points /\ Distinct(Q)
      /\ n # 0 /\ n - 1 \in Nat /\ Cardinality(Q) = n - 1
  <2>1. Q \in SUBSET Points /\ Distinct(Q)
    BY <1>5 DEF Distinct
  <2>2. n # 0
    BY <1>5, <1>6, <1>7, FS_EmptySet
  <2>3. Cardinality(Q) = n - 1
    BY <1>5, <1>6, FS_RemoveElement
  <2> QED BY <1>4, <2>1, <2>2, <2>3
<1>10. PICK t : t \in Orders(Q)
  BY <1>4, <1>9
<1>11. /\ t \in [1..(n - 1) -> Q]
       /\ \A i, j \in 1..(n - 1) : i < j => t[i].at < t[j].at
  BY <1>9, <1>10 DEF Orders
<1>12. \A q \in Q : q \in R /\ q.at < p.at
  BY <1>5, <1>8 DEF Points, Distinct
<1> DEFINE s == [i \in 1..n |-> IF i = n THEN p ELSE t[i]]
<1> HIDE DEF Q
<1>13. \A i \in 1..n : i # n => i \in 1..(n - 1) /\ t[i] \in Q
  BY <1>4, <1>11
<1>14. s \in [1..n -> R]
  BY <1>12, <1>13
<1>15. ASSUME NEW i \in 1..n, NEW j \in 1..n, i < j
       PROVE  s[i].at < s[j].at
  <2>1. i # n /\ i \in 1..(n - 1) /\ s[i] = t[i]
    BY <1>4, <1>15
  <2>2. CASE j = n
    BY <1>12, <1>13, <2>1, <2>2
  <2>3. CASE j # n
    BY <1>11, <1>13, <1>15, <2>1, <2>3
  <2> QED BY <2>2, <2>3
<1>16. s \in Orders(R)
  <2> HIDE DEF s
  <2> QED BY <1>5, <1>14, <1>15 DEF Orders
<1> QED BY <1>5, <1>16

LEMMA ByTimeOrders ==
    ASSUME NEW S \in SUBSET Points, Distinct(S)
    PROVE  /\ ByTime(S) \in Seq(Points)
           /\ \A i, j \in DOMAIN ByTime(S) : i < j => ByTime(S)[i].at < ByTime(S)[j].at
           /\ \A i \in DOMAIN ByTime(S) : ByTime(S)[i] \in S
           /\ \A p \in S : \E i \in DOMAIN ByTime(S) : ByTime(S)[i] = p
<1> DEFINE n == Cardinality(S)
<1>1. ByTime(S) \in Orders(S)
  BY CanBeOrdered DEF ByTime, Orders
<1>2. IsFiniteSet(S) /\ n \in Nat
  BY PointsFinite
<1> DEFINE s == ByTime(S)
<1>3. s \in [1..n -> S] /\ \A i, j \in 1..n : i < j => s[i].at < s[j].at
  BY <1>1 DEF Orders
<1> HIDE DEF s
<1>4. s \in Seq(Points)
  BY <1>2, <1>3
<1>5. s \in Injection(1..n, S)
  <2>1. ASSUME NEW i \in 1..n, NEW j \in 1..n, s[i] = s[j]
        PROVE  i = j
    <3>1. s[i].at \in Nat
      BY <1>3 DEF Points
    <3>2. ~(i < j) /\ ~(j < i)
      BY <1>3, <2>1, <3>1
    <3> QED BY <1>2, <3>2
  <2> QED BY <1>3, <2>1 DEF Injection, IsInjective
<1>6. IsFiniteSet(1..n) /\ Cardinality(1..n) = n
  <2>1. n \in Nat /\ 1 \in Nat /\ n - 1 + 1 = n /\ (1 > n => n = 0)
    BY <1>2
  <2> HIDE DEF n
  <2> QED BY ONLY <2>1, FS_Interval
<1>7. s \in Surjection(1..n, S)
  <2> HIDE DEF n
  <2>1. n = Cardinality(S)
    BY DEF n
  <2> QED BY <1>2, <1>5, <1>6, <2>1, FS_Injection
<1>8. \A p \in S : \E i \in 1..n : s[i] = p
  BY <1>7 DEF Surjection
<1> QED BY <1>3, <1>4, <1>8 DEF s

-----------------------------------------------------------------------------

(* The points that samples of d become, in an answer or in a packet, once `st`
   is stored; and what may wait in a socket that listens to d. *)
SamplesOf(st, d) ==
    {p \in Points : /\ p.id \in 1..Len(st) /\ st[p.id] = d
                    /\ p.at \in {2 * p.id, 2 * p.id + 1}
                    /\ d \in Integrated => p.at = 2 * p.id}

PacketsOf(st, d) == SamplesOf(st, d) \cup {p \in Points : p.id = 0 /\ p.at <= Len(st)}

Extends(st, old) ==
    /\ st \in Seq(Datasources) /\ old \in Seq(Datasources)
    /\ Len(old) <= Len(st)
    /\ \A k \in 1..Len(old) : st[k] = old[k]

LEMMA SamplesStay ==
    ASSUME NEW st, NEW old, Extends(st, old), NEW d
    PROVE  SamplesOf(old, d) \subseteq SamplesOf(st, d) /\ PacketsOf(old, d) \subseteq PacketsOf(st, d)
<1>1. SamplesOf(old, d) \subseteq SamplesOf(st, d)
  BY DEF Extends, SamplesOf
<1> QED BY <1>1 DEF Extends, PacketsOf, Points

LEMMA Halves ==
    ASSUME NEW i \in Nat, NEW j \in Nat, NEW a \in Nat,
           a = 2 * i \/ a = 2 * i + 1, a = 2 * j \/ a = 2 * j + 1
    PROVE  i = j
OBVIOUS

LEMMA SamplesDistinct ==
    ASSUME NEW st \in Seq(Datasources), NEW d
    PROVE  Distinct(SamplesOf(st, d)) /\ SamplesOf(st, d) \subseteq Points
<1>1. ASSUME NEW p \in SamplesOf(st, d), NEW q \in SamplesOf(st, d), p.at = q.at
      PROVE  p = q
  <2>1. p \in Points /\ q \in Points /\ p.id \in Nat /\ q.id \in Nat
    BY DEF SamplesOf, Points
  <2>2. p.at \in {2 * p.id, 2 * p.id + 1} /\ q.at \in {2 * q.id, 2 * q.id + 1}
    BY DEF SamplesOf
  <2>3. p.at \in Nat
    BY <2>1 DEF Points
  <2>4. p.id = q.id
    BY <1>1, <2>1, <2>2, <2>3, Halves
  <2> QED BY <1>1, <2>1, <2>4 DEF Points
<1> QED BY <1>1 DEF Distinct, SamplesOf

LEMMA SeqStay ==
    ASSUME NEW S, NEW T, S \subseteq T, NEW s \in Seq(S)
    PROVE  s \in Seq(T)
OBVIOUS

(* What an answer of the API holds. *)
LEMMA PointOfSample ==
    ASSUME NEW st \in Seq(Datasources), Len(st) <= MaxSamples, NEW k \in 1..Len(st)
    PROVE  Point(k) \in SamplesOf(st, st[k]) /\ Point(k).id = k /\ Point(k).at = 2 * k
BY DEF Point, SamplesOf, Points

LEMMA LatestTrue ==
    ASSUME stored \in Seq(Datasources), Len(stored) <= MaxSamples, NEW d,
           NEW n \in 0..Len(stored)
    PROVE  Latest(d, n) \subseteq SamplesOf(stored, d)
<1>1. \A k \in Samples(d, n) : Point(k) \in SamplesOf(stored, d)
  BY PointOfSample DEF Samples
<1> QED BY <1>1 DEF Latest

(* The newest entries of a sequence *)
LEMMA LastEntries ==
    ASSUME NEW S, NEW s \in Seq(S), NEW n \in Nat
    PROVE  /\ LastOf(s, n) \in Seq(S)
           /\ Len(LastOf(s, n)) = IF Len(s) > n THEN n ELSE Len(s)
           /\ \A i \in DOMAIN LastOf(s, n) :
                  /\ Len(s) - Len(LastOf(s, n)) + i \in DOMAIN s
                  /\ LastOf(s, n)[i] = s[Len(s) - Len(LastOf(s, n)) + i]
           /\ \A j \in DOMAIN s : j + n > Len(s) =>
                  \E i \in DOMAIN LastOf(s, n) : LastOf(s, n)[i] = s[j]
<1> DEFINE first == IF Len(s) > n THEN Len(s) - n + 1 ELSE 1
           t == SubSeq(s, first, Len(s))
<1>1. /\ Len(s) \in Nat /\ first \in 1..(Len(s) + 1)
      /\ Len(s) - first + 1 = IF Len(s) > n THEN n ELSE Len(s)
  OBVIOUS
<1>2. LastOf(s, n) = t
  BY DEF LastOf
<1> HIDE DEF first
<1>3. /\ t \in Seq(S) /\ Len(t) = Len(s) - first + 1
      /\ \A i \in 1..Len(t) : t[i] = s[first + i - 1]
  BY <1>1
<1> HIDE DEF t
<1>4. ASSUME NEW j \in DOMAIN s, j + n > Len(s)
      PROVE  \E i \in DOMAIN t : t[i] = s[j]
  <2>1. j \in 1..Len(s) /\ j >= first
    BY <1>1, <1>4 DEF first
  <2>2. PICK i \in Int : i = j - first + 1
    BY <1>1, <2>1
  <2>3. i \in 1..Len(t) /\ first + i - 1 = j
    BY <1>1, <1>3, <2>1, <2>2
  <2>4. t[i] = s[first + i - 1]
    BY <1>3, <2>3
  <2> QED BY <1>3, <2>3, <2>4
<1>5. ASSUME NEW i \in DOMAIN t
      PROVE  Len(s) - Len(t) + i \in DOMAIN s /\ t[i] = s[Len(s) - Len(t) + i]
  <2>1. i \in 1..Len(t) /\ i \in Int /\ first \in Int /\ first >= 1
    BY <1>1, <1>3
  <2>2. Len(s) - Len(t) + i = first + i - 1
    BY <1>1, <1>3, <2>1
  <2>3. first + i - 1 \in DOMAIN s
    BY <1>1, <1>3, <2>1
  <2>4. t[i] = s[first + i - 1]
    BY <1>3, <2>1
  <2> QED BY <2>2, <2>3, <2>4
<1> QED BY <1>1, <1>2, <1>3, <1>4, <1>5

Ordered(s) == \A i, j \in DOMAIN s : i < j => s[i].at < s[j].at

(* A sequence of points in order stays so when the oldest are left out, and those
   that are left out are older than as many as it may hold. *)
IsTail(t, s, S, n) ==
    /\ t \in Seq(S) /\ Len(t) <= n
    /\ Ordered(t)
    /\ t = <<>> <=> s = <<>>
    /\ s # <<>> => Last(t) = Last(s)
    /\ \A i \in DOMAIN t : \E j \in DOMAIN s : t[i] = s[j]
    /\ \A j \in DOMAIN s : \/ \E i \in DOMAIN t : t[i] = s[j]
                           \/ /\ Len(t) = n /\ Len(s) > n
                              /\ \A i \in DOMAIN t : s[j].at < t[i].at

LEMMA TailOf ==
    ASSUME NEW S \in SUBSET Points, NEW s \in Seq(S), NEW n \in Nat \ {0}, Ordered(s)
    PROVE  IsTail(LastOf(s, n), s, S, n)
<1> DEFINE t == LastOf(s, n)
           d == Len(s) - Len(t)
<1>1. /\ t \in Seq(S)
      /\ Len(t) = IF Len(s) > n THEN n ELSE Len(s)
      /\ \A i \in DOMAIN t : Len(s) - Len(t) + i \in DOMAIN s /\ t[i] = s[Len(s) - Len(t) + i]
      /\ \A j \in DOMAIN s : j + n > Len(s) => \E i \in DOMAIN t : t[i] = s[j]
  BY LastEntries
<1> HIDE DEF t
<1>0. /\ n \in Nat /\ n >= 1 /\ Len(s) \in Nat
      /\ Len(s) > n => Len(t) = n
      /\ ~(Len(s) > n) => Len(t) = Len(s)
  BY <1>1
<1>2. /\ Len(s) \in Nat /\ Len(t) \in Nat /\ DOMAIN s = 1..Len(s) /\ DOMAIN t = 1..Len(t)
      /\ d \in Nat /\ d = Len(s) - Len(t)
  BY <1>1
<1>3. \A i \in DOMAIN t : d + i \in DOMAIN s /\ t[i] = s[d + i]
  BY <1>1
<1> HIDE DEF d
<1>4. ASSUME NEW i \in DOMAIN t, NEW j \in DOMAIN t, i < j PROVE t[i].at < t[j].at
  <2>1. d + i < d + j
    BY <1>2, <1>4
  <2> QED BY <1>3, <2>1 DEF Ordered
<1>5. t = <<>> <=> s = <<>>
  <2>1. (t = <<>> <=> Len(t) = 0) /\ (s = <<>> <=> Len(s) = 0)
    BY <1>1
  <2>2. Len(t) = 0 <=> Len(s) = 0
    BY <1>0
  <2> QED BY <2>1, <2>2
<1>6. s # <<>> => Last(t) = Last(s)
  <2> SUFFICES ASSUME s # <<>> PROVE t[Len(t)] = s[Len(s)]
    BY DEF Last
  <2>1. t # <<>>
    BY <1>5
  <2>2. Len(t) \in DOMAIN t /\ d + Len(t) = Len(s)
    <3>1. Len(t) # 0
      BY <1>1, <2>1
    <3>2. Len(t) \in DOMAIN t
      BY <1>2, <3>1
    <3>3. d + Len(t) = Len(s)
      BY <1>2
    <3> QED BY <3>2, <3>3
  <2> QED BY <1>3, <2>2
<1>7. ASSUME NEW j \in DOMAIN s, ~\E i \in DOMAIN t : t[i] = s[j]
      PROVE  Len(t) = n /\ Len(s) > n /\ \A i \in DOMAIN t : s[j].at < t[i].at
  <2>1. ~(j + n > Len(s))
    BY <1>1, <1>7
  <2>2. j \in Nat /\ j >= 1
    BY <1>2
  <2>3. Len(s) > n
    BY <1>0, <2>1, <2>2
  <2>4. Len(t) = n /\ Len(s) > n /\ j <= d
    <3>1. Len(t) = n /\ d = Len(s) - n
      BY <1>0, <1>2, <2>3
    <3> QED BY <1>0, <2>1, <2>2, <2>3, <3>1
  <2>5. \A i \in DOMAIN t : j < d + i
    BY <1>2, <2>2, <2>4
  <2> QED BY <1>3, <2>4, <2>5 DEF Ordered
<1>8. Len(t) <= n
  BY <1>0
<1>9. \A i \in DOMAIN t : \E j \in DOMAIN s : t[i] = s[j]
  BY <1>3
<1> QED BY <1>1, <1>4, <1>5, <1>6, <1>7, <1>8, <1>9 DEF t, IsTail, Ordered

(* If n points of a set are newer than some time, its n newest are. *)
LEMMA NewestAre ==
    ASSUME NEW S, NEW s \in Seq(Points),
           \A i, j \in DOMAIN s : i < j => s[i].at < s[j].at,
           \A p \in S : \E i \in DOMAIN s : s[i] = p,
           NEW n \in Nat \ {0}, Cardinality(S) = n,
           NEW a \in Nat, \A p \in S : p.at > a
    PROVE  Len(s) >= n /\ \A i \in DOMAIN s : i + n > Len(s) => s[i].at > a
<1>1. Len(s) \in Nat /\ DOMAIN s = 1..Len(s) /\ \A i \in DOMAIN s : s[i] \in Points
  OBVIOUS
<1>2. ASSUME NEW d \in 0..Len(s), \A p \in S : \E i \in DOMAIN s : s[i] = p /\ i > d
      PROVE  n <= Len(s) - d
  <2> DEFINE m == Len(s) - d
             f == [i \in 1..m |-> s[d + i]]
             T == {s[d + i] : i \in 1..m}
  <2>1. m \in Nat
    BY <1>1
  <2>2. f \in Surjection(1..m, T)
    BY DEF Surjection
  <2>3. S \subseteq T
    <3> SUFFICES ASSUME NEW p \in S PROVE p \in T
      OBVIOUS
    <3>1. PICK i \in DOMAIN s : s[i] = p /\ i > d
      BY <1>2
    <3>2. i - d \in 1..m /\ d + (i - d) = i
      BY <1>1, <3>1
    <3> HIDE DEF m
    <3>3. s[d + (i - d)] \in T
      BY <3>2
    <3> QED BY <3>1, <3>2, <3>3
  <2>4. IsFiniteSet(1..m) /\ Cardinality(1..m) = m
    <3> HIDE DEF m
    <3>1. m \in Int /\ 1 \in Int /\ (1 > m => m = 0) /\ m - 1 + 1 = m
      BY <2>1
    <3> QED BY ONLY <3>1, FS_Interval
  <2> HIDE DEF m, f, T
  <2>5. IsFiniteSet(T) /\ Cardinality(T) <= m
    BY <2>2, <2>4, FS_Surjection
  <2>6. Cardinality(S) <= Cardinality(T) /\ Cardinality(T) \in Nat
    BY <2>3, <2>5, FS_Subset, FS_CardinalityType
  <2>7. n <= m
    BY <2>1, <2>5, <2>6
  <2> QED BY <2>7 DEF m
<1>3. Len(s) >= n
  <2>1. \A p \in S : \E i \in DOMAIN s : s[i] = p /\ i > 0
    BY <1>1
  <2>2. 0 \in 0..Len(s)
    BY <1>1
  <2>3. n <= Len(s) - 0
    BY <1>2, <2>1, <2>2
  <2> QED BY <1>1, <2>3
<1>4. ASSUME NEW i \in DOMAIN s, i + n > Len(s), ~(s[i].at > a) PROVE FALSE
  <2>1. s[i].at \in Nat /\ s[i].at <= a
    BY <1>1, <1>4 DEF Points
  <2>2. ASSUME NEW p \in S PROVE \E j \in DOMAIN s : s[j] = p /\ j > i
    <3>1. PICK j \in DOMAIN s : s[j] = p
      OBVIOUS
    <3>2. s[j].at > a /\ s[j].at \in Nat
      BY <1>1, <3>1 DEF Points
    <3>3. ~(j < i) /\ j # i
      BY <2>1, <3>2
    <3> QED BY <1>1, <3>1, <3>3
  <2>3. i \in 0..Len(s)
    BY <1>1
  <2>4. n <= Len(s) - i
    BY <1>2, <2>2, <2>3
  <2> QED BY <1>1, <1>4, <2>4
<1> QED BY <1>3, <1>4

LEMMA CapacityBounds ==
    ASSUME NEW n \in Nat
    PROVE  /\ Capacity(n) \in MinPoints..MaxPoints
           /\ n >= MaxPoints => Capacity(n) = MaxPoints
<1>1. ASSUME NEW a \in Nat, NEW b \in Nat
      PROVE  /\ Max({a, b}) \in {a, b} /\ Max({a, b}) >= a /\ Max({a, b}) >= b
             /\ Min({a, b}) \in {a, b} /\ Min({a, b}) <= a /\ Min({a, b}) <= b
  <2>1. (\E x \in {a, b} : \A y \in {a, b} : x >= y) /\ (\E x \in {a, b} : \A y \in {a, b} : x <= y)
    OBVIOUS
  <2> QED BY <2>1 DEF Max, Min
<1>2. n + Margin \in Nat /\ MinPoints \in Nat /\ MaxPoints \in Nat
  OBVIOUS
<1>3. PICK m \in Nat : m = Max({n + Margin, MinPoints}) /\ m >= n + Margin /\ m >= MinPoints
  BY <1>1, <1>2
<1>4. PICK c \in Nat : /\ c = Min({m, MaxPoints}) /\ c \in {m, MaxPoints}
                       /\ c <= m /\ c <= MaxPoints
  BY <1>1, <1>2
<1>5. Capacity(n) = IF n = 0 THEN MinPoints ELSE c
  BY <1>3, <1>4 DEF Capacity
<1> QED BY <1>3, <1>4, <1>5

(* The query returns samples of the datasource as they were stored: all of
   them, or as many as its limit allows, and then none is newer than the rest. *)
LEMMA SnapshotsTrue ==
    ASSUME FeedTyped, NEW d, NEW n \in 0..Len(stored)
    PROVE  /\ Snapshots(d, n) \subseteq {Point(k) : k \in Samples(d, n)}
           /\ Snapshots(d, n) \subseteq SamplesOf(stored, d)
           /\ \A k \in Samples(d, n) :
                  \/ Point(k) \in Snapshots(d, n)
                  \/ /\ Cardinality(Snapshots(d, n)) = MaxPoints
                     /\ \A p \in Snapshots(d, n) : p.at > 2 * k
<1> DEFINE P == {Point(k) : k \in Samples(d, n)}
           s == ByTime(P)
           t == LastOf(s, MaxPoints)
<1>0. stored \in Seq(Datasources) /\ Len(stored) <= MaxSamples /\ MaxPoints \in Nat
  BY MonitorAssumption DEF FeedTyped
<1>1. P \subseteq SamplesOf(stored, d)
  BY <1>0, PointOfSample DEF Samples
<1>2. P \in SUBSET Points /\ Distinct(P)
  BY <1>0, <1>1, SamplesDistinct DEF Distinct
<1>3. Snapshots(d, n) = {t[i] : i \in DOMAIN t}
  BY DEF Snapshots, Range
<1>4. \A k \in Samples(d, n) : Point(k) \in P /\ Point(k).at = 2 * k /\ k \in Nat
  <2>1. \A k \in Samples(d, n) : k \in Nat
    BY DEF Samples
  <2> QED BY <2>1 DEF Point
<1> HIDE DEF P
<1>5. /\ s \in Seq(Points)
      /\ \A i, j \in DOMAIN s : i < j => s[i].at < s[j].at
      /\ \A i \in DOMAIN s : s[i] \in P
      /\ \A p \in P : \E i \in DOMAIN s : s[i] = p
  BY <1>2, ByTimeOrders
<1> HIDE DEF s
<1>6. /\ t \in Seq(Points)
      /\ Len(t) = IF Len(s) > MaxPoints THEN MaxPoints ELSE Len(s)
      /\ \A i \in DOMAIN t : Len(s) - Len(t) + i \in DOMAIN s /\ t[i] = s[Len(s) - Len(t) + i]
      /\ \A j \in DOMAIN s : j + MaxPoints > Len(s) => \E i \in DOMAIN t : t[i] = s[j]
  BY <1>0, <1>5, LastEntries
<1> HIDE DEF t
<1>7. Snapshots(d, n) \subseteq P
  BY <1>3, <1>5, <1>6
<1>8. ASSUME NEW k \in Samples(d, n), Point(k) \notin Snapshots(d, n)
      PROVE  /\ Cardinality(Snapshots(d, n)) = MaxPoints
             /\ \A p \in Snapshots(d, n) : p.at > 2 * k
  <2>1. PICK j \in DOMAIN s : s[j] = Point(k)
    BY <1>4, <1>5
  <2>2. ~(j + MaxPoints > Len(s))
    BY <1>3, <1>6, <1>8, <2>1
  <2>3. /\ Len(s) \in Nat /\ j \in 1..Len(s) /\ Len(t) = MaxPoints /\ Len(t) \in Nat
        /\ DOMAIN t = 1..Len(t)
    BY <1>0, <1>5, <1>6, <2>2
  <2>4. ASSUME NEW i \in DOMAIN t PROVE t[i].at > 2 * k
    <3>1. /\ j < Len(s) - Len(t) + i /\ Len(s) - Len(t) + i \in DOMAIN s
          /\ t[i] = s[Len(s) - Len(t) + i]
      BY <1>0, <1>6, <2>2, <2>3
    <3>2. s[j].at < t[i].at
      BY <1>5, <3>1
    <3>3. t[i] \in Points
      BY <1>6
    <3>4. t[i].at \in Nat
      BY <3>3 DEF Points
    <3> QED BY <1>4, <2>1, <3>2, <3>4
  <2>5. Cardinality({t[i] : i \in DOMAIN t}) = Len(t)
    <3>1. ASSUME NEW i \in 1..Len(t), NEW l \in 1..Len(t), t[i] = t[l] PROVE i = l
      <4> DEFINE a == Len(s) - Len(t) + i
                 b == Len(s) - Len(t) + l
      <4>1. /\ a \in DOMAIN s /\ b \in DOMAIN s /\ s[a] = s[b]
            /\ s[a].at \in Nat /\ a \in Int /\ b \in Int
        <5>1. a \in DOMAIN s /\ b \in DOMAIN s /\ s[a] = s[b]
          BY <1>6, <2>3, <3>1
        <5> HIDE DEF a, b
        <5>2. s[a] \in Points
          BY <1>5, <5>1
        <5> QED BY <2>3, <5>1, <5>2 DEF Points
      <4>2. ~(a < b) /\ ~(b < a)
        BY <1>5, <4>1
      <4> QED BY <2>3, <4>1, <4>2
    <3> DEFINE T == {t[i] : i \in 1..Len(t)}
    <3>2. t \in Bijection(1..Len(t), T)
      <4>1. t \in [1..Len(t) -> T]
        BY <1>6, <2>3
      <4>2. t \in Injection(1..Len(t), T)
        BY <3>1, <4>1 DEF Injection, IsInjective
      <4>3. t \in Surjection(1..Len(t), T)
        BY <4>1 DEF Surjection
      <4> QED BY <4>2, <4>3 DEF Bijection
    <3>3. IsFiniteSet(1..Len(t)) /\ Cardinality(1..Len(t)) = Len(t)
      BY <2>3, FS_Interval
    <3> HIDE DEF T
    <3>4. Cardinality(T) = Len(t)
      BY <3>2, <3>3, FS_Bijection DEF ExistsBijection
    <3> QED BY <2>3, <3>4 DEF T
  <2> QED BY <1>3, <2>3, <2>4, <2>5
<1> QED BY <1>1, <1>7, <1>8 DEF P

LEMMA ReadTrue ==
    ASSUME FeedTyped, NEW c, NEW n \in 0..Len(stored)
    PROVE  Read(c, n) \subseteq SamplesOf(stored, c.conn)
BY SnapshotsTrue, LatestTrue DEF Read, FeedTyped


-----------------------------------------------------------------------------
(* Every packet that waits in a socket is of the datasource it listens to. *)
InboxesTrue ==
    \A m \in DOMAIN managers :
        managers[m].inbox \in Seq(PacketsOf(stored, managers[m].url.conn))

LEMMA StoredStays ==
    ASSUME FeedTyped, UNCHANGED stored
    PROVE  Extends(stored', stored)
BY DEF FeedTyped, Extends

(* Managers that a step leaves alone or empties. *)
LEMMA InboxesKept ==
    ASSUME InboxesTrue, Extends(stored', stored),
           \A m \in DOMAIN managers' :
               \/ managers'[m].inbox = <<>>
               \/ /\ m \in DOMAIN managers
                  /\ managers'[m].inbox = managers[m].inbox
                  /\ managers'[m].url = managers[m].url
    PROVE  InboxesTrue'
<1>1. SUFFICES ASSUME NEW m \in DOMAIN managers'
               PROVE  managers'[m].inbox \in Seq(PacketsOf(stored', managers'[m].url.conn))
  BY DEF InboxesTrue
<1>2. CASE managers'[m].inbox = <<>>
  BY <1>2
<1>3. CASE managers'[m].inbox # <<>>
  <2> DEFINE d == managers'[m].url.conn
  <2>1. managers'[m].inbox \in Seq(PacketsOf(stored, d))
    BY <1>3 DEF InboxesTrue
  <2>2. PacketsOf(stored, d) \subseteq PacketsOf(stored', d)
    BY SamplesStay
  <2> HIDE DEF d
  <2>3. managers'[m].inbox \in Seq(PacketsOf(stored', d))
    BY <2>1, <2>2, SeqStay
  <2> QED BY <2>3 DEF d
<1> QED BY <1>2, <1>3

LEMMA DisconnectInboxes ==
    ASSUME NEW ms \in Seq(Manager), NEW w \in 0..Len(ms), NEW m \in 1..Len(ms)
    PROVE  \/ Disconnect(ms, w)[m].inbox = <<>>
           \/ /\ Disconnect(ms, w)[m].inbox = ms[m].inbox
              /\ Disconnect(ms, w)[m].url = ms[m].url
<1>1. CASE w = m
  <2> DEFINE r == [ms[m] EXCEPT !.shouldReconnect = FALSE, !.sock = "none", !.inbox = <<>>]
  <2>1. r.inbox = <<>>
    BY DEF Manager
  <2>0. m # 0
    OBVIOUS
  <2>2. Disconnect(ms, m) = [ms EXCEPT ![m] = r]
    BY <2>0 DEF Disconnect
  <2> HIDE DEF r
  <2> QED BY <1>1, <2>1, <2>2
<1>2. CASE w # m
  BY <1>2 DEF Disconnect
<1> QED BY <1>1, <1>2

LEMMA PageInboxes ==
    ASSUME FeedTyped, InboxesTrue, UNCHANGED stored,
           \/ UNCHANGED managers
           \/ StopMonitoring
           \/ \E conn, v : StartMonitoring(conn, v)
    PROVE  InboxesTrue'
<1> DEFINE cut == Disconnect(managers, ws)
<1>1. /\ cut \in Seq(Manager) /\ Len(cut) = Len(managers)
      /\ \A m \in 1..Len(managers) :
             \/ cut[m].inbox = <<>>
             \/ cut[m].inbox = managers[m].inbox /\ cut[m].url = managers[m].url
  BY DisconnectTyped, DisconnectInboxes DEF FeedTyped
<1>2. managers \in Seq(Manager) /\ DOMAIN managers = 1..Len(managers)
  BY DEF FeedTyped
<1>3. CASE UNCHANGED managers
  BY <1>3, InboxesKept, StoredStays
<1>4. CASE StopMonitoring
  <2>1. managers' = cut
    BY <1>4 DEF StopMonitoring
  <2> HIDE DEF cut
  <2> QED BY <1>1, <1>2, <2>1, InboxesKept, StoredStays
<1>5. CASE \E conn, v : StartMonitoring(conn, v)
  <2>1. PICK url, m : managers' = Append(cut, m) /\ m.inbox = <<>>
    BY <1>5 DEF StartMonitoring, New
  <2> HIDE DEF cut
  <2>2. \A i \in DOMAIN managers' :
           \/ i = Len(managers) + 1 /\ managers'[i] = m
           \/ i \in 1..Len(managers) /\ managers'[i] = cut[i]
    BY <1>1, <2>1
  <2> QED BY <1>1, <1>2, <2>1, <2>2, InboxesKept, StoredStays
<1> QED BY <1>3, <1>4, <1>5

(* One manager gets a new inbox, under the same URL. *)
LEMMA OneInbox ==
    ASSUME FeedTyped, InboxesTrue, UNCHANGED stored, NEW m \in DOMAIN managers,
           NEW r, managers' = [managers EXCEPT ![m] = r], r.url = managers[m].url,
           r.inbox \in Seq(PacketsOf(stored, r.url.conn))
    PROVE  InboxesTrue'
BY DEF FeedTyped, InboxesTrue

LEMMA UserInboxes ==
    ASSUME FeedTyped, InboxesTrue, User
    PROVE  InboxesTrue'
<1>1. UNCHANGED stored
  BY DEF User, Render, SelectDatasource, Cleanup, SelectTimeRange, PauseRealtime,
         ResumeRealtime, Refresh, RetryRefresh, ClickRefresh, Retry, LoadCustomRange
<1>2. ASSUME NEW conn, NEW realtime, ReloadData(conn, realtime)
      PROVE  StopMonitoring \/ \E d, v : StartMonitoring(d, v)
  BY <1>2 DEF ReloadData
<1>3. UNCHANGED managers \/ StopMonitoring \/ \E d, v : StartMonitoring(d, v)
  BY <1>2 DEF User, Render, SelectDatasource, Cleanup, SelectTimeRange, PauseRealtime,
              ResumeRealtime, Refresh, RetryRefresh, Restart, Retry, LoadCustomRange
<1> QED BY <1>1, <1>3, PageInboxes

LEMMA ReturnsInboxes ==
    ASSUME FeedTyped, InboxesTrue, NEW c, NEW answer, Returns(c, answer)
    PROVE  InboxesTrue'
<1>1. UNCHANGED stored
  BY DEF Returns, LatestReturns, HistoryReturns, CustomReturns, RefreshReturns
<1>2. ASSUME NEW new, AfterRetry(c, new)
      PROVE  UNCHANGED managers \/ \E d, v : StartMonitoring(d, v)
  BY <1>2 DEF AfterRetry, Restart
<1>3. UNCHANGED managers \/ \E d, v : StartMonitoring(d, v)
  BY <1>2 DEF Returns, LatestReturns, HistoryReturns, CustomReturns, RefreshReturns
<1> QED BY <1>1, <1>3, PageInboxes

LEMMA SocketInboxes ==
    ASSUME FeedTyped, InboxesTrue, NEW m \in DOMAIN managers,
           SocketOpens(m) \/ SocketCloses(m) \/ TimerFires(m) \/ PacketArrives(m)
    PROVE  InboxesTrue'
<1>1. m \in 1..Len(managers) /\ managers[m] \in Manager /\ UNCHANGED stored
  BY DEF FeedTyped, SocketOpens, SocketCloses, TimerFires, PacketArrives, MessageArrives
<1> DEFINE box == managers[m].inbox
           from == PacketsOf(stored, managers[m].url.conn)
<1>2. box \in Seq(from)
  BY DEF InboxesTrue
<1>3. CASE SocketOpens(m)
  <2> DEFINE first == <<Greeting(Len(stored))>>
             r == [managers[m] EXCEPT !.sock = "open", !.reconnectAttempts = 0, !.inbox = first]
  <2>1. Greeting(Len(stored)) \in from
    BY DEF FeedTyped, Greeting, Points, PacketsOf
  <2> HIDE DEF from
  <2>2. first \in Seq(from)
    BY <2>1
  <2> HIDE DEF first
  <2>3. r.url = managers[m].url /\ r.inbox = first
    BY <1>1 DEF Manager
  <2>4. managers' = [managers EXCEPT ![m] = r]
    BY <1>3 DEF SocketOpens, Opened, first
  <2> HIDE DEF r
  <2> QED BY <1>1, <2>2, <2>3, <2>4, OneInbox DEF from
<1>4. CASE PacketArrives(m)
  <2> DEFINE r == [managers[m] EXCEPT !.inbox = Tail(@)]
  <2>1. box # <<>> /\ managers' = [managers EXCEPT ![m] = r]
    BY <1>4 DEF PacketArrives, MessageArrives, Received
  <2>2. r.url = managers[m].url /\ r.inbox = Tail(box)
    BY <1>1 DEF Manager
  <2> HIDE DEF r, from
  <2>3. Tail(box) \in Seq(from)
    BY <1>2, <2>1
  <2> QED BY <1>1, <2>1, <2>2, <2>3, OneInbox DEF from
<1>5. CASE SocketCloses(m)
  <2>1. PICK r : /\ managers' = [managers EXCEPT ![m] = r]
                 /\ r.url = managers[m].url /\ r.inbox = <<>>
    <3> DEFINE again == /\ managers[m].shouldReconnect
                        /\ managers[m].reconnectAttempts < MaxReconnectAttempts
               q == [managers[m] EXCEPT
                       !.sock = "closed", !.inbox = <<>>,
                       !.reconnectAttempts = IF again THEN @ + 1 ELSE @,
                       !.timer = again]
    <3>1. managers' = [managers EXCEPT ![m] = q]
      BY <1>5 DEF SocketCloses, Closed
    <3> HIDE DEF again
    <3>2. q.url = managers[m].url /\ q.inbox = <<>>
      BY <1>1 DEF Manager
    <3> QED BY <3>1, <3>2
  <2>2. r.inbox \in Seq(PacketsOf(stored, r.url.conn))
    BY <2>1
  <2> QED BY <1>1, <2>1, <2>2, OneInbox
<1>6. CASE TimerFires(m)
  <2>1. PICK r : /\ managers' = [managers EXCEPT ![m] = r]
                 /\ r.url = managers[m].url /\ r.inbox = box
    <3> DEFINE q == [managers[m] EXCEPT !.timer = FALSE,
                                        !.sock = IF Live(m) THEN @ ELSE "connecting"]
    <3>1. managers' = [managers EXCEPT ![m] = q]
      BY <1>6 DEF TimerFires, Reconnect
    <3>2. q.url = managers[m].url /\ q.inbox = box
      BY <1>1 DEF Manager
    <3> QED BY <3>1, <3>2
  <2> QED BY <1>1, <1>2, <2>1, OneInbox
<1> QED BY <1>3, <1>4, <1>5, <1>6

LEMMA CollectInboxes ==
    ASSUME FeedTyped, InboxesTrue, NEW d \in Datasources, Collect(d)
    PROVE  InboxesTrue' /\ Extends(stored', stored)
<1> DEFINE k == Len(stored) + 1
           p == [id |-> k, at |-> IF d \in Integrated THEN 2 * k ELSE 2 * k + 1]
<1>1. /\ managers \in Seq(Manager) /\ DOMAIN managers = 1..Len(managers)
      /\ stored \in Seq(Datasources) /\ Len(stored) < MaxSamples /\ stored' = Append(stored, d)
  BY DEF FeedTyped, Collect
<1>2. Extends(stored', stored) /\ stored'[k] = d /\ Len(stored') = k
  BY <1>1 DEF Extends
<1>3. p \in PacketsOf(stored', d)
  <2>1. /\ k \in 1..MaxSamples /\ p.id = k /\ p.at \in {2 * k, 2 * k + 1}
        /\ d \in Integrated => p.at = 2 * k
    BY <1>1
  <2>2. p \in Points
    BY <2>1 DEF Points
  <2> HIDE DEF p
  <2> QED BY <1>2, <2>1, <2>2 DEF PacketsOf, SamplesOf
<1> HIDE DEF p
<1>4. ASSUME NEW m \in DOMAIN managers'
      PROVE  managers'[m].inbox \in Seq(PacketsOf(stored', managers'[m].url.conn))
  <2>1. m \in 1..Len(managers) /\ managers[m] \in Manager
    BY <1>1 DEF Collect
  <2> DEFINE conn == managers[m].url.conn
  <2>2. PacketsOf(stored, conn) \subseteq PacketsOf(stored', conn)
    BY <1>2, SamplesStay
  <2>3. managers[m].inbox \in Seq(PacketsOf(stored', conn))
    <3>1. managers[m].inbox \in Seq(PacketsOf(stored, conn))
      BY <1>1, <2>1 DEF InboxesTrue
    <3> HIDE DEF conn
    <3> QED BY <2>2, <3>1, SeqStay
  <2>4. managers'[m] = IF managers[m].sock = "open" /\ conn = d
                       THEN [managers[m] EXCEPT !.inbox = Append(@, p)] ELSE managers[m]
    BY <2>1, <1>1 DEF Collect, p
  <2>5. CASE managers[m].sock = "open" /\ conn = d
    <3> DEFINE new == Append(managers[m].inbox, p)
    <3>1. new \in Seq(PacketsOf(stored', d))
      BY <1>3, <2>3, <2>5
    <3>2. managers'[m] = [managers[m] EXCEPT !.inbox = new]
      BY <2>4, <2>5
    <3> HIDE DEF new
    <3>3. managers'[m].inbox = new /\ managers'[m].url = managers[m].url
      BY <2>1, <3>2 DEF Manager
    <3> QED BY <2>5, <3>1, <3>3
  <2>6. CASE ~(managers[m].sock = "open" /\ conn = d)
    BY <2>3, <2>4, <2>6
  <2> QED BY <2>5, <2>6
<1> QED BY <1>2, <1>4 DEF InboxesTrue

LEMMA StepInboxes ==
    ASSUME FeedInv, InboxesTrue, [Next]_vars
    PROVE  InboxesTrue'
<1> USE DEF FeedInv
<1>1. CASE Works
  BY <1>1, CollectInboxes, ReturnsInboxes, SocketInboxes DEF Works
<1>2. CASE Fails
  BY <1>2, ReturnsInboxes, SocketInboxes DEF Fails
<1>3. CASE UNCHANGED vars
  BY <1>3, PageInboxes DEF vars
<1> QED BY <1>1, <1>2, <1>3, UserInboxes DEF Next


-----------------------------------------------------------------------------
(* The calls in flight were made before now, on versions, requests and samples
   that the page and the server have gone through. *)
CallsUpTo(v, r, n) ==
    [kind : {"latest", "history", "custom", "refresh"}, conn : Datasources,
     range : Ranges \cup {None}, version : 0..v, seq : 0..r, since : 0..n,
     from : {"page", "refresh", "retry"}, previous : Ranges \cup {None},
     wasRealtime : BOOLEAN]

(* _historyRequest names one call of _loadHistory. *)
OneLoad(cs) ==
    \A c, d \in cs : /\ {c.kind, d.kind} \subseteq {"history", "custom"}
                     /\ c.seq = d.seq
                     => c = d

(* The disabled button: at most one refresh whose load has not ended *)
OneRefresh(cs) ==
    \A c, d \in cs : /\ c.kind = "refresh" /\ c.from = "refresh"
                     /\ d.kind = "refresh" /\ d.from = "refresh"
                     => c = d

(* A refresh that still counts has left room for the load that follows it. *)
RefreshFits(cs, v, r) ==
    /\ r <= MaxRequests + 1
    /\ \A c \in cs : c.kind = "refresh" /\ c.version = v =>
                         c.from = "refresh" /\ r <= MaxRequests

ControlsTyped ==
    /\ mounted \in BOOLEAN /\ isRealtime \in BOOLEAN
    /\ customRange \in Ranges \cup {None}
    /\ request \in Nat

CallsInv ==
    /\ ControlsTyped
    /\ calls \subseteq CallsUpTo(version, request, Len(stored))
    /\ OneLoad(calls) /\ OneRefresh(calls) /\ RefreshFits(calls, version, request)

LEMMA CallsStay ==
    ASSUME FeedTyped, FeedTyped', request \in Nat, request' \in Nat,
           version <= version', request <= request', Len(stored) <= Len(stored')
    PROVE  CallsUpTo(version, request, Len(stored))
               \subseteq CallsUpTo(version', request', Len(stored'))
<1>1. 0..version \subseteq 0..version' /\ 0..request \subseteq 0..request'
  BY DEF FeedTyped
<1>2. 0..Len(stored) \subseteq 0..Len(stored')
  <2>1. stored \in Seq(Datasources) /\ stored' \in Seq(Datasources)
    BY DEF FeedTyped
  <2>2. Len(stored) \in Nat /\ Len(stored') \in Nat
    BY <2>1
  <2> QED BY <2>2
<1> QED BY <1>1, <1>2 DEF CallsUpTo

(* Calls come back, and nothing is asked. *)
LEMMA CallsShrink ==
    ASSUME FeedTyped, FeedTyped', CallsInv, ControlsTyped', calls' \subseteq calls,
           version <= version', request' = request, Len(stored) <= Len(stored')
    PROVE  CallsInv'
<1>1. CallsUpTo(version, request, Len(stored)) \subseteq CallsUpTo(version', request', Len(stored'))
  <2>1. request \in Nat /\ request' \in Nat /\ request <= request'
    BY DEF CallsInv, ControlsTyped
  <2> QED BY <2>1, CallsStay
<1>2. OneLoad(calls') /\ OneRefresh(calls')
  BY DEF CallsInv, OneLoad, OneRefresh
<1>3. \A c \in calls : c.version \in 0..version
  BY DEF CallsInv, CallsUpTo
<1>4. RefreshFits(calls', version', request')
  BY <1>3 DEF CallsInv, RefreshFits, FeedTyped
<1> QED BY <1>1, <1>2, <1>4 DEF CallsInv

LEMMA LoadDataCalls ==
    ASSUME FeedTyped, request \in Nat, NEW conn \in Datasources,
           NEW range \in Ranges \cup {None}, NEW v \in Nat,
           NEW from \in {"page", "refresh", "retry"},
           NEW c \in LoadData(conn, range, v, from)
    PROVE  /\ c \in CallsUpTo(v, request + 1, Len(stored))
           /\ c.seq = request + 1 /\ c.since = Len(stored)
           /\ c.kind \in {"latest", "history"}
<1>1. PICK k \in {"latest", "history"} :
          c = [Call(k, conn, range, v, request + 1) EXCEPT !.from = from]
  BY DEF LoadData
<1>2. c = [kind |-> k, conn |-> conn, range |-> range, version |-> v, seq |-> request + 1,
           since |-> Len(stored), from |-> from, previous |-> None, wasRealtime |-> FALSE]
  BY <1>1 DEF Call
<1>3. v \in 0..v /\ request + 1 \in 0..(request + 1) /\ Len(stored) \in 0..Len(stored)
  BY DEF FeedTyped
<1>4. /\ k \in {"latest", "history", "custom", "refresh"} /\ None \in Ranges \cup {None}
      /\ FALSE \in BOOLEAN
  OBVIOUS
<1> QED BY <1>2, <1>3, <1>4 DEF CallsUpTo

LEMMA LoadDataOnce ==
    ASSUME NEW conn, NEW range, NEW v, NEW from,
           NEW c \in LoadData(conn, range, v, from), NEW d \in LoadData(conn, range, v, from),
           c.kind = d.kind
    PROVE  c = d
<1>1. PICK k : c = [Call(k, conn, range, v, request + 1) EXCEPT !.from = from]
  BY DEF LoadData
<1>2. PICK l : d = [Call(l, conn, range, v, request + 1) EXCEPT !.from = from]
  BY DEF LoadData
<1>3. c.kind = k /\ d.kind = l
  BY <1>1, <1>2 DEF Call
<1> QED BY <1>1, <1>2, <1>3

(* A load is asked for, beside the calls that are kept. *)
LEMMA LoadAdded ==
    ASSUME FeedTyped, FeedTyped', CallsInv, ControlsTyped', UNCHANGED stored,
           version <= version', request' = request + 1,
           NEW conn \in Datasources, NEW range \in Ranges \cup {None},
           NEW from \in {"page", "refresh", "retry"},
           NEW kept, kept \subseteq CallsUpTo(version, request, Len(stored)),
           OneLoad(kept), OneRefresh(kept), RefreshFits(kept, version', request'),
           calls' = kept \cup LoadData(conn, range, version', from)
    PROVE  CallsInv'
<1> DEFINE load == LoadData(conn, range, version', from)
<1>1. /\ version \in Nat /\ version' \in Nat /\ Len(stored) \in Nat /\ Len(stored') = Len(stored)
      /\ request \in Nat /\ request' \in Nat
  BY DEF FeedTyped, CallsInv, ControlsTyped
<1>2. \A c \in load : /\ c \in CallsUpTo(version', request', Len(stored'))
                      /\ c.seq = request + 1 /\ c.kind \in {"latest", "history"}
  BY <1>1, LoadDataCalls
<1>3. \A c, d \in load : c.kind = d.kind => c = d
  BY LoadDataOnce
<1> HIDE DEF load
<1>4. CallsUpTo(version, request, Len(stored)) \subseteq CallsUpTo(version', request', Len(stored'))
  <2>1. request <= request' /\ Len(stored) <= Len(stored')
    BY <1>1
  <2> QED BY <1>1, <2>1, CallsStay
<1>5. \A c \in kept : c.seq # request + 1
  BY <1>1 DEF CallsUpTo
<1>6. calls' = kept \cup load
  BY DEF load
<1>7. calls' \subseteq CallsUpTo(version', request', Len(stored'))
  BY <1>2, <1>4, <1>6
<1>8. OneLoad(calls')
  <2> SUFFICES ASSUME NEW c \in calls', NEW d \in calls',
                      {c.kind, d.kind} \subseteq {"history", "custom"}, c.seq = d.seq
               PROVE  c = d
    BY DEF OneLoad
  <2>1. CASE c \in kept
    <3>1. d \in kept
      BY <1>2, <1>5, <1>6, <2>1
    <3> QED BY <2>1, <3>1 DEF OneLoad
  <2>2. CASE c \in load
    <3>1. d \in load
      BY <1>2, <1>5, <1>6, <2>2
    <3>2. c.kind = "history" /\ d.kind = "history"
      BY <1>2, <2>2, <3>1
    <3> QED BY <1>3, <2>2, <3>1, <3>2
  <2> QED BY <1>6, <2>1, <2>2
<1>9. OneRefresh(calls') /\ RefreshFits(calls', version', request')
  <2>1. \A c \in calls' : c.kind = "refresh" => c \in kept
    BY <1>2, <1>6
  <2> QED BY <2>1 DEF OneRefresh, RefreshFits
<1> QED BY <1>7, <1>8, <1>9 DEF CallsInv

LEMMA ReloadCalls ==
    ASSUME FeedTyped, FeedTyped', CallsInv, ControlsTyped', UNCHANGED stored, Room,
           selected' \in Datasources, NEW realtime, ReloadData(selected', realtime)
    PROVE  CallsInv'
<1>1. /\ version' = version + 1 /\ request' = request + 1
      /\ calls' = calls \cup LoadData(selected', customRange', version', "page")
  BY DEF ReloadData
<1>2. version \in Nat /\ request \in Nat /\ request < MaxRequests
  BY DEF FeedTyped, CallsInv, ControlsTyped, Room
<1>3. \A c \in calls : c.version # version'
  BY <1>1, <1>2 DEF CallsInv, CallsUpTo
<1>4. RefreshFits(calls, version', request')
  BY <1>1, <1>2, <1>3 DEF RefreshFits
<1>5. customRange' \in Ranges \cup {None} /\ version <= version'
  BY <1>1, <1>2 DEF ControlsTyped
<1> QED BY <1>1, <1>4, <1>5, LoadAdded DEF CallsInv

LEMMA RenderCalls ==
    ASSUME FeedTyped, FeedTyped', CallsInv, ControlsTyped', NEW d \in Datasources, Render(d)
    PROVE  CallsInv'
<1> DEFINE old(c) == [c EXCEPT !.from = "page"]
           kept == {old(c) : c \in calls}
<1>1. /\ version' = version + 1 /\ request' = request + 1 /\ UNCHANGED stored
      /\ calls' = kept \cup LoadData(d, None, version', "page")
  BY DEF Render
<1>2. version \in Nat /\ request \in Nat /\ request < MaxRequests
  BY DEF FeedTyped, CallsInv, ControlsTyped, Render, Room
<1>3. \A c \in calls : /\ old(c) \in CallsUpTo(version, request, Len(stored))
                       /\ old(c).kind = c.kind /\ old(c).seq = c.seq
                       /\ old(c).from = "page" /\ old(c).version \in 0..version
  BY DEF CallsInv, CallsUpTo
<1>4. kept \subseteq CallsUpTo(version, request, Len(stored))
  BY <1>3
<1>5. OneLoad(kept)
  <2>1. ASSUME NEW b \in calls, NEW c \in calls,
               {old(b).kind, old(c).kind} \subseteq {"history", "custom"},
               old(b).seq = old(c).seq
        PROVE  old(b) = old(c)
    <3>1. {b.kind, c.kind} \subseteq {"history", "custom"} /\ b.seq = c.seq
      BY <1>3, <2>1
    <3>2. b = c
      BY <3>1 DEF CallsInv, OneLoad
    <3> QED BY <3>2
  <2> HIDE DEF old
  <2> QED BY <2>1 DEF OneLoad
<1>6. OneRefresh(kept) /\ RefreshFits(kept, version', request')
  <2>1. \A c \in kept : c.from = "page" /\ c.version \in 0..version
    BY <1>3
  <2> HIDE DEF kept
  <2>2. \A c \in kept : c.version # version'
    BY <1>1, <1>2, <2>1
  <2> QED BY <1>1, <1>2, <2>1, <2>2 DEF OneRefresh, RefreshFits
<1>7. None \in Ranges \cup {None} /\ version <= version' /\ "page" \in {"page", "refresh", "retry"}
  BY <1>1, <1>2
<1> HIDE DEF kept
<1> QED BY <1>1, <1>4, <1>5, <1>6, <1>7, LoadAdded

LEMMA OneCallAdded ==
    ASSUME FeedTyped, FeedTyped', CallsInv, ControlsTyped', UNCHANGED <<stored, version>>,
           request <= request',
           NEW c \in CallsUpTo(version, request', Len(stored)), calls' = calls \cup {c},
           c.kind \in {"history", "custom"} => c.seq = request + 1,
           OneRefresh(calls'), RefreshFits(calls', version', request')
    PROVE  CallsInv'
<1>1. version \in Nat /\ Len(stored) \in Nat /\ request \in Nat /\ request' \in Nat
  BY DEF FeedTyped, CallsInv, ControlsTyped
<1>2. CallsUpTo(version, request, Len(stored)) \subseteq CallsUpTo(version', request', Len(stored'))
  <2>1. version <= version' /\ Len(stored) <= Len(stored')
    BY <1>1
  <2> QED BY <1>1, <2>1, CallsStay
<1>3. \A b \in calls : b.seq # request + 1
  BY <1>1 DEF CallsInv, CallsUpTo
<1>4. OneLoad(calls')
  BY <1>3 DEF CallsInv, OneLoad
<1> QED BY <1>2, <1>4 DEF CallsInv

LEMMA UserCalls ==
    ASSUME FeedTyped, FeedTyped', CallsInv, User
    PROVE  CallsInv' /\ ControlsTyped'
<1>0. version \in Nat /\ request \in Nat /\ Len(stored) \in Nat
  BY DEF FeedTyped, CallsInv, ControlsTyped
<1>1. ControlsTyped'
  <2> USE DEF CallsInv, ControlsTyped
  <2>1. ASSUME NEW d \in Datasources, Render(d) PROVE ControlsTyped'
    BY <2>1 DEF Render
  <2>2. ASSUME NEW d \in Datasources, SelectDatasource(d) PROVE ControlsTyped'
    BY <2>2 DEF SelectDatasource, ReloadData
  <2>3. CASE Cleanup
    BY <2>3 DEF Cleanup
  <2>4. CASE SelectTimeRange \/ ResumeRealtime
    <3>1. /\ UNCHANGED mounted /\ isRealtime' = TRUE /\ customRange' = None
          /\ request' = request + 1
      BY <2>4 DEF SelectTimeRange, ResumeRealtime, ReloadData
    <3>2. isRealtime' \in BOOLEAN
      BY <3>1
    <3> QED BY <1>0, <3>1, <3>2
  <2>5. CASE PauseRealtime
    BY <2>5 DEF PauseRealtime
  <2>6. CASE Refresh \/ RetryRefresh \/ Retry
    BY <2>6 DEF Refresh, RetryRefresh, ClickRefresh, Retry
  <2>7. ASSUME NEW r \in Ranges, LoadCustomRange(r) PROVE ControlsTyped'
    <3>1. /\ UNCHANGED mounted /\ isRealtime' = FALSE /\ customRange' \in Ranges
          /\ request' = request + 1
      BY <2>7 DEF LoadCustomRange
    <3>2. isRealtime' \in BOOLEAN
      BY <3>1
    <3> QED BY <1>0, <3>1, <3>2
  <2> QED BY <2>1, <2>2, <2>3, <2>4, <2>5, <2>6, <2>7 DEF User
<1>2. ASSUME NEW d \in Datasources, SelectDatasource(d) PROVE CallsInv'
  <2>1. /\ selected' \in Datasources /\ ReloadData(selected', isRealtime)
        /\ UNCHANGED stored /\ Room
    BY <1>2 DEF SelectDatasource
  <2> QED BY <1>1, <2>1, ReloadCalls
<1>3. CASE Cleanup
  <2>1. calls' = calls /\ version <= version' /\ request' = request /\ Len(stored) <= Len(stored')
    BY <1>0, <1>3 DEF Cleanup
  <2> QED BY <1>1, <2>1, CallsShrink
<1>4. CASE SelectTimeRange \/ ResumeRealtime
  <2>1. /\ selected' \in Datasources /\ ReloadData(selected', TRUE)
        /\ UNCHANGED stored /\ Room
    BY <1>4 DEF SelectTimeRange, ResumeRealtime, FeedTyped
  <2> QED BY <1>1, <2>1, ReloadCalls
<1>5. CASE PauseRealtime
  <2>1. calls' = calls /\ version <= version' /\ request' = request /\ Len(stored) <= Len(stored')
    BY <1>0, <1>5 DEF PauseRealtime
  <2> QED BY <1>1, <2>1, CallsShrink
<1>6. CASE Refresh \/ RetryRefresh
  <2> DEFINE c == [Call("refresh", selected, None, version, 0) EXCEPT !.from = "refresh"]
  <2>0. c = [kind |-> "refresh", conn |-> selected, range |-> None, version |-> version,
             seq |-> 0, since |-> Len(stored), from |-> "refresh", previous |-> None,
             wasRealtime |-> FALSE]
    <3>1. PICK q : q = Call("refresh", selected, None, version, 0)
      OBVIOUS
    <3>2. c = [q EXCEPT !.from = "refresh"]
      BY <3>1
    <3> HIDE DEF c
    <3> QED BY <3>1, <3>2 DEF Call
  <2>1. /\ c \in CallsUpTo(version, request, Len(stored))
        /\ c.kind = "refresh" /\ c.from = "refresh"
    <3>1. /\ selected \in Datasources /\ version \in 0..version /\ 0 \in 0..request
          /\ Len(stored) \in 0..Len(stored) /\ FALSE \in BOOLEAN
      BY <1>0 DEF FeedTyped
    <3> QED BY <2>0, <3>1 DEF CallsUpTo
  <2>2. /\ calls' = calls \cup {c} /\ request' = request /\ request < MaxRequests
        /\ \A b \in calls : b.from # "refresh"
        /\ UNCHANGED <<stored, version>>
    BY <1>6 DEF Refresh, RetryRefresh, ClickRefresh, Room
  <2> HIDE DEF c
  <2>3. OneRefresh(calls') /\ RefreshFits(calls', version', request')
    BY <1>0, <2>1, <2>2 DEF OneRefresh, RefreshFits, CallsInv
  <2>4. request <= request' /\ c \in CallsUpTo(version, request', Len(stored))
    BY <1>0, <2>1, <2>2
  <2>5. c.kind \notin {"history", "custom"}
    BY <2>1
  <2> QED BY <1>1, <2>2, <2>3, <2>4, <2>5, OneCallAdded
<1>7. CASE Retry
  <2>1. /\ calls' = calls \cup LoadData(selected, customRange, version', "retry")
        /\ request' = request + 1 /\ UNCHANGED <<stored, version>> /\ request < MaxRequests
    BY <1>7 DEF Retry, Room
  <2>2. RefreshFits(calls, version', request')
    BY <1>0, <2>1 DEF RefreshFits, CallsInv
  <2>3. selected \in Datasources /\ customRange \in Ranges \cup {None} /\ version <= version'
    BY <1>0, <2>1 DEF FeedTyped, CallsInv, ControlsTyped
  <2> QED BY <1>1, <2>1, <2>2, <2>3, LoadAdded DEF CallsInv
<1>8. ASSUME NEW r \in Ranges, LoadCustomRange(r) PROVE CallsInv'
  <2> DEFINE c == [Call("custom", selected, r, version, request + 1)
                      EXCEPT !.previous = customRange, !.wasRealtime = isRealtime]
  <2>0. c = [kind |-> "custom", conn |-> selected, range |-> r, version |-> version,
             seq |-> request + 1, since |-> Len(stored), from |-> "page",
             previous |-> customRange, wasRealtime |-> isRealtime]
    <3>1. PICK q : q = Call("custom", selected, r, version, request + 1)
      OBVIOUS
    <3>2. c = [q EXCEPT !.previous = customRange, !.wasRealtime = isRealtime]
      BY <3>1
    <3> HIDE DEF c
    <3> QED BY <3>1, <3>2 DEF Call
  <2>1. /\ c \in CallsUpTo(version, request + 1, Len(stored))
        /\ c.kind = "custom" /\ c.seq = request + 1
    <3>1. /\ selected \in Datasources /\ version \in 0..version
          /\ request + 1 \in 0..(request + 1) /\ Len(stored) \in 0..Len(stored)
          /\ customRange \in Ranges \cup {None} /\ isRealtime \in BOOLEAN
      BY <1>0 DEF FeedTyped, CallsInv, ControlsTyped
    <3> QED BY <2>0, <3>1 DEF CallsUpTo
  <2>2. /\ calls' = calls \cup {c} /\ request' = request + 1 /\ request < MaxRequests
        /\ UNCHANGED <<stored, version>>
    BY <1>8 DEF LoadCustomRange, Room
  <2> HIDE DEF c
  <2>3. OneRefresh(calls') /\ RefreshFits(calls', version', request')
    BY <1>0, <2>1, <2>2 DEF OneRefresh, RefreshFits, CallsInv
  <2>4. request <= request' /\ c \in CallsUpTo(version, request', Len(stored))
    BY <1>0, <2>1, <2>2
  <2> QED BY <1>1, <2>1, <2>2, <2>3, <2>4, OneCallAdded
<1> QED BY <1>1, <1>2, <1>3, <1>4, <1>5, <1>6, <1>7, <1>8, RenderCalls DEF User

LEMMA ReturnsCalls ==
    ASSUME FeedTyped, FeedTyped', CallsInv, NEW c \in calls, NEW answer, Returns(c, answer)
    PROVE  CallsInv' /\ ControlsTyped'
<1>0. /\ version \in Nat /\ request \in Nat /\ Len(stored) \in Nat
      /\ c \in CallsUpTo(version, request, Len(stored))
  BY DEF FeedTyped, CallsInv, ControlsTyped
<1>1. CASE LatestReturns(c, answer) \/ HistoryReturns(c, answer) \/ CustomReturns(c, answer)
  <2>1. /\ calls' \subseteq calls /\ UNCHANGED <<version, request, stored, mounted>>
        /\ customRange' \in {customRange, c.previous} /\ isRealtime' \in {isRealtime, c.wasRealtime}
    BY <1>1 DEF LatestReturns, HistoryReturns, CustomReturns
  <2>2. ControlsTyped'
    BY <1>0, <2>1 DEF CallsInv, ControlsTyped, CallsUpTo
  <2>3. version <= version' /\ Len(stored) <= Len(stored')
    BY <1>0, <2>1
  <2> QED BY <2>1, <2>2, <2>3, CallsShrink
<1>2. CASE RefreshReturns(c, answer)
  <2> DEFINE more == IsCurrent(c.conn, c.version) /\ answer.ok
  <2>1. /\ c.kind = "refresh" /\ UNCHANGED <<stored, version, mounted, isRealtime, customRange>>
        /\ calls' = (calls \ {c}) \cup
               (IF more THEN LoadData(c.conn, customRange, version, c.from) ELSE {})
        /\ request' = IF more THEN request + 1 ELSE request
    BY <1>2 DEF RefreshReturns
  <2>2. ControlsTyped'
    BY <1>0, <2>1 DEF CallsInv, ControlsTyped
  <2>3. CASE ~more
    <3>1. /\ calls' \subseteq calls /\ request' = request
          /\ version <= version' /\ Len(stored) <= Len(stored')
      BY <1>0, <2>1, <2>3
    <3> QED BY <2>1, <2>2, <3>1, CallsShrink
  <2>4. CASE more
    <3>1. /\ calls' = (calls \ {c}) \cup LoadData(c.conn, customRange, version', c.from)
          /\ request' = request + 1 /\ version <= version' /\ UNCHANGED stored
      BY <1>0, <2>1, <2>4
    <3>2. c.version = version /\ c.from = "refresh" /\ request <= MaxRequests
      BY <2>1, <2>4 DEF IsCurrent, CallsInv, RefreshFits
    <3>3. /\ c.conn \in Datasources /\ customRange \in Ranges \cup {None}
          /\ c.from \in {"page", "refresh", "retry"}
      BY <1>0 DEF CallsUpTo, CallsInv, ControlsTyped
    <3>4. \A b \in calls \ {c} : ~(b.kind = "refresh" /\ b.version = version)
      BY <2>1, <3>2 DEF CallsInv, OneRefresh, RefreshFits
    <3>5. RefreshFits(calls \ {c}, version', request')
      BY <1>0, <2>1, <3>1, <3>2, <3>4 DEF RefreshFits
    <3>6. OneLoad(calls \ {c}) /\ OneRefresh(calls \ {c})
      BY DEF CallsInv, OneLoad, OneRefresh
    <3>7. calls \ {c} \subseteq CallsUpTo(version, request, Len(stored))
      BY DEF CallsInv
    <3> DEFINE kept == calls \ {c}
    <3> HIDE DEF kept
    <3>8. calls' = kept \cup LoadData(c.conn, customRange, version', c.from)
      BY <3>1 DEF kept
    <3> QED BY <2>2, <3>1, <3>3, <3>5, <3>6, <3>7, <3>8, LoadAdded DEF kept
  <2> QED BY <2>3, <2>4
<1> QED BY <1>1, <1>2 DEF Returns

LEMMA StepCalls ==
    ASSUME FeedInv, FeedInv', CallsInv, [Next]_vars
    PROVE  CallsInv'
<1>1. FeedTyped /\ FeedTyped' /\ version \in Nat /\ Len(stored) \in Nat
  BY DEF FeedInv, FeedTyped
<1>2. ASSUME UNCHANGED <<calls, pageVars>>, Len(stored) <= Len(stored') PROVE CallsInv'
  <2>1. /\ calls' = calls /\ request' = request /\ version <= version'
        /\ UNCHANGED <<mounted, isRealtime, customRange>>
    BY <1>1, <1>2 DEF pageVars
  <2>2. ControlsTyped'
    BY <2>1 DEF CallsInv, ControlsTyped
  <2> QED BY <1>1, <1>2, <2>1, <2>2, CallsShrink
<1>3. ASSUME NEW m, SocketOpens(m) \/ SocketCloses(m) \/ TimerFires(m) \/ PacketArrives(m)
      PROVE  CallsInv'
  <2>1. UNCHANGED <<calls, pageVars, stored>>
    BY <1>3 DEF SocketOpens, SocketCloses, TimerFires, PacketArrives, MessageArrives
  <2> QED BY <1>1, <1>2, <2>1
<1>4. ASSUME NEW d \in Datasources, Collect(d) PROVE CallsInv'
  <2>1. UNCHANGED <<calls, pageVars>> /\ Len(stored) <= Len(stored')
    BY <1>1, <1>4 DEF Collect, FeedTyped
  <2> QED BY <1>2, <2>1
<1>5. CASE Works
  BY <1>1, <1>3, <1>4, <1>5, ReturnsCalls DEF Works
<1>6. CASE Fails
  BY <1>1, <1>3, <1>6, ReturnsCalls DEF Fails
<1>7. CASE UNCHANGED vars
  BY <1>1, <1>2, <1>7 DEF vars
<1> QED BY <1>1, <1>5, <1>6, <1>7, UserCalls DEF Next


-----------------------------------------------------------------------------
(* What came by the socket and what is drawn are samples of the selection, and
   the charts end at their timestamp. *)
ChartInv ==
    /\ chartRange \in Ranges \cup {None}
    /\ live \subseteq SamplesOf(stored, selected)
    /\ chart \in Seq(SamplesOf(stored, selected))
    /\ ChartOrdered
    /\ chartTime \in Nat
    /\ chart # <<>> => chartTime = Last(chart).at
    /\ chartMaxPoints \in MinPoints..MaxPoints /\ Len(chart) <= chartMaxPoints

CardInv ==
    /\ card \in 0..Len(stored) /\ cardTime \in Nat
    /\ cardTime # 0 => card # 0 /\ stored[card] = selected
    /\ chartRange = None /\ chart # <<>> => cardTime >= chartTime

LEMMA PictureForgotten ==
    ASSUME FeedTyped', Forget, card' \in 0..Len(stored'),
           chartMaxPoints' \in MinPoints..MaxPoints
    PROVE  ChartInv' /\ CardInv'
<1>1. /\ live' = {} /\ chart' = <<>> /\ chartTime' = 0 /\ cardTime' = 0
      /\ chartRange' = None
  BY DEF Forget
<1>2. chart' \in Seq(SamplesOf(stored', selected'))
  BY <1>1
<1>3. ChartInv'
  BY <1>1, <1>2 DEF ChartInv, ChartOrdered
<1> QED BY <1>1, <1>3 DEF CardInv

LEMMA PictureKept ==
    ASSUME ChartInv, CardInv, UNCHANGED <<view, selected>>, Extends(stored', stored)
    PROVE  ChartInv' /\ CardInv'
<1> DEFINE S == SamplesOf(stored, selected)
           T == SamplesOf(stored', selected')
<1>1. UNCHANGED <<live, chart, chartMaxPoints, chartTime, card, cardTime, chartRange, selected>>
  BY DEF view
<1>2. S \subseteq T
  BY <1>1, SamplesStay
<1>3. live \subseteq S /\ chart \in Seq(S)
  BY DEF ChartInv
<1> HIDE DEF S, T
<1>4. chart \in Seq(T)
  BY <1>2, <1>3, SeqStay
<1>5. ChartInv'
  BY <1>1, <1>2, <1>3, <1>4 DEF ChartInv, ChartOrdered, T
<1>6. CardInv'
  BY <1>1 DEF CardInv, Extends
<1> QED BY <1>5, <1>6

(* _updateSnapshotCards with a sample of the selection *)
LEMMA CardShows ==
    ASSUME FeedTyped, CardInv, UNCHANGED <<stored, selected>>,
           NEW p \in SamplesOf(stored, selected), UpdateSnapshotCards(p)
    PROVE  /\ card' \in 0..Len(stored') /\ cardTime' \in Nat
           /\ cardTime' # 0 => card' # 0 /\ stored'[card'] = selected'
           /\ cardTime' >= cardTime /\ cardTime' >= p.at
<1>1. p.id \in 1..Len(stored) /\ stored[p.id] = selected /\ p.at \in Nat /\ Len(stored) \in Nat
  BY DEF SamplesOf, Points, FeedTyped
<1> QED BY <1>1 DEF CardInv, UpdateSnapshotCards

(* What _loadHistory draws: exactly the points of the range among those of the
   answer and, unless a custom range is asked for, of the live feed, in order. *)
LEMMA MergedPoints ==
    ASSUME FeedTyped, ChartInv, NEW c, NEW data \in SUBSET SamplesOf(stored, selected)
    PROVE  LET points == {p \in data \cup (IF c.range = None THEN live ELSE {}) :
                             InRange(p.at, c.range)}
               s == Merged(c, data)
           IN  /\ s \in Seq(SamplesOf(stored, selected))
               /\ \A i, j \in DOMAIN s : i < j => s[i].at < s[j].at
               /\ \A i \in DOMAIN s : s[i] \in points
               /\ \A p \in points : \E i \in DOMAIN s : s[i] = p
<1> DEFINE points == {p \in data \cup (IF c.range = None THEN live ELSE {}) :
                         InRange(p.at, c.range)}
           S == SamplesOf(stored, selected)
           s == ByTime(points)
<1>1. points \subseteq S
  BY DEF ChartInv
<1>2. Distinct(points) /\ points \in SUBSET Points
  <2>1. Distinct(S) /\ S \subseteq Points
    BY SamplesDistinct DEF FeedTyped
  <2> HIDE DEF S, points
  <2> QED BY <1>1, <2>1 DEF Distinct
<1>3. Merged(c, data) = s
  BY DEF Merged
<1> HIDE DEF S, points
<1>4. /\ s \in Seq(Points)
      /\ \A i, j \in DOMAIN s : i < j => s[i].at < s[j].at
      /\ \A i \in DOMAIN s : s[i] \in points
      /\ \A p \in points : \E i \in DOMAIN s : s[i] = p
  BY <1>2, ByTimeOrders
<1> HIDE DEF s
<1>5. s \in Seq(S)
  BY <1>1, <1>4
<1> QED BY <1>3, <1>4, <1>5 DEF S, points

LEMMA HistoryPicture ==
    ASSUME FeedTyped, ChartInv, CardInv, UNCHANGED <<stored, selected>>,
           NEW c, c.range \in Ranges \cup {None},
           NEW data \in SUBSET SamplesOf(stored, selected), ShowHistory(c, data)
    PROVE  ChartInv' /\ CardInv'
<1> DEFINE S == SamplesOf(stored, selected)
           s == Merged(c, data)
<1>1. /\ s \in Seq(S)
      /\ \A i, j \in DOMAIN s : i < j => s[i].at < s[j].at
  BY MergedPoints
<1>2. /\ chartMaxPoints' = Capacity(Len(s)) /\ chart' = LastOf(s, chartMaxPoints')
      /\ chartRange' = c.range
      /\ chartTime' = IF s = <<>> THEN 0 ELSE Last(s).at
      /\ UNCHANGED live
      /\ s = <<>> => UNCHANGED <<card, cardTime>>
      /\ s # <<>> /\ c.range # None => card' = Last(s).id /\ cardTime' = 0
      /\ s # <<>> /\ c.range = None => UpdateSnapshotCards(Last(s))
  BY DEF ShowHistory
<1> HIDE DEF s
<1>3. s # <<>> => Last(s) \in S
  BY <1>1 DEF Last
<1>4. \A p \in S : p.id \in 1..Len(stored) /\ p.at \in Nat
  BY DEF SamplesOf, Points
<1>5. live \subseteq S
  BY DEF ChartInv
<1>6. /\ ChartInv'
      /\ chart' = <<>> <=> s = <<>>
  <2> HIDE DEF S
  <2>0. S \in SUBSET Points /\ Len(s) \in Nat
    BY <1>1 DEF S, SamplesOf
  <2>1. chartMaxPoints' \in MinPoints..MaxPoints /\ chartMaxPoints' \in Nat \ {0}
    BY <1>2, <2>0, CapacityBounds
  <2>2. /\ chart' \in Seq(S) /\ Len(chart') <= chartMaxPoints'
        /\ \A i, j \in DOMAIN chart' : i < j => chart'[i].at < chart'[j].at
        /\ chart' = <<>> <=> s = <<>>
        /\ s # <<>> => Last(chart') = Last(s)
    <3>1. Ordered(s)
      BY <1>1 DEF Ordered
    <3>2. IsTail(chart', s, S, chartMaxPoints')
      BY <1>1, <1>2, <2>0, <2>1, <3>1, TailOf
    <3> QED BY <3>2 DEF IsTail, Ordered
  <2>3. chartTime' \in Nat /\ (chart' # <<>> => chartTime' = Last(chart').at)
    BY <1>2, <1>3, <1>4, <2>2
  <2>4. live' \subseteq SamplesOf(stored', selected') /\ chart' \in Seq(SamplesOf(stored', selected'))
    BY <1>2, <1>5, <2>2 DEF S
  <2> QED BY <1>2, <2>1, <2>2, <2>3, <2>4 DEF ChartInv, ChartOrdered
<1> HIDE DEF S
<1>7. CASE s = <<>>
  <2>1. card' = card /\ cardTime' = cardTime /\ chart' = <<>>
    BY <1>2, <1>6, <1>7
  <2>2. stored' = stored /\ selected' = selected
    OBVIOUS
  <2>3. CardInv'
    BY <2>1, <2>2 DEF CardInv
  <2> QED BY <1>6, <2>3
<1>8. CASE s # <<>> /\ c.range # None
  <2>1. card' \in 0..Len(stored')
    BY <1>2, <1>3, <1>4, <1>8
  <2> QED BY <1>2, <1>6, <1>8, <2>1 DEF CardInv
<1>9. CASE s # <<>> /\ c.range = None
  <2>1. Last(s) \in SamplesOf(stored, selected) /\ UpdateSnapshotCards(Last(s))
    BY <1>2, <1>3, <1>9 DEF S
  <2>2. /\ card' \in 0..Len(stored') /\ cardTime' \in Nat
        /\ cardTime' # 0 => card' # 0 /\ stored'[card'] = selected'
        /\ cardTime' >= cardTime /\ cardTime' >= Last(s).at
    BY <2>1, CardShows
  <2> QED BY <1>2, <1>6, <1>9, <2>2 DEF CardInv
<1> QED BY <1>6, <1>7, <1>8, <1>9

LEMMA PushedOrdered ==
    ASSUME ChartInv, NEW p \in SamplesOf(stored, selected), p.at > chartTime
    PROVE  /\ Append(chart, p) \in Seq(SamplesOf(stored, selected))
           /\ Ordered(Append(chart, p))
<1> DEFINE S == SamplesOf(stored, selected)
           s == Append(chart, p)
<1>1. chart \in Seq(S) /\ p \in S /\ s \in Seq(S) /\ chartTime \in Nat
  BY DEF ChartInv
<1>2. \A q \in S : q.at \in Nat
  BY DEF SamplesOf, Points
<1> HIDE DEF S
<1>3. \A i \in DOMAIN chart : chart[i].at <= chartTime
  <2> SUFFICES ASSUME NEW i \in DOMAIN chart PROVE chart[i].at <= chartTime
    OBVIOUS
  <2>1. /\ chart # <<>> /\ i \in 1..Len(chart) /\ Len(chart) \in DOMAIN chart
        /\ chartTime = chart[Len(chart)].at
    BY <1>1 DEF ChartInv, Last
  <2>2. i # Len(chart) => chart[i].at < chart[Len(chart)].at
    BY <1>1, <2>1 DEF ChartInv, ChartOrdered
  <2>3. chart[i].at \in Nat
    BY <1>1, <1>2
  <2> QED BY <1>1, <2>1, <2>2, <2>3
<1>4. Ordered(s)
  <2> SUFFICES ASSUME NEW i \in DOMAIN s, NEW j \in DOMAIN s, i < j
               PROVE  s[i].at < s[j].at
    BY DEF Ordered
  <2>1. i \in DOMAIN chart /\ s[i] = chart[i] /\ chart[i].at \in Nat /\ p.at \in Nat
    BY <1>1, <1>2
  <2>2. \/ j = Len(chart) + 1 /\ s[j] = p
        \/ j \in DOMAIN chart /\ s[j] = chart[j]
    BY <1>1
  <2> QED BY <1>1, <1>3, <2>1, <2>2 DEF ChartInv, ChartOrdered
<1> QED BY <1>1, <1>4 DEF S

LEMMA MessagePicture ==
    ASSUME FeedTyped, ChartInv, CardInv, NEW m, NEW p \in SamplesOf(stored, managers[m].url.conn),
           MessageArrives(m, p)
    PROVE  ChartInv' /\ CardInv'
<1> DEFINE used  == Listening(m) /\ customRange = None /\ InRange(p.at, None)
           drawn == used /\ Drawn(p)
           S == SamplesOf(stored, selected)
<1>1. /\ live' = IF used THEN {q \in live \cup {p} : InRange(q.at, None)} ELSE live
      /\ IF used THEN UpdateSnapshotCards(p) ELSE UNCHANGED <<card, cardTime>>
      /\ chart' = IF drawn THEN LastOf(Append(chart, p), chartMaxPoints) ELSE chart
      /\ chartTime' = IF drawn THEN p.at ELSE chartTime
      /\ UNCHANGED <<stored, selected, chartMaxPoints, chartRange>>
  BY DEF MessageArrives, pageVars
<1>2. used => p \in S
  BY DEF Listening, IsCurrent
<1>3. \A q \in S : q.at \in Nat
  BY DEF SamplesOf, Points
<1>4. drawn => used /\ p.at > chartTime
  BY DEF Drawn
<1> HIDE DEF used, drawn
<1>5. CASE ~used
  <2>1. UNCHANGED <<view, selected>> /\ Extends(stored', stored)
    BY <1>1, <1>4, <1>5, StoredStays DEF view
  <2> QED BY <2>1, PictureKept
<1>6. CASE used
  <2>1. p \in S /\ UpdateSnapshotCards(p) /\ live \subseteq S /\ chart \in Seq(S)
    BY <1>1, <1>2, <1>6 DEF ChartInv
  <2>2. /\ card' \in 0..Len(stored') /\ cardTime' \in Nat
        /\ cardTime' # 0 => card' # 0 /\ stored'[card'] = selected'
        /\ cardTime' >= cardTime /\ cardTime' >= p.at
    BY <1>1, <2>1, CardShows
  <2>3. live' \subseteq SamplesOf(stored', selected')
    BY <1>1, <2>1
  <2>4. S \in SUBSET Points /\ \A i \in DOMAIN chart : chart[i] \in S
    BY <2>1 DEF SamplesOf
  <2>5. chartMaxPoints \in MinPoints..MaxPoints /\ chartMaxPoints \in Nat \ {0}
    BY DEF ChartInv
  <2> HIDE DEF S
  <2>6. CASE ~drawn
    <3>1. chart' = chart /\ chartTime' = chartTime
      BY <1>1, <2>6
    <3>2. chart' \in Seq(SamplesOf(stored', selected'))
      BY <1>1, <2>1, <3>1 DEF S
    <3> QED BY <1>1, <2>2, <2>3, <3>1, <3>2 DEF ChartInv, ChartOrdered, CardInv
  <2>7. CASE drawn
    <3> DEFINE s == Append(chart, p)
    <3>1. chart' = LastOf(s, chartMaxPoints) /\ chartTime' = p.at /\ p.at > chartTime /\ p.at \in Nat
      BY <1>1, <1>3, <1>4, <2>1, <2>7
    <3>2. s \in Seq(S) /\ Last(s) = p /\ Len(s) = Len(chart) + 1 /\ s # <<>>
      BY <2>1 DEF Last
    <3>4. Ordered(s)
      BY <2>1, <3>1, PushedOrdered DEF S
    <3> HIDE DEF s
    <3>5. /\ chart' \in Seq(S) /\ Len(chart') <= chartMaxPoints
          /\ \A i, j \in DOMAIN chart' : i < j => chart'[i].at < chart'[j].at
          /\ Last(chart') = p /\ chart' # <<>>
      <4>1. IsTail(chart', s, S, chartMaxPoints)
        BY <2>4, <2>5, <3>1, <3>2, <3>4, TailOf
      <4> QED BY <3>2, <4>1 DEF IsTail, Ordered
    <3>6. chart' \in Seq(SamplesOf(stored', selected'))
      BY <1>1, <3>5 DEF S
    <3>7. ChartInv'
      BY <1>1, <2>3, <2>5, <3>1, <3>5, <3>6 DEF ChartInv, ChartOrdered
    <3> QED BY <1>1, <2>2, <3>1, <3>5, <3>7 DEF CardInv
  <2> QED BY <2>6, <2>7
<1> QED BY <1>5, <1>6


-----------------------------------------------------------------------------
(* What a call brings: samples of the datasource it asked for and, if it is a
   history, all those of the window that were stored when it was made. *)
LEMMA AnswerTrue ==
    ASSUME FeedTyped, CallsInv, NEW c \in calls, NEW answer \in Answers(c) \cup {Failure}
    PROVE  /\ answer.data \in SUBSET SamplesOf(stored, c.conn)
           /\ c.range \in Ranges \cup {None}
<1>1. c.since \in 0..Len(stored) /\ c.range \in Ranges \cup {None}
  BY DEF CallsInv, CallsUpTo
<1>2. CASE answer = Failure
  BY <1>1, <1>2 DEF Failure
<1>3. CASE answer \in Answers(c)
  <2>1. PICK n \in c.since..Len(stored) : answer = [ok |-> TRUE, data |-> Read(c, n)]
    BY <1>3 DEF Answers
  <2>2. answer.data = Read(c, n) /\ n \in 0..Len(stored)
    BY <1>1, <2>1 DEF FeedTyped
  <2> QED BY <1>1, <2>2, ReadTrue DEF FeedTyped
<1> QED BY <1>2, <1>3

(* A history of the window brings what was stored when it was asked for, or as
   many newer samples as a query returns. *)
LEMMA AnswerComplete ==
    ASSUME FeedTyped, CallsInv, NEW c \in calls, c.kind \in {"history", "custom"},
           c.range = None, NEW answer \in Answers(c), NEW k \in 1..c.since,
           stored[k] = c.conn, InRange(2 * k, None)
    PROVE  \/ Point(k) \in answer.data
           \/ /\ Cardinality(answer.data) = MaxPoints
              /\ \A p \in answer.data : p.at > 2 * k
<1>1. c.since \in 0..Len(stored) /\ Len(stored) \in Nat
  BY DEF CallsInv, CallsUpTo, FeedTyped
<1>2. PICK n \in c.since..Len(stored) : answer = [ok |-> TRUE, data |-> Read(c, n)]
  BY DEF Answers
<1>3. k \in Samples(c.conn, n) /\ n \in 0..Len(stored)
  BY <1>1, <1>2 DEF Samples
<1>4. 2 * k + Window >= 2 * n + 1 /\ k \in Nat /\ n \in Nat
  BY <1>1, <1>2 DEF InRange, Clock
<1>5. answer.data = {p \in Snapshots(c.conn, n) : p.at + Window >= 2 * n + 1}
  BY <1>2 DEF Read
<1>6. CASE Point(k) \in Snapshots(c.conn, n)
  BY <1>4, <1>5, <1>6 DEF Point
<1>7. CASE /\ Cardinality(Snapshots(c.conn, n)) = MaxPoints
           /\ \A p \in Snapshots(c.conn, n) : p.at > 2 * k
  <2>1. \A p \in Snapshots(c.conn, n) : p.at \in Nat
    BY <1>3, SnapshotsTrue DEF SamplesOf, Points
  <2>2. answer.data = Snapshots(c.conn, n)
    BY <1>4, <1>5, <1>7, <2>1
  <2> QED BY <1>7, <2>2
<1> QED BY <1>3, <1>6, <1>7, SnapshotsTrue

(* Its points are samples as they were stored. *)
LEMMA AnswerStored ==
    ASSUME FeedTyped, CallsInv, NEW c \in calls, c.kind \in {"history", "custom"},
           NEW answer \in Answers(c) \cup {Failure}
    PROVE  \A p \in answer.data : p.at = 2 * p.id
<1>1. c.since \in 0..Len(stored) /\ Len(stored) \in Nat
  BY DEF CallsInv, CallsUpTo, FeedTyped
<1>2. CASE answer = Failure
  BY <1>2 DEF Failure
<1>3. CASE answer \in Answers(c)
  <2>1. PICK n \in c.since..Len(stored) : answer = [ok |-> TRUE, data |-> Read(c, n)]
    BY <1>3 DEF Answers
  <2>2. n \in 0..Len(stored)
    BY <1>1, <2>1
  <2>3. answer.data \subseteq Snapshots(c.conn, n)
    BY <2>1 DEF Read
  <2> QED BY <2>2, <2>3, SnapshotsTrue DEF Point
<1> QED BY <1>2, <1>3

LEMMA UserPicture ==
    ASSUME FeedTyped, FeedTyped', ChartInv, CardInv, User
    PROVE  ChartInv' /\ CardInv'
<1>0. chartMaxPoints \in MinPoints..MaxPoints /\ MinPoints \in MinPoints..MaxPoints
  BY DEF ChartInv
<1>1. CASE \E d \in Datasources : Render(d)
  <2>1. Forget /\ card' = 0 /\ UNCHANGED chartMaxPoints
    BY <1>1 DEF Render
  <2>2. card' \in 0..Len(stored')
    BY <2>1 DEF FeedTyped
  <2> QED BY <1>0, <2>1, <2>2, PictureForgotten
<1>2. CASE (\E d \in Datasources : SelectDatasource(d)) \/ SelectTimeRange \/ ResumeRealtime
  <2>1. Forget /\ card' = card /\ UNCHANGED <<stored, chartMaxPoints>>
    BY <1>2 DEF SelectDatasource, SelectTimeRange, ResumeRealtime, ReloadData
  <2>2. card' \in 0..Len(stored')
    BY <2>1 DEF CardInv
  <2> QED BY <1>0, <2>1, <2>2, PictureForgotten
<1>3. CASE Cleanup
  <2>1. /\ live' = {} /\ chart' = <<>> /\ chartMaxPoints' = MinPoints /\ chartRange' = None
        /\ UNCHANGED <<stored, selected, chartTime, card, cardTime>>
    BY <1>3 DEF Cleanup
  <2>2. chart' \in Seq(SamplesOf(stored', selected'))
    BY <2>1
  <2>3. ChartInv'
    BY <1>0, <2>1, <2>2 DEF ChartInv, ChartOrdered
  <2> QED BY <2>1, <2>3 DEF CardInv
<1>4. CASE PauseRealtime \/ Refresh \/ RetryRefresh \/ Retry \/ \E r \in Ranges : LoadCustomRange(r)
  <2>1. UNCHANGED <<view, selected, stored>>
    BY <1>4 DEF PauseRealtime, Refresh, RetryRefresh, ClickRefresh, Retry, LoadCustomRange, pageVars
  <2> QED BY <2>1, StoredStays, PictureKept
<1> QED BY <1>1, <1>2, <1>3, <1>4 DEF User

LEMMA ReturnsPicture ==
    ASSUME FeedTyped, CallsInv, ChartInv, CardInv, NEW c \in calls,
           NEW answer \in Answers(c) \cup {Failure}, Returns(c, answer)
    PROVE  ChartInv' /\ CardInv'
<1>1. UNCHANGED <<stored, selected>>
  BY DEF Returns, LatestReturns, HistoryReturns, CustomReturns, RefreshReturns
<1>2. answer.data \in SUBSET SamplesOf(stored, c.conn) /\ c.range \in Ranges \cup {None}
  BY AnswerTrue
<1>3. CASE UNCHANGED view
  BY <1>1, <1>3, StoredStays, PictureKept
<1>4. CASE LatestReturns(c, answer) /\ ~UNCHANGED view
  <2>1. PICK p \in answer.data : UpdateSnapshotCards(p) /\ IsCurrent(c.conn, c.version)
    BY <1>4 DEF LatestReturns, view
  <2>2. p \in SamplesOf(stored, selected)
    BY <1>2, <2>1 DEF IsCurrent
  <2>3. UNCHANGED <<live, chart, chartMaxPoints, chartTime, chartRange>>
    BY <1>4 DEF LatestReturns
  <2>4. /\ card' \in 0..Len(stored') /\ cardTime' \in Nat
        /\ cardTime' # 0 => card' # 0 /\ stored'[card'] = selected'
        /\ cardTime' >= cardTime
    BY <1>1, <2>1, <2>2, CardShows
  <2>5. ChartInv'
    BY <1>1, <2>3 DEF ChartInv, ChartOrdered
  <2>6. cardTime \in Nat /\ chartTime \in Nat
    BY DEF ChartInv, CardInv
  <2> QED BY <2>3, <2>4, <2>5, <2>6 DEF CardInv
<1>5. CASE (HistoryReturns(c, answer) \/ CustomReturns(c, answer)) /\ ~UNCHANGED view
  <2>1. ShowHistory(c, answer.data) /\ Fresh(c)
    BY <1>5 DEF HistoryReturns, CustomReturns
  <2>2. answer.data \in SUBSET SamplesOf(stored, selected)
    BY <1>2, <2>1 DEF Fresh, IsCurrent
  <2> QED BY <1>1, <1>2, <2>1, <2>2, HistoryPicture
<1>6. RefreshReturns(c, answer) => UNCHANGED view
  BY DEF RefreshReturns
<1> QED BY <1>3, <1>4, <1>5, <1>6 DEF Returns

(* A packet of a socket, or the latest sample it is to greet with, is a sample
   of the datasource the socket listens to. *)
LEMMA PacketTrue ==
    ASSUME FeedTyped, InboxesTrue, NEW m \in DOMAIN managers, managers[m].inbox # <<>>,
           NEW s \in Greetings(m), NEW p \in s
    PROVE  p \in SamplesOf(stored, managers[m].url.conn)
<1> DEFINE d == managers[m].url.conn
           box == managers[m].inbox
           h == Head(box)
<1>1. h \in PacketsOf(stored, d)
  <2>1. box \in Seq(PacketsOf(stored, d)) /\ box # <<>>
    BY DEF InboxesTrue
  <2> HIDE DEF box, d
  <2> QED BY <2>1
<1>2. CASE h.id # 0
  <2>1. h \in SamplesOf(stored, d)
    BY <1>1, <1>2 DEF PacketsOf
  <2>2. s = {h}
    BY <1>2 DEF Greetings
  <2> QED BY <2>1, <2>2
<1>3. CASE h.id = 0
  <2>1. PICK n \in h.at..Len(stored) : s = Latest(d, n)
    BY <1>3 DEF Greetings
  <2>2. h.at \in Nat
    BY <1>1 DEF PacketsOf, SamplesOf, Points
  <2>3. n \in 0..Len(stored)
    BY <2>1, <2>2 DEF FeedTyped
  <2> HIDE DEF d
  <2> QED BY <2>1, <2>3, LatestTrue DEF FeedTyped, d
<1> QED BY <1>2, <1>3

LEMMA StepPicture ==
    ASSUME FeedInv, FeedInv', InboxesTrue, CallsInv, ChartInv, CardInv, [Next]_vars
    PROVE  ChartInv' /\ CardInv'
<1>1. FeedTyped /\ FeedTyped'
  BY DEF FeedInv
<1>2. ASSUME UNCHANGED <<view, selected, stored>> PROVE ChartInv' /\ CardInv'
  BY <1>1, <1>2, StoredStays, PictureKept
<1>3. ASSUME NEW m \in DOMAIN managers, PacketArrives(m) PROVE ChartInv' /\ CardInv'
  <2>1. CASE \E s \in Greetings(m) : \E p \in s : MessageArrives(m, p)
    <3>1. PICK s \in Greetings(m) : \E p \in s : MessageArrives(m, p)
      BY <2>1
    <3>2. PICK p \in s : MessageArrives(m, p)
      BY <3>1
    <3>3. p \in SamplesOf(stored, managers[m].url.conn)
      BY <1>1, <1>3, PacketTrue DEF PacketArrives
    <3> QED BY <1>1, <3>2, <3>3, MessagePicture
  <2>2. CASE UNCHANGED <<stored, calls, pageVars, view, status>>
    BY <1>2, <2>2 DEF pageVars
  <2> QED BY <1>3, <2>1, <2>2 DEF PacketArrives
<1>4. ASSUME NEW m, SocketOpens(m) \/ SocketCloses(m) \/ TimerFires(m)
      PROVE  ChartInv' /\ CardInv'
  BY <1>2, <1>4 DEF SocketOpens, SocketCloses, TimerFires, pageVars
<1>5. ASSUME NEW d \in Datasources, Collect(d) PROVE ChartInv' /\ CardInv'
  <2>1. UNCHANGED <<view, selected>>
    BY <1>5 DEF Collect, pageVars
  <2> QED BY <1>1, <1>5, <2>1, CollectInboxes, PictureKept
<1>6. CASE Works
  BY <1>1, <1>3, <1>4, <1>5, <1>6, ReturnsPicture DEF Works
<1>7. CASE Fails
  BY <1>1, <1>4, <1>7, ReturnsPicture DEF Fails
<1>8. CASE UNCHANGED vars
  BY <1>2, <1>8 DEF vars, pageVars
<1> QED BY <1>1, <1>6, <1>7, <1>8, UserPicture DEF Next


-----------------------------------------------------------------------------
(* What the charts show of the window can be had again: what a packet brought is
   in the live feed, and so is what the newest history in flight may miss. *)
PushedKeep ==
    chartRange = None =>
        \A i \in DOMAIN chart :
            \/ chart[i].at = 2 * chart[i].id
            \/ \E p \in live : p.id = chart[i].id /\ p.at >= chart[i].at
            \/ ~InRange(chart[i].at, None)

CallsKeep ==
    chartRange = None =>
        \A c \in calls : c.kind \in {"history", "custom"} /\ c.seq = request =>
            \A i \in DOMAIN chart :
                \/ chart[i].id <= c.since
                \/ \E p \in live : p.id = chart[i].id /\ p.at >= chart[i].at
                \/ ~InRange(chart[i].at, None)

PendingKeeps == PushedKeep /\ CallsKeep

(* Time only moves on: what has left the window stays out of it. *)
LEMMA WindowMoves ==
    ASSUME Extends(stored', stored), NEW t \in Nat, ~InRange(t, None)
    PROVE  ~InRange(t, None)'
BY DEF Extends, InRange, Clock

LEMMA PendingSame ==
    ASSUME FeedTyped, ChartInv, PendingKeeps, Extends(stored', stored),
           UNCHANGED <<live, chart, chartRange>>,
           \A c \in calls' : c.kind \in {"history", "custom"} /\ c.seq = request' =>
               c.since = Len(stored) \/ (c \in calls /\ c.seq = request)
    PROVE  PendingKeeps'
<1>0. \A i \in DOMAIN chart : /\ chart[i].id \in 1..Len(stored) /\ Len(stored) \in Nat
                              /\ chart[i].at \in Nat
  BY DEF ChartInv, SamplesOf, Points, FeedTyped
<1>1. PushedKeep'
  BY <1>0, WindowMoves DEF PendingKeeps, PushedKeep
<1>2. CallsKeep'
  <2> SUFFICES ASSUME chartRange = None, NEW c \in calls', c.kind \in {"history", "custom"},
                      c.seq = request', NEW i \in DOMAIN chart
               PROVE  \/ chart[i].id <= c.since
                      \/ \E p \in live : p.id = chart[i].id /\ p.at >= chart[i].at
                      \/ ~InRange(chart[i].at, None)'
    BY DEF CallsKeep
  <2>1. CASE c.since = Len(stored)
    BY <1>0, <2>1
  <2>2. CASE c \in calls /\ c.seq = request
    <3>1. \/ chart[i].id <= c.since
          \/ \E p \in live : p.id = chart[i].id /\ p.at >= chart[i].at
          \/ ~InRange(chart[i].at, None)
      BY <2>2 DEF PendingKeeps, CallsKeep
    <3> QED BY <1>0, <3>1, WindowMoves
  <2> QED BY <2>1, <2>2
<1> QED BY <1>1, <1>2 DEF PendingKeeps

(* No call is made, and what is left of the picture's history stays. *)
LEMMA PendingQuiet ==
    ASSUME FeedTyped, ChartInv, PendingKeeps, Extends(stored', stored),
           UNCHANGED <<live, chart, chartRange, request>>, calls' \subseteq calls
    PROVE  PendingKeeps'
BY PendingSame

LEMMA LoadIsNew ==
    ASSUME FeedTyped, CallsInv, NEW conn, NEW range, NEW v, NEW from, NEW kept,
           kept \subseteq calls, calls' = kept \cup LoadData(conn, range, v, from),
           request' = request + 1
    PROVE  \A c \in calls' : c.seq = request' => c.since = Len(stored)
<1>1. \A c \in kept : c.seq # request'
  BY DEF CallsInv, CallsUpTo, ControlsTyped
<1>2. ASSUME NEW c \in LoadData(conn, range, v, from) PROVE c.since = Len(stored)
  <2>1. PICK k : c = [Call(k, conn, range, v, request + 1) EXCEPT !.from = from]
    BY <1>2 DEF LoadData
  <2> QED BY <2>1 DEF Call
<1> QED BY <1>1, <1>2

LEMMA UserPending ==
    ASSUME FeedTyped, CallsInv, ChartInv, PendingKeeps, User
    PROVE  PendingKeeps'
<1>1. CASE chart' = <<>>
  BY <1>1 DEF PendingKeeps, PushedKeep, CallsKeep
<1>2. ASSUME chart' # <<>> PROVE ~\E d \in Datasources : Render(d) \/ SelectDatasource(d)
  BY <1>2 DEF Render, SelectDatasource, ReloadData, Forget
<1>3. ASSUME chart' # <<>> PROVE ~(Cleanup \/ SelectTimeRange \/ ResumeRealtime)
  BY <1>3 DEF Cleanup, SelectTimeRange, ResumeRealtime, ReloadData, Forget
<1>4. CASE PauseRealtime
  <2>1. UNCHANGED <<live, chart, chartRange, request, calls, stored>>
    BY <1>4 DEF PauseRealtime, view
  <2> QED BY <2>1, StoredStays, PendingQuiet
<1>5. CASE Refresh \/ RetryRefresh
  <2>1. /\ UNCHANGED <<live, chart, chartRange, request, stored>>
        /\ calls' = calls \cup {[Call("refresh", selected, None, version, 0)
                                   EXCEPT !.from = "refresh"]}
    BY <1>5 DEF Refresh, RetryRefresh, ClickRefresh, view
  <2>2. [Call("refresh", selected, None, version, 0) EXCEPT !.from = "refresh"].kind = "refresh"
    BY DEF Call
  <2> QED BY <2>1, <2>2, StoredStays, PendingSame
<1>6. CASE Retry
  <2>1. /\ UNCHANGED <<live, chart, chartRange, stored>> /\ request' = request + 1
        /\ calls' = calls \cup LoadData(selected, customRange, version, "retry")
    BY <1>6 DEF Retry, view
  <2> QED BY <2>1, LoadIsNew, StoredStays, PendingSame
<1>7. ASSUME NEW r \in Ranges, LoadCustomRange(r) PROVE PendingKeeps'
  <2> DEFINE c == [Call("custom", selected, r, version, request + 1)
                      EXCEPT !.previous = customRange, !.wasRealtime = isRealtime]
  <2>1. /\ UNCHANGED <<live, chart, chartRange, stored>> /\ request' = request + 1
        /\ calls' = calls \cup {c}
    BY <1>7 DEF LoadCustomRange, view
  <2>2. c.since = Len(stored)
    BY DEF Call
  <2>3. \A b \in calls : b.seq # request'
    BY <2>1 DEF CallsInv, CallsUpTo, ControlsTyped
  <2> HIDE DEF c
  <2> QED BY <2>1, <2>2, <2>3, StoredStays, PendingSame
<1> QED BY <1>1, <1>2, <1>3, <1>4, <1>5, <1>6, <1>7 DEF User

(* What _loadHistory draws came with its answer or by the socket. *)
LEMMA HistoryShows ==
    ASSUME FeedTyped, ChartInv, NEW c, NEW data \in SUBSET SamplesOf(stored, selected),
           ShowHistory(c, data), NEW i \in DOMAIN chart'
    PROVE  (\E p \in data \cup live : p = chart'[i]) /\ UNCHANGED live
<1> DEFINE S == SamplesOf(stored, selected)
           s == Merged(c, data)
<1>1. /\ s \in Seq(S)
      /\ \A k, j \in DOMAIN s : k < j => s[k].at < s[j].at
      /\ \A j \in DOMAIN s : s[j] \in data \cup live
  BY MergedPoints
<1>2. chartMaxPoints' = Capacity(Len(s)) /\ chart' = LastOf(s, chartMaxPoints') /\ UNCHANGED live
  BY DEF ShowHistory
<1>3. S \in SUBSET Points
  BY DEF SamplesOf
<1> HIDE DEF S, s
<1>4. Ordered(s) /\ chartMaxPoints' \in Nat \ {0}
  <2>1. Len(s) \in Nat
    BY <1>1
  <2>2. Capacity(Len(s)) \in MinPoints..MaxPoints
    BY <2>1, CapacityBounds
  <2> QED BY <1>1, <1>2, <2>2 DEF Ordered
<1>5. IsTail(chart', s, S, chartMaxPoints')
  BY <1>1, <1>2, <1>3, <1>4, TailOf
<1> QED BY <1>1, <1>2, <1>5 DEF IsTail

LEMMA ReturnsPending ==
    ASSUME FeedTyped, CallsInv, ChartInv, PendingKeeps, NEW c \in calls,
           NEW answer \in Answers(c) \cup {Failure}, Returns(c, answer)
    PROVE  PendingKeeps'
<1>1. CASE LatestReturns(c, answer)
  <2>1. UNCHANGED <<live, chart, chartRange, request, stored>> /\ calls' \subseteq calls
    BY <1>1 DEF LatestReturns
  <2> QED BY <2>1, StoredStays, PendingQuiet
<1>2. CASE HistoryReturns(c, answer) \/ CustomReturns(c, answer)
  <2>1. /\ c.kind \in {"history", "custom"} /\ calls' = calls \ {c}
        /\ UNCHANGED <<request, stored>>
        /\ UNCHANGED view \/ (Fresh(c) /\ ShowHistory(c, answer.data))
    BY <1>2 DEF HistoryReturns, CustomReturns
  <2>2. CASE UNCHANGED view
    <3>1. UNCHANGED <<live, chart, chartRange>> /\ calls' \subseteq calls
      BY <2>1, <2>2 DEF view
    <3> QED BY <2>1, <3>1, StoredStays, PendingQuiet
  <2>3. CASE Fresh(c) /\ ShowHistory(c, answer.data)
    <3>1. c.seq = request /\ c.conn = selected
      BY <2>3 DEF Fresh, IsCurrent
    <3>2. CallsKeep'
      <4>1. \A o \in calls' : ~(o.kind \in {"history", "custom"} /\ o.seq = request')
        BY <2>1, <3>1 DEF CallsInv, OneLoad
      <4> QED BY <4>1 DEF CallsKeep
    <3>3. PushedKeep'
      <4> SUFFICES ASSUME chartRange' = None, NEW i \in DOMAIN chart'
                   PROVE  \/ chart'[i].at = 2 * chart'[i].id
                          \/ \E p \in live' : p.id = chart'[i].id /\ p.at >= chart'[i].at
        BY DEF PushedKeep
      <4>1. answer.data \in SUBSET SamplesOf(stored, selected)
        BY <3>1, AnswerTrue
      <4>2. /\ \E p \in answer.data \cup live : p = chart'[i]
            /\ UNCHANGED live
        BY <2>3, <4>1, HistoryShows
      <4>3. \A p \in answer.data : p.at = 2 * p.id
        BY <2>1, AnswerStored
      <4>4. \A p \in live : p.at \in Nat
        BY DEF ChartInv, SamplesOf, Points
      <4> QED BY <4>2, <4>3, <4>4
    <3> QED BY <3>2, <3>3 DEF PendingKeeps
  <2> QED BY <2>1, <2>2, <2>3
<1>3. CASE RefreshReturns(c, answer)
  <2> DEFINE more == IsCurrent(c.conn, c.version) /\ answer.ok
  <2>1. /\ UNCHANGED <<live, chart, chartRange, stored>>
        /\ more => /\ request' = request + 1
                   /\ calls' = (calls \ {c}) \cup LoadData(c.conn, customRange, version, c.from)
        /\ ~more => request' = request /\ calls' = calls \ {c}
    BY <1>3 DEF RefreshReturns, view
  <2> HIDE DEF more
  <2>2. CASE more
    <3>1. calls \ {c} \subseteq calls
      OBVIOUS
    <3>2. \A b \in calls' : b.seq = request' => b.since = Len(stored)
      BY <2>1, <2>2, <3>1, LoadIsNew
    <3> QED BY <2>1, <3>2, StoredStays, PendingSame
  <2>3. CASE ~more
    <3>1. calls' \subseteq calls /\ request' = request
      BY <2>1, <2>3
    <3> QED BY <2>1, <3>1, StoredStays, PendingQuiet
  <2> QED BY <2>2, <2>3
<1> QED BY <1>1, <1>2, <1>3 DEF Returns

LEMMA MessagePending ==
    ASSUME FeedTyped, ChartInv, PendingKeeps, NEW m,
           NEW p \in SamplesOf(stored, managers[m].url.conn), MessageArrives(m, p)
    PROVE  PendingKeeps'
<1> DEFINE used  == Listening(m) /\ customRange = None /\ InRange(p.at, None)
           drawn == used /\ Drawn(p)
<1>1. /\ live' = IF used THEN {q \in live \cup {p} : InRange(q.at, None)} ELSE live
      /\ chart' = IF drawn THEN LastOf(Append(chart, p), chartMaxPoints) ELSE chart
      /\ UNCHANGED <<stored, chartRange, calls, request>>
      /\ drawn => used
      /\ used => InRange(p.at, None)
  BY DEF MessageArrives, pageVars
<1>2. /\ p.at \in Nat
      /\ \A q \in live : q.at \in Nat
      /\ \A i \in DOMAIN chart : chart[i].at \in Nat
  BY DEF ChartInv, SamplesOf, Points
<1>3. \A i \in DOMAIN chart' : chart'[i] = p \/ \E j \in DOMAIN chart : chart'[i] = chart[j]
  <2> DEFINE s == Append(chart, p)
  <2>1. /\ s \in Seq(SamplesOf(stored, selected) \cup {p})
        /\ \A i \in DOMAIN s : s[i] = p \/ \E j \in DOMAIN chart : s[i] = chart[j]
    BY DEF ChartInv
  <2>2. chartMaxPoints \in Nat
    BY DEF ChartInv
  <2> HIDE DEF s
  <2>3. \A i \in DOMAIN LastOf(s, chartMaxPoints) :
            \E j \in DOMAIN s : LastOf(s, chartMaxPoints)[i] = s[j]
    BY <2>1, <2>2, LastEntries
  <2>4. chart' = LastOf(s, chartMaxPoints) \/ chart' = chart
    BY <1>1 DEF s
  <2> QED BY <2>1, <2>3, <2>4
<1> HIDE DEF used, drawn
<1>4. CASE ~used
  <2>1. UNCHANGED <<live, chart, chartRange, calls, request, stored>>
    BY <1>1, <1>4
  <2> QED BY <2>1, StoredStays, PendingQuiet
<1>5. CASE used
  <2>1. p \in live' /\ Clock \in Nat /\ Clock' = Clock
    BY <1>1, <1>5 DEF Clock, FeedTyped
  <2>2. \A q \in live : q \in live' \/ ~InRange(q.at, None)
    BY <1>1, <1>5
  <2>3. ASSUME NEW j \in DOMAIN chart, NEW q \in live, q.id = chart[j].id, q.at >= chart[j].at
        PROVE  \/ \E r \in live' : r.id = chart[j].id /\ r.at >= chart[j].at
               \/ ~(chart[j].at + Window >= Clock)
    <3>1. CASE q \in live'
      BY <2>3, <3>1
    <3>2. CASE ~InRange(q.at, None)
      BY <1>2, <2>1, <2>3, <3>2 DEF InRange
    <3> QED BY <2>2, <3>1, <3>2
  <2>4. PushedKeep'
    <3> SUFFICES ASSUME chartRange = None, NEW i \in DOMAIN chart'
                 PROVE  \/ chart'[i].at = 2 * chart'[i].id
                        \/ \E r \in live' : r.id = chart'[i].id /\ r.at >= chart'[i].at
                        \/ ~(chart'[i].at + Window >= Clock')
      BY <1>1 DEF PushedKeep, InRange
    <3>1. CASE chart'[i] = p
      BY <1>2, <2>1, <3>1
    <3>2. ASSUME NEW j \in DOMAIN chart, chart'[i] = chart[j]
          PROVE  \/ chart[j].at = 2 * chart[j].id
                 \/ \E r \in live' : r.id = chart[j].id /\ r.at >= chart[j].at
                 \/ ~(chart[j].at + Window >= Clock)
      BY <2>3 DEF PendingKeeps, PushedKeep, InRange
    <3> QED BY <1>3, <2>1, <3>1, <3>2
  <2>5. CallsKeep'
    <3> SUFFICES ASSUME chartRange = None, NEW c \in calls, c.kind \in {"history", "custom"},
                        c.seq = request, NEW i \in DOMAIN chart'
                 PROVE  \/ chart'[i].id <= c.since
                        \/ \E r \in live' : r.id = chart'[i].id /\ r.at >= chart'[i].at
                        \/ ~(chart'[i].at + Window >= Clock')
      BY <1>1 DEF CallsKeep, InRange
    <3>1. CASE chart'[i] = p
      BY <1>2, <2>1, <3>1
    <3>2. ASSUME NEW j \in DOMAIN chart, chart'[i] = chart[j]
          PROVE  \/ chart[j].id <= c.since
                 \/ \E r \in live' : r.id = chart[j].id /\ r.at >= chart[j].at
                 \/ ~(chart[j].at + Window >= Clock)
      BY <2>3 DEF PendingKeeps, CallsKeep, InRange
    <3> QED BY <1>3, <2>1, <3>1, <3>2
  <2> QED BY <2>4, <2>5 DEF PendingKeeps
<1> QED BY <1>4, <1>5

LEMMA StepPending ==
    ASSUME FeedInv, InboxesTrue, CallsInv, ChartInv, PendingKeeps, [Next]_vars
    PROVE  PendingKeeps'
<1>1. FeedTyped
  BY DEF FeedInv
<1>2. ASSUME UNCHANGED <<live, chart, chartRange, calls, request, stored>> PROVE PendingKeeps'
  BY <1>1, <1>2, StoredStays, PendingQuiet
<1>3. ASSUME NEW m \in DOMAIN managers, PacketArrives(m) PROVE PendingKeeps'
  <2>1. CASE \E s \in Greetings(m) : \E p \in s : MessageArrives(m, p)
    <3>1. PICK s \in Greetings(m) : \E p \in s : MessageArrives(m, p)
      BY <2>1
    <3>2. PICK p \in s : MessageArrives(m, p)
      BY <3>1
    <3>3. p \in SamplesOf(stored, managers[m].url.conn)
      BY <1>1, <1>3, PacketTrue DEF PacketArrives
    <3> QED BY <1>1, <3>2, <3>3, MessagePending
  <2>2. CASE UNCHANGED <<stored, calls, pageVars, view, status>>
    BY <1>2, <2>2 DEF pageVars, view
  <2> QED BY <1>3, <2>1, <2>2 DEF PacketArrives
<1>4. ASSUME NEW m, SocketOpens(m) \/ SocketCloses(m) \/ TimerFires(m)
      PROVE  PendingKeeps'
  BY <1>2, <1>4 DEF SocketOpens, SocketCloses, TimerFires, pageVars, view
<1>5. ASSUME NEW d \in Datasources, Collect(d) PROVE PendingKeeps'
  <2>1. UNCHANGED <<live, chart, chartRange, calls, request>>
    BY <1>5 DEF Collect, pageVars, view
  <2>2. Extends(stored', stored)
    BY <1>5, <1>1 DEF Collect, Extends, FeedTyped
  <2> QED BY <1>1, <2>1, <2>2, PendingQuiet
<1>6. CASE Works
  BY <1>1, <1>3, <1>4, <1>5, <1>6, ReturnsPending DEF Works
<1>7. CASE Fails
  BY <1>1, <1>4, <1>7, ReturnsPending DEF Fails
<1>8. CASE UNCHANGED vars
  BY <1>2, <1>8 DEF vars, pageVars, view
<1> QED BY <1>1, <1>6, <1>7, <1>8, UserPending DEF Next


-----------------------------------------------------------------------------
(* What one step may do to the charts while the selection lasts *)
LEMMA ChartStep ==
    ASSUME FeedInv, InboxesTrue, Next, version' = version
    PROVE  \/ UNCHANGED chart
           \/ \E p \in SamplesOf(stored, selected) :
                  /\ p.at > chartTime /\ UNCHANGED chartMaxPoints
                  /\ chart' = LastOf(Append(chart, p), chartMaxPoints)
           \/ \E c \in calls : \E answer \in Answers(c) :
                  /\ c.kind \in {"history", "custom"} /\ Fresh(c)
                  /\ ShowHistory(c, answer.data) /\ UNCHANGED stored
<1>1. version \in Nat /\ version + 1 # version /\ FeedTyped
  BY DEF FeedInv, FeedTyped
<1>2. CASE User
  <2>1. ~((\E d \in Datasources : Render(d) \/ SelectDatasource(d))
            \/ Cleanup \/ SelectTimeRange \/ ResumeRealtime)
    BY <1>1 DEF Render, SelectDatasource, Cleanup, SelectTimeRange, ResumeRealtime, ReloadData
  <2>2. \/ PauseRealtime \/ Refresh \/ RetryRefresh \/ Retry
        \/ \E r \in Ranges : LoadCustomRange(r)
    BY <1>2, <2>1 DEF User
  <2> QED BY <2>2 DEF PauseRealtime, Refresh, RetryRefresh, ClickRefresh, Retry,
                      LoadCustomRange, view
<1>3. ASSUME NEW c \in calls, NEW answer \in Answers(c) \cup {Failure}, Returns(c, answer)
      PROVE  \/ UNCHANGED chart
             \/ /\ answer \in Answers(c)
                /\ c.kind \in {"history", "custom"} /\ Fresh(c)
                /\ ShowHistory(c, answer.data) /\ UNCHANGED stored
  <2>1. CASE LatestReturns(c, answer) \/ RefreshReturns(c, answer)
    BY <2>1 DEF LatestReturns, RefreshReturns, view
  <2>2. CASE HistoryReturns(c, answer) \/ CustomReturns(c, answer)
    <3>1. /\ c.kind \in {"history", "custom"} /\ UNCHANGED stored
          /\ UNCHANGED view \/ (answer.ok /\ Fresh(c) /\ ShowHistory(c, answer.data))
      BY <2>2 DEF HistoryReturns, CustomReturns
    <3>2. answer.ok => answer \in Answers(c)
      BY DEF Failure
    <3> QED BY <3>1, <3>2 DEF view
  <2> QED BY <1>3, <2>1, <2>2 DEF Returns
<1>4. ASSUME NEW m, SocketOpens(m) \/ SocketCloses(m) \/ TimerFires(m)
      PROVE  UNCHANGED chart
  BY <1>4 DEF SocketOpens, SocketCloses, TimerFires, view
<1>5. ASSUME NEW d, Collect(d) PROVE UNCHANGED chart
  BY <1>5 DEF Collect, view
<1>6. ASSUME NEW m \in DOMAIN managers, PacketArrives(m)
      PROVE  \/ UNCHANGED chart
             \/ \E p \in SamplesOf(stored, selected) :
                    /\ p.at > chartTime /\ UNCHANGED chartMaxPoints
                    /\ chart' = LastOf(Append(chart, p), chartMaxPoints)
  <2>1. CASE \E s \in Greetings(m) : \E p \in s : MessageArrives(m, p)
    <3>1. PICK s \in Greetings(m) : \E p \in s : MessageArrives(m, p)
      BY <2>1
    <3>2. PICK p \in s : MessageArrives(m, p)
      BY <3>1
    <3>3. p \in SamplesOf(stored, managers[m].url.conn)
      BY <1>1, <1>6, <3>1, PacketTrue DEF PacketArrives
    <3>4. \/ UNCHANGED chart
          \/ /\ managers[m].url.conn = selected
             /\ p.at > chartTime /\ UNCHANGED chartMaxPoints
             /\ chart' = LastOf(Append(chart, p), chartMaxPoints)
      BY <3>2 DEF MessageArrives, Listening, IsCurrent, Drawn
    <3> QED BY <3>3, <3>4
  <2>2. CASE UNCHANGED view
    BY <2>2 DEF view
  <2> QED BY <1>6, <2>1, <2>2 DEF PacketArrives
<1>7. CASE Works
  BY <1>3, <1>4, <1>5, <1>6, <1>7 DEF Works
<1>8. CASE Fails
  BY <1>3, <1>4, <1>8 DEF Fails
<1> QED BY <1>2, <1>7, <1>8 DEF Next

(* The charts are full, and all that they show is newer than sample k. *)
Crowded(k) == Len(chart') = chartMaxPoints' /\ \A l \in Shown' : k < l

LEMMA NewerAre ==
    ASSUME NEW S, NEW k \in Nat, k \notin Shown', chart' \in Seq(S),
           \A p \in S : p.id \in Nat /\ p.at \in {2 * p.id, 2 * p.id + 1},
           \A l \in DOMAIN chart' : chart'[l].at > 2 * k,
           Len(chart') = chartMaxPoints'
    PROVE  Crowded(k)
<1>1. ASSUME NEW l \in DOMAIN chart' PROVE k < chart'[l].id
  <2>1. /\ chart'[l].id \in Nat /\ chart'[l].id # k /\ chart'[l].at > 2 * k
        /\ chart'[l].at \in {2 * chart'[l].id, 2 * chart'[l].id + 1}
    BY DEF Shown
  <2> QED BY <2>1
<1> QED BY <1>1 DEF Crowded, Shown

(* A packet pushes out the oldest point. *)
LEMMA PacketKeepsSamples ==
    ASSUME FeedTyped, ChartInv, NEW p \in SamplesOf(stored, selected), p.at > chartTime,
           UNCHANGED chartMaxPoints, chart' = LastOf(Append(chart, p), chartMaxPoints),
           NEW i \in DOMAIN chart, chart[i].id \notin Shown'
    PROVE  Crowded(chart[i].id)
<1> DEFINE S == SamplesOf(stored, selected)
           s == Append(chart, p)
<1>1. s \in Seq(S) /\ Ordered(s) /\ chart \in Seq(S)
  BY PushedOrdered DEF ChartInv
<1>2. S \in SUBSET Points /\ chartMaxPoints \in Nat \ {0}
  BY DEF SamplesOf, ChartInv
<1>3. \A q \in S : q.id \in Nat /\ q.at \in Nat /\ q.at \in {2 * q.id, 2 * q.id + 1}
  BY DEF SamplesOf, Points
<1>4. i \in DOMAIN s /\ s[i] = chart[i] /\ chart[i] \in S
  BY <1>1
<1> HIDE DEF S, s
<1>5. IsTail(chart', s, S, chartMaxPoints)
  BY <1>1, <1>2, TailOf DEF s
<1>6. chart' \in Seq(S) /\ \A l \in DOMAIN chart' : chart'[l] \in S
  BY <1>5 DEF IsTail
<1>7. \A l \in DOMAIN chart' : chart'[l] # chart[i]
  BY DEF Shown
<1>8. /\ Len(chart') = chartMaxPoints
      /\ \A l \in DOMAIN chart' : chart[i].at < chart'[l].at
  BY <1>4, <1>5, <1>7 DEF IsTail
<1>9. ASSUME NEW l \in DOMAIN chart' PROVE chart'[l].at > 2 * chart[i].id
  <2>1. /\ chart[i].id \in Nat /\ chart[i].at \in Nat /\ chart'[l].at \in Nat
        /\ chart[i].at = 2 * chart[i].id \/ chart[i].at = 2 * chart[i].id + 1
    BY <1>3, <1>4, <1>6
  <2>2. chart[i].at < chart'[l].at
    BY <1>8
  <2> QED BY <2>1, <2>2
<1> QED BY <1>3, <1>4, <1>6, <1>8, <1>9, NewerAre

(* A history that does not show a point of the charts has no room for it. *)
LEMMA HistoryKeepsSamples ==
    ASSUME FeedTyped, CallsInv, ChartInv, PendingKeeps, NEW c \in calls,
           NEW answer \in Answers(c), c.kind \in {"history", "custom"}, Fresh(c),
           ShowHistory(c, answer.data), UNCHANGED stored,
           chartRange = None, chartRange' = None,
           NEW i \in DOMAIN chart, InRange(chart[i].at, None), chart[i].id \notin Shown'
    PROVE  Crowded(chart[i].id)
<1> DEFINE S == SamplesOf(stored, selected)
           s == Merged(c, answer.data)
           points == {p \in answer.data \cup live : InRange(p.at, None)}
           k == chart[i].id
<1>1. c.range = None /\ c.conn = selected /\ c.seq = request
  BY DEF ShowHistory, Fresh, IsCurrent
<1>2. answer.data \in SUBSET S
  BY <1>1, AnswerTrue
<1>3. /\ s \in Seq(S)
      /\ \A j, l \in DOMAIN s : j < l => s[j].at < s[l].at
      /\ \A p \in points : \E j \in DOMAIN s : s[j] = p
  <2>1. /\ s \in Seq(S)
        /\ \A j, l \in DOMAIN s : j < l => s[j].at < s[l].at
    BY <1>2, MergedPoints
  <2> DEFINE merged == {p \in answer.data \cup (IF c.range = None THEN live ELSE {}) :
                           InRange(p.at, c.range)}
  <2>2. \A p \in merged : \E j \in DOMAIN s : s[j] = p
    <3> HIDE DEF s
    <3> QED BY <1>2, MergedPoints DEF s
  <2>3. points = merged
    BY <1>1
  <2> QED BY <2>1, <2>2, <2>3
<1>4. /\ chartMaxPoints' = Capacity(Len(s)) /\ chart' = LastOf(s, chartMaxPoints')
      /\ Len(s) \in Nat
  BY <1>3 DEF ShowHistory
<1>5. chartMaxPoints' \in Nat \ {0} /\ (Len(s) >= MaxPoints => chartMaxPoints' = MaxPoints)
  BY <1>4, CapacityBounds
<1>6. S \in SUBSET Points
  BY DEF SamplesOf
<1>7. \A q \in S : q.id \in Nat /\ q.at \in Nat /\ q.at \in {2 * q.id, 2 * q.id + 1}
  BY DEF SamplesOf, Points
<1>8. /\ chart[i] \in S /\ k \in 1..Len(stored) /\ stored[k] = selected
      /\ Len(stored) \in Nat /\ Clock \in Nat /\ live \subseteq S
  BY DEF ChartInv, SamplesOf, FeedTyped, Clock
<1>9. c.since \in Nat
  BY DEF CallsInv, CallsUpTo, FeedTyped
<1>10. \/ \E p \in live : p.id = k /\ p.at >= chart[i].at
       \/ chart[i].at = 2 * k /\ k <= c.since
  BY <1>1 DEF PendingKeeps, PushedKeep, CallsKeep
<1> HIDE DEF S, s, k
<1>11. IsTail(chart', s, S, chartMaxPoints')
  BY <1>3, <1>4, <1>5, <1>6, TailOf DEF Ordered
<1>12. chart' \in Seq(S) /\ \A l \in DOMAIN chart' : chart'[l] \in S
  BY <1>11 DEF IsTail
<1>13. ASSUME NEW p \in points, p.id = k PROVE Crowded(k)
  <2>1. PICK j \in DOMAIN s : s[j] = p
    BY <1>3
  <2>2. \A l \in DOMAIN chart' : chart'[l] # p
    BY <1>13 DEF Shown, k
  <2>3. Len(chart') = chartMaxPoints' /\ \A l \in DOMAIN chart' : p.at < chart'[l].at
    BY <1>11, <2>1, <2>2 DEF IsTail
  <2>4. p \in S
    BY <1>2, <1>8
  <2>5. \A l \in DOMAIN chart' : chart'[l].at > 2 * k
    BY <1>7, <1>12, <1>13, <2>3, <2>4
  <2> QED BY <1>7, <1>8, <1>12, <2>3, <2>5, NewerAre DEF k
<1>14. ASSUME NEW p \in live, p.id = k, p.at >= chart[i].at PROVE Crowded(k)
  <2>1. p.at \in Nat /\ chart[i].at \in Nat
    BY <1>7, <1>8
  <2>2. InRange(p.at, None)
    BY <1>8, <1>14, <2>1 DEF InRange
  <2> QED BY <1>13, <1>14, <2>2
<1>15. CASE chart[i].at = 2 * k /\ k <= c.since
  <2>1. InRange(2 * k, None) /\ k \in 1..c.since /\ stored[k] = c.conn
    BY <1>1, <1>8, <1>9, <1>15
  <2>2. CASE Point(k) \in answer.data
    <3>1. Point(k) \in points /\ Point(k).id = k
      BY <2>1, <2>2 DEF Point
    <3> HIDE DEF points
    <3> QED BY <1>13, <3>1 DEF k
  <2>3. CASE /\ Cardinality(answer.data) = MaxPoints
             /\ \A p \in answer.data : p.at > 2 * k
    <3>1. /\ k \in Nat /\ 2 * k \in Nat /\ MaxPoints \in Nat \ {0}
      BY <1>8
    <3>2. ASSUME NEW p \in answer.data PROVE p \in points
      <4>1. p.at \in Nat /\ p.at > 2 * k
        BY <1>2, <1>7, <2>3
      <4> QED BY <1>8, <2>1, <3>1, <4>1 DEF InRange
    <3>3. \A p \in answer.data : \E j \in DOMAIN s : s[j] = p
      BY <1>3, <3>2
    <3>4. s \in Seq(Points)
      BY <1>3, <1>6, SeqStay
    <3>5. Len(s) >= MaxPoints /\ \A j \in DOMAIN s : j + MaxPoints > Len(s) => s[j].at > 2 * k
      BY <1>3, <2>3, <3>1, <3>3, <3>4, NewestAre
    <3>6. chartMaxPoints' = MaxPoints
      BY <1>5, <3>5
    <3>7. /\ Len(chart') = IF Len(s) > MaxPoints THEN MaxPoints ELSE Len(s)
          /\ \A l \in DOMAIN chart' :
                 /\ Len(s) - Len(chart') + l \in DOMAIN s
                 /\ chart'[l] = s[Len(s) - Len(chart') + l]
      BY <1>3, <1>4, <3>1, <3>6, LastEntries
    <3>8. Len(chart') = MaxPoints
      BY <1>4, <3>1, <3>5, <3>7
    <3>9. ASSUME NEW l \in DOMAIN chart' PROVE chart'[l].at > 2 * k
      <4>1. l \in 1..Len(chart')
        BY <1>12
      <4>2. Len(s) - Len(chart') + l + MaxPoints > Len(s)
        BY <1>4, <3>1, <3>8, <4>1
      <4> QED BY <3>5, <3>7, <4>2
    <3> QED BY <1>7, <1>12, <3>1, <3>6, <3>8, <3>9, NewerAre DEF k
  <2> QED BY <1>1, <2>1, <2>2, <2>3, AnswerComplete
<1> QED BY <1>10, <1>14, <1>15 DEF k

LEMMA StepKeepsSamples ==
    ASSUME FeedInv, InboxesTrue, CallsInv, ChartInv, PendingKeeps, Next, version' = version,
           chartRange = None, chartRange' = None,
           NEW i \in DOMAIN chart, InRange(chart[i].at, None), chart[i].id \notin Shown'
    PROVE  Crowded(chart[i].id)
<1>1. FeedTyped
  BY DEF FeedInv
<1>2. ~UNCHANGED chart
  BY DEF Shown
<1> QED BY <1>1, <1>2, ChartStep, PacketKeepsSamples, HistoryKeepsSamples

StatusTyped == status \subseteq {"socket", "latest", "refresh", "empty", "failed"}

LEMMA StepStatus ==
    ASSUME StatusTyped, [Next]_vars
    PROVE  StatusTyped'
<1> USE DEF StatusTyped
<1>1. CASE User
  BY <1>1 DEF User, Render, SelectDatasource, Cleanup, SelectTimeRange, PauseRealtime,
              ResumeRealtime, Refresh, RetryRefresh, ClickRefresh, Restart, Retry,
              LoadCustomRange, ReloadData
<1>2. ASSUME NEW c, NEW answer PROVE HistoryStatus(c, answer) \subseteq status \cup {"empty", "failed"}
  BY DEF HistoryStatus
<1>3. ASSUME NEW c, NEW new, AfterRetry(c, new) PROVE status' \subseteq new
  BY <1>3 DEF AfterRetry, Restart
<1>4. ASSUME NEW c, NEW answer, Returns(c, answer) PROVE StatusTyped'
  <2>1. CASE LatestReturns(c, answer)
    <3>1. PICK new : AfterRetry(c, new) /\ new \subseteq status \cup {"latest"}
      BY <2>1 DEF LatestReturns
    <3> QED BY <1>3, <3>1
  <2>2. CASE HistoryReturns(c, answer)
    <3>1. AfterRetry(c, HistoryStatus(c, answer))
      BY <2>2 DEF HistoryReturns
    <3>2. status' \subseteq HistoryStatus(c, answer)
      BY <1>3, <3>1
    <3> QED BY <1>2, <3>2
  <2>3. CASE CustomReturns(c, answer)
    <3>1. status' \subseteq HistoryStatus(c, answer)
      BY <2>3 DEF CustomReturns
    <3> QED BY <1>2, <3>1
  <2>4. CASE RefreshReturns(c, answer)
    BY <2>4 DEF RefreshReturns
  <2> QED BY <1>4, <2>1, <2>2, <2>3, <2>4 DEF Returns
<1>5. ASSUME NEW m, SocketOpens(m) \/ SocketCloses(m) \/ TimerFires(m) \/ PacketArrives(m)
      PROVE  StatusTyped'
  BY <1>5 DEF SocketOpens, SocketCloses, TimerFires, PacketArrives, MessageArrives
<1>6. ASSUME NEW d, Collect(d) PROVE StatusTyped'
  BY <1>6 DEF Collect
<1>7. CASE Works
  BY <1>4, <1>5, <1>6, <1>7 DEF Works
<1>8. CASE Fails
  BY <1>4, <1>5, <1>8 DEF Fails
<1>9. CASE UNCHANGED vars
  BY <1>9 DEF vars
<1> QED BY <1>1, <1>7, <1>8, <1>9 DEF Next

(* The strengthening: the feed is of the selection; what waits in the sockets,
   in the calls and in the live feed is what the server stored; and what the
   charts show of the window is still to be had by the newest call. *)
PageInv ==
    /\ FeedInv /\ InboxesTrue /\ CallsInv
    /\ ChartInv /\ CardInv /\ PendingKeeps
    /\ StatusTyped

LEMMA InitPage == Init => PageInv
<1> SUFFICES ASSUME Init PROVE PageInv
  OBVIOUS
<1>1. InboxesTrue
  BY DEF Init, InboxesTrue
<1>2. CallsInv
  <2>1. mounted \in BOOLEAN /\ isRealtime \in BOOLEAN
    <3>1. mounted = FALSE /\ isRealtime = TRUE
      BY DEF Init
    <3> QED BY <3>1
  <2>2. customRange \in Ranges \cup {None} /\ request = 0 /\ calls = {}
    BY DEF Init
  <2>3. ControlsTyped
    BY <2>1, <2>2 DEF ControlsTyped
  <2> QED BY <2>2, <2>3 DEF CallsInv, OneLoad, OneRefresh, RefreshFits
<1>3. ChartInv /\ CardInv
  <2>1. chart \in Seq(SamplesOf(stored, selected))
    BY DEF Init
  <2> QED BY <2>1 DEF Init, ChartInv, ChartOrdered, CardInv
<1>4. PendingKeeps /\ StatusTyped
  BY DEF Init, PendingKeeps, PushedKeep, CallsKeep, StatusTyped
<1> QED BY <1>1, <1>2, <1>3, <1>4, InitFeed DEF PageInv

LEMMA StepPage ==
    ASSUME PageInv, [Next]_vars
    PROVE  PageInv'
<1>1. FeedInv'
  BY StepFeed DEF PageInv
<1>2. InboxesTrue' /\ CallsInv' /\ PendingKeeps' /\ StatusTyped'
  BY <1>1, StepInboxes, StepCalls, StepPending, StepStatus DEF PageInv
<1>3. ChartInv' /\ CardInv'
  BY <1>1, StepPicture DEF PageInv
<1> QED BY <1>1, <1>2, <1>3 DEF PageInv

LEMMA PageInvariant == Spec => []PageInv
BY InitPage, StepPage, PTL DEF Spec

LEMMA ChartPoints ==
    ASSUME PageInv
    PROVE  /\ SamplesOf(stored, selected) \subseteq Points
           /\ chart \in Seq(SamplesOf(stored, selected))
           /\ \A i \in DOMAIN chart : chart[i] \in SamplesOf(stored, selected)
BY DEF PageInv, ChartInv, SamplesOf

(* monitor.js, metric_collector.py: the page, its sockets and its calls keep
   their types; among them, the count of history requests never passes the bound
   by more than the one load that a refresh makes when it comes back. *)
THEOREM PageTyped == Spec => []TypeOK
<1>1. PageInv => TypeOK
  <2> SUFFICES ASSUME PageInv PROVE TypeOK
    OBVIOUS
  <2>1. managers \in Seq(Manager) /\ stored \in Seq(Datasources) /\ selected \in Datasources
    BY DEF PageInv, FeedInv, FeedTyped
  <2>2. version \in 0..MaxVersions /\ ws \in 0..Len(managers)
    BY DEF PageInv, FeedInv, FeedTyped
  <2>3. /\ mounted \in BOOLEAN /\ isRealtime \in BOOLEAN /\ customRange \in Ranges \cup {None}
        /\ request \in 0..(MaxRequests + 1)
    BY DEF PageInv, CallsInv, ControlsTyped, RefreshFits
  <2>4. chartRange \in Ranges \cup {None} /\ live \subseteq Points /\ card \in 0..Len(stored)
    BY ChartPoints DEF PageInv, ChartInv, CardInv
  <2>5. chart \in Seq(Points)
    BY ChartPoints, SeqStay
  <2>6. StatusTyped
    BY DEF PageInv
  <2>7. chartMaxPoints \in MinPoints..MaxPoints /\ Len(chart) <= chartMaxPoints
    BY DEF PageInv, ChartInv
  <2> QED BY <2>1, <2>2, <2>3, <2>4, <2>5, <2>6, <2>7 DEF TypeOK, Manager, StatusTyped
<1> QED BY <1>1, PageInvariant, PTL

(* monitor.js: whatever answers and packets come late, the charts hold samples
   of the selected datasource only. *)
THEOREM ChartIsOfSelected == Spec => []ChartOfSelected
<1>1. PageInv => ChartOfSelected
  BY ChartPoints DEF ChartOfSelected, SamplesOf
<1> QED BY <1>1, PageInvariant, PTL

(* monitor.js: the charts run from left to right, for the history that is merged
   with newer packets and for the packet that comes after it. *)
THEOREM ChartIsOrdered == Spec => []ChartOrdered
<1>1. PageInv => ChartOrdered
  BY DEF PageInv, ChartInv
<1> QED BY <1>1, PageInvariant, PTL

(* monitor.js: cards with a time show the selected datasource, and nothing older
   than the end of the charts beside them. *)
THEOREM CardsAgree == Spec => []CardAgrees
<1>1. PageInv => CardAgrees
  BY DEF PageInv, CardInv, CardAgrees
<1> QED BY <1>1, PageInvariant, PTL

(* monitor.js, integration_scheduler.py: a sample of an integration, which the
   packet and the history date alike, is drawn once. *)
THEOREM IntegratedOnce == Spec => []IntegratedShownOnce
<1>1. PageInv => IntegratedShownOnce
  <2> SUFFICES ASSUME PageInv, NEW i \in DOMAIN chart, NEW j \in DOMAIN chart,
                      chart[i].id = chart[j].id, stored[chart[i].id] \in Integrated
               PROVE  i = j
    BY DEF IntegratedShownOnce
  <2>1. chart[i] \in SamplesOf(stored, selected) /\ chart[j] \in SamplesOf(stored, selected)
    BY ChartPoints
  <2>2. chart[i].at = chart[j].at /\ chart[i].at \in Nat
    BY <2>1 DEF SamplesOf, Points
  <2>3. i \in Nat /\ j \in Nat
    BY ChartPoints
  <2> QED BY <2>2, <2>3 DEF PageInv, ChartInv, ChartOrdered
<1> QED BY <1>1, PageInvariant, PTL

(* monitor.js, chart-panel.js: while the selection lasts, neither a packet nor a
   history that comes back, however late, takes a sample of the window off the
   charts unless they are full of newer ones: what an answer is too old to hold
   came by the socket while it was out, and what its query leaves out is older
   than as many samples as the charts can show. *)
THEOREM NoSampleIsLost == Spec => NoLostSample
<1> DEFINE A == version' = version /\ chartRange = None /\ chartRange' = None =>
           \A i \in DOMAIN chart : InRange(chart[i].at, None) /\ chart[i].id \notin Shown' =>
               /\ Len(chart') = chartMaxPoints'
               /\ \A k \in Shown' : chart[i].id < k
<1>1. PageInv /\ [Next]_vars => [A]_vars
  <2> SUFFICES ASSUME PageInv, Next, version' = version, chartRange = None, chartRange' = None,
                      NEW i \in DOMAIN chart, InRange(chart[i].at, None),
                      chart[i].id \notin Shown'
               PROVE  Crowded(chart[i].id)
    BY DEF Crowded
  <2> QED BY StepKeepsSamples DEF PageInv
<1> QED BY <1>1, PageInvariant, PTL DEF Spec, NoLostSample
=============================================================================
