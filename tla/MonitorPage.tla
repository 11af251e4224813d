----------------------------- MODULE MonitorPage -----------------------------
(* frontend/js/pages/monitor.js: the page that draws the samples of one
   datasource, from the history the API returns and from the packets of a
   WebSocket, composed with the server's side of both: metric_collector.py and
   integration_scheduler.py store a sample and push it, routers/monitor_ws.py
   greets a new socket with the latest one, routers/metrics.py answers queries.

   A sample is its place in `stored`; sample k is stored at time 2k, and the
   packet pushed for it carries that time or, from the collector, which takes
   the clock anew after the alert engine has run, a later one.  A call of
   the API remembers how much was stored when it was made: its answer, which may
   come in any order or not at all, is what the server read since then.
   The charts are one here: those of a value that some samples lack have fewer
   points.  Left out: the health banner and the network rates, which follow the
   pattern of the cards, a chart library that fails to load, the limit of the
   buffer of live packets, which takes as many packets as a chart has points
   while one call is out, and two collections of one datasource that overlap. *)
EXTENDS WSManager, SequencesExt

CONSTANTS Datasources,
          Integrated,    \* those whose metric_source is an integration
          Ranges,        \* custom ranges, records of start and end
          None,          \* _customRange when there is none
          Window,        \* currentTimeRange
          MinPoints,     \* the points a chart keeps at least,
          Margin,        \* those it has room for beyond its history,
          MaxPoints,     \* and those that it keeps, and a query returns, at most
          MaxSamples,    \* bound: samples ever stored
          MaxCalls,      \* bound: calls of the API in flight
          MaxRequests,   \* bound: _historyRequest
          MaxVersions,   \* bound: _dataVersion
          MaxManagers,   \* bound: calls of _startMonitoring
          MaxFaults      \* bound: connections and calls that fail

ASSUME MonitorAssumption ==
    /\ Integrated \subseteq Datasources
    /\ None \notin Ranges
    /\ \A r \in Ranges : r.start \in Nat /\ r.end \in Nat
    /\ MinPoints \in Nat \ {0} /\ MaxPoints \in Nat /\ MinPoints <= MaxPoints
    /\ Window \in Nat /\ Margin \in Nat
    /\ MaxSamples \in Nat /\ MaxCalls \in Nat /\ MaxRequests \in Nat
    /\ MaxVersions \in Nat /\ MaxManagers \in Nat /\ MaxFaults \in Nat

VARIABLES stored,     \* datasource_metric: the datasource of each sample
          calls,      \* API calls the page awaits
          mounted,    \* _container is connected
          selected,   \* the selected datasource
          version,    \* _dataVersion
          request,    \* _historyRequest
          isRealtime,
          customRange,
          ws,         \* the page's manager, 0 if none
          live,       \* _liveMetrics
          chart,      \* the points of the charts, from left to right
          chartMaxPoints,
          chartTime,  \* _chartTimestamp, 0 for null
          card,       \* the sample on the cards, 0 if none
          cardTime,   \* _cardTimestamp, 0 for null
          status,     \* _statuses
          faults,     \* the failures so far
          chartRange  \* history: the range the charts were last loaded for

pageVars == <<mounted, selected, version, request, isRealtime, customRange, ws>>
view == <<live, chart, chartMaxPoints, chartTime, card, cardTime, chartRange>>
vars == <<managers, stored, calls, pageVars, view, status, faults>>

Point(k) == [id |-> k, at |-> 2 * k]
Greeting(n) == [id |-> 0, at |-> n]   \* a snapshot to be read once n are stored
Points == [id : 0..MaxSamples, at : 0..(2 * MaxSamples + 1)]
Clock == 2 * Len(stored) + 1

Init ==
    /\ managers = <<>>
    /\ stored = <<>>
    /\ calls = {}
    /\ mounted = FALSE
    /\ selected \in Datasources
    /\ version = 0
    /\ request = 0
    /\ isRealtime = TRUE
    /\ customRange = None
    /\ ws = 0
    /\ live = {}
    /\ chart = <<>>
    /\ chartMaxPoints = MinPoints
    /\ chartTime = 0
    /\ card = 0
    /\ cardTime = 0
    /\ status = {}
    /\ faults = 0
    /\ chartRange = None
-----------------------------------------------------------------------------
(* Helpers of the page *)

IsCurrent(conn, v) == v = version /\ mounted /\ conn = selected

InRange(at, range) ==
    IF range = None THEN at + Window >= Clock ELSE range.start <= at /\ at <= range.end

Call(kind, conn, range, v, seq) ==
    [kind |-> kind, conn |-> conn, range |-> range, version |-> v, seq |-> seq,
     since |-> Len(stored), from |-> "page", previous |-> None, wasRealtime |-> FALSE]

(* _loadData: the latest sample unless a custom range is shown, and the history *)
LoadData(conn, range, v, from) ==
    LET kinds == IF range = None THEN {"latest", "history"} ELSE {"history"}
    IN  {[Call(k, conn, range, v, request + 1) EXCEPT !.from = from] : k \in kinds}

(* _stopMonitoring *)
StopMonitoring ==
    /\ managers' = Disconnect(managers, ws)
    /\ ws' = 0

(* _startMonitoring: the handlers remember the datasource and the version *)
StartMonitoring(conn, v) ==
    /\ Len(managers) < MaxManagers
    /\ managers' = New(Disconnect(managers, ws), [conn |-> conn, version |-> v])
    /\ ws' = Len(managers) + 1

(* What the retry button does last: start again a feed that was lost *)
Restart(newStatus) ==
    IF isRealtime /\ "socket" \in newStatus
    THEN StartMonitoring(selected, version) /\ status' = newStatus \ {"socket"}
    ELSE UNCHANGED <<managers, ws>> /\ status' = newStatus

Forget == live' = {} /\ chart' = <<>> /\ chartTime' = 0 /\ cardTime' = 0 /\ chartRange' = None

(* _reloadData, always with isRealtime set when it is called with a new value *)
ReloadData(conn, realtime) ==
    /\ version < MaxVersions
    /\ version' = version + 1
    /\ Forget
    /\ UNCHANGED <<card, chartMaxPoints>>
    /\ status' = {}
    /\ calls' = calls \cup LoadData(conn, customRange', version + 1, "page")
    /\ request' = request + 1
    /\ IF realtime THEN StartMonitoring(conn, version + 1) ELSE StopMonitoring

Room == Cardinality(calls) + 2 <= MaxCalls /\ request < MaxRequests
-----------------------------------------------------------------------------
(* What the user does *)

(* renderWithOptions up to the animation frame that loads the data *)
Render(d) ==
    /\ ~mounted /\ Room
    /\ version < MaxVersions
    /\ mounted' = TRUE
    /\ selected' = d
    /\ version' = version + 1
    /\ customRange' = None
    /\ Forget
    /\ card' = 0
    /\ status' = {}
    /\ calls' = {[c EXCEPT !.from = "page"] : c \in calls}
                    \cup LoadData(d, None, version + 1, "page")
    /\ request' = request + 1
    /\ StartMonitoring(d, version + 1)
    /\ UNCHANGED <<stored, isRealtime, chartMaxPoints>>

(* _cleanup *)
Cleanup ==
    /\ mounted /\ version < MaxVersions
    /\ mounted' = FALSE
    /\ version' = version + 1
    /\ live' = {}
    /\ customRange' = None
    /\ StopMonitoring
    /\ chart' = <<>> /\ chartMaxPoints' = MinPoints /\ chartRange' = None
    /\ isRealtime' = TRUE
    /\ status' = status \ {"socket"}
    /\ UNCHANGED <<stored, calls, selected, request, chartTime, card, cardTime>>

(* onChange of the datasource selector *)
SelectDatasource(d) ==
    /\ mounted /\ Room
    /\ selected' = d
    /\ UNCHANGED <<stored, mounted, isRealtime, customRange>>
    /\ ReloadData(d, isRealtime)

(* onChange of the time range selector *)
SelectTimeRange ==
    /\ mounted /\ Room
    /\ customRange' = None
    /\ isRealtime' = TRUE
    /\ UNCHANGED <<stored, mounted, selected>>
    /\ ReloadData(selected, TRUE)

(* The button that pauses the live feed, and the one that resumes it *)
PauseRealtime ==
    /\ mounted /\ isRealtime
    /\ isRealtime' = FALSE
    /\ StopMonitoring
    /\ status' = status \ {"socket"}
    /\ UNCHANGED <<stored, calls, mounted, selected, version, request, customRange, view>>

ResumeRealtime ==
    /\ mounted /\ ~isRealtime /\ Room
    /\ isRealtime' = TRUE
    /\ customRange' = None
    /\ UNCHANGED <<stored, mounted, selected>>
    /\ ReloadData(selected, TRUE)

(* The refresh button is disabled until the load that follows it has ended *)
ClickRefresh ==
    /\ mounted /\ Room
    /\ \A c \in calls : c.from # "refresh"
    /\ calls' = calls \cup {[Call("refresh", selected, None, version, 0)
                                EXCEPT !.from = "refresh"]}
    /\ UNCHANGED <<stored, mounted, selected, version, request, isRealtime,
                   customRange, view>>

Refresh ==
    /\ ClickRefresh
    /\ status' = status \ {"refresh"}
    /\ UNCHANGED <<managers, ws>>

(* The button under the messages clicks that button after a failed refresh, and
   does not wait for what comes of it *)
RetryRefresh ==
    /\ "refresh" \in status
    /\ ClickRefresh
    /\ Restart(status \ {"refresh"})

(* It loads the data again after any other failure *)
Retry ==
    /\ mounted /\ Room
    /\ status # {} /\ "refresh" \notin status
    /\ calls' = calls \cup LoadData(selected, customRange, version, "retry")
    /\ request' = request + 1
    /\ UNCHANGED <<managers, stored, mounted, selected, version, isRealtime,
                   customRange, ws, view, status>>

(* _loadCustomRange up to its await *)
LoadCustomRange(r) ==
    /\ mounted /\ Room
    /\ customRange' = r
    /\ isRealtime' = FALSE
    /\ StopMonitoring
    /\ status' = status \ {"socket"}
    /\ request' = request + 1
    /\ calls' = calls \cup {[Call("custom", selected, r, version, request + 1)
           EXCEPT !.previous = customRange, !.wasRealtime = isRealtime]}
    /\ UNCHANGED <<stored, mounted, selected, version, view>>
-----------------------------------------------------------------------------
(* The server *)

(* A collection stores a sample and, once the alert engine has run, pushes it to
   the open sockets; what a packet waits for on its way covers the time between
   the two.  The integration scheduler pushes the stored time, the collector now() *)
Collect(d) ==
    LET k == Len(stored) + 1
        p == [id |-> k, at |-> IF d \in Integrated THEN 2 * k ELSE 2 * k + 1]
    IN  /\ Len(stored) < MaxSamples
        /\ stored' = Append(stored, d)
        /\ managers' = [m \in DOMAIN managers |->
               IF managers[m].sock = "open" /\ managers[m].url.conn = d
               THEN [managers[m] EXCEPT !.inbox = Append(@, p)]
               ELSE managers[m]]
        /\ UNCHANGED <<calls, pageVars, view, status>>

(* What is known of d when n samples are stored *)
Samples(d, n) == {k \in 1..n : stored[k] = d}

Latest(d, n) == {Point(k) : k \in {j \in Samples(d, n) : \A i \in Samples(d, n) : i <= j}}

(* The last n entries of a sequence *)
LastOf(s, n) == SubSeq(s, IF Len(s) > n THEN Len(s) - n + 1 ELSE 1, Len(s))

(* The entries of a set of points by their times: no two have the same *)
ByTime(points) ==
    CHOOSE s \in [1..Cardinality(points) -> points] :
        \A i, j \in DOMAIN s : i < j => s[i].at < s[j].at

(* _get_db_status_snapshots: the newest samples, whatever range is asked for *)
Snapshots(d, n) ==
    Range(LastOf(ByTime({Point(k) : k \in Samples(d, n)}), MaxPoints))

(* get_metrics, get_latest_metric; refresh_metrics answers "success" whether or
   not its collection stored anything *)
Read(c, n) ==
    CASE c.kind = "refresh" -> {}
      [] c.kind = "latest"  -> Latest(c.conn, n)
      [] OTHER -> {p \in Snapshots(c.conn, n) :
                      IF c.range = None THEN p.at + Window >= 2 * n + 1
                      ELSE c.range.start <= p.at /\ p.at <= c.range.end}

Answers(c) == {[ok |-> TRUE, data |-> Read(c, n)] : n \in c.since..Len(stored)}

Failure == [ok |-> FALSE, data |-> {}]
-----------------------------------------------------------------------------
(* Calls that come back; any of them may fail *)

(* Mutant: the cards show what came last. *)
UpdateCardsAlways(p) == card' = p.id /\ cardTime' = p.at

(* _updateSnapshotCards *)
UpdateSnapshotCards(p) ==
    IF p.at < cardTime
    THEN UNCHANGED <<card, cardTime>>
    ELSE card' = p.id /\ cardTime' = p.at

(* What the retry button does when its load has ended *)
AfterRetry(c, newStatus) ==
    LET last == /\ c.from = "retry"
                /\ \A o \in calls \ {c} : o.from = "retry" => o.seq # c.seq
    IN  IF last THEN Restart(newStatus)
        ELSE UNCHANGED <<managers, ws>> /\ status' = newStatus

(* The rest of _loadLatestData *)
LatestReturns(c, answer) ==
    LET current == IsCurrent(c.conn, c.version)
        shown   == current /\ answer.ok /\ customRange = None
    IN  /\ c.kind = "latest"
        /\ calls' = calls \ {c}
        /\ IF shown /\ answer.data # {}
           THEN \E p \in answer.data : UpdateSnapshotCards(p)
           ELSE UNCHANGED <<card, cardTime>>
        /\ AfterRetry(c, IF shown THEN status \ {"latest"}
                         ELSE IF current /\ ~answer.ok THEN status \cup {"latest"} ELSE status)
        /\ UNCHANGED <<stored, mounted, selected, version, request, isRealtime,
                       customRange, live, chart, chartMaxPoints, chartTime, chartRange>>

(* The request is still the newest of the datasource the page shows *)
Fresh(c) == IsCurrent(c.conn, c.version) /\ c.seq = request

(* Mutant: the packets that came meanwhile are forgotten. *)
MergedAnswer(c, data) == ByTime({p \in data : InRange(p.at, c.range)})

(* Merge the answer with the packets that came meanwhile, ordered by time *)
Merged(c, data) ==
    ByTime({p \in data \cup (IF c.range = None THEN live ELSE {}) : InRange(p.at, c.range)})

(* _setChartMaxPoints *)
Capacity(n) == IF n = 0 THEN MinPoints ELSE Min({Max({n + Margin, MinPoints}), MaxPoints})

(* The rest of _loadHistory when its answer is used *)
ShowHistory(c, data) ==
    LET ordered == Merged(c, data)
        empty   == ordered = <<>>
    IN  /\ chartMaxPoints' = Capacity(Len(ordered))
        /\ chart' = LastOf(ordered, chartMaxPoints')
        /\ chartRange' = c.range
        /\ chartTime' = IF empty THEN 0 ELSE Last(ordered).at
        /\ CASE empty -> UNCHANGED <<card, cardTime>>
             [] ~empty /\ c.range # None -> card' = Last(ordered).id /\ cardTime' = 0
             [] OTHER -> UpdateSnapshotCards(Last(ordered))
        /\ UNCHANGED live

(* Mutant: a custom range has a message of its own, which no load takes away. *)
HistoryStatusByKind(c, answer) ==
    IF ~Fresh(c) THEN status
    ELSE (status \ {"empty", "failed"})
             \cup (CASE ~answer.ok -> {IF c.kind = "custom" THEN "range" ELSE "failed"}
                     [] answer.ok /\ Merged(c, answer.data) = <<>> -> {"empty"}
                     [] OTHER -> {})

(* "empty" and "failed" are the two messages of the status "history" *)
HistoryStatus(c, answer) ==
    IF ~Fresh(c) THEN status
    ELSE (status \ {"empty", "failed"})
             \cup (CASE ~answer.ok -> {"failed"}
                     [] answer.ok /\ Merged(c, answer.data) = <<>> -> {"empty"}
                     [] OTHER -> {})

(* _loadHistory called by _loadData *)
HistoryReturns(c, answer) ==
    /\ c.kind = "history"
    /\ calls' = calls \ {c}
    /\ IF answer.ok /\ Fresh(c) THEN ShowHistory(c, answer.data) ELSE UNCHANGED view
    /\ AfterRetry(c, HistoryStatus(c, answer))
    /\ UNCHANGED <<stored, mounted, selected, version, request, isRealtime, customRange>>

(* _loadHistory called by _loadCustomRange, and the rest of that *)
CustomReturns(c, answer) ==
    LET hasData == answer.ok /\ Fresh(c)
        undo    == ~hasData /\ IsCurrent(c.conn, c.version)
    IN  /\ c.kind = "custom"
        /\ calls' = calls \ {c}
        /\ IF hasData THEN ShowHistory(c, answer.data) ELSE UNCHANGED view
        /\ customRange' = IF undo THEN c.previous ELSE customRange
        /\ isRealtime' = IF undo THEN c.wasRealtime ELSE isRealtime
        /\ IF undo /\ c.wasRealtime
           THEN StartMonitoring(c.conn, version) ELSE UNCHANGED <<managers, ws>>
        /\ status' = HistoryStatus(c, answer) \ (IF undo /\ c.wasRealtime THEN {"socket"} ELSE {})
        /\ UNCHANGED <<stored, mounted, selected, version, request>>

(* The rest of the refresh button's handler *)
RefreshReturns(c, answer) ==
    LET current == IsCurrent(c.conn, c.version)
    IN  /\ c.kind = "refresh"
        /\ calls' = (calls \ {c}) \cup
               (IF current /\ answer.ok THEN LoadData(c.conn, customRange, version, c.from) ELSE {})
        /\ request' = IF current /\ answer.ok THEN request + 1 ELSE request
        /\ status' = IF current /\ ~answer.ok THEN status \cup {"refresh"} ELSE status
        /\ UNCHANGED <<managers, stored, mounted, selected, version, isRealtime,
                       customRange, ws, view>>
-----------------------------------------------------------------------------
(* Events of the sockets; the handlers of a manager the page has let go, or
   of an earlier version, change nothing *)

(* Mutant: any packet is taken while the page is live. *)
ListeningToAll(m) == isRealtime /\ mounted

Listening(m) ==
    /\ ws = m /\ isRealtime
    /\ IsCurrent(managers[m].url.conn, managers[m].url.version)

SocketOpens(m) ==
    /\ Opened(m, <<Greeting(Len(stored))>>)
    /\ status' = IF Listening(m) THEN status \ {"socket"} ELSE status
    /\ UNCHANGED <<stored, calls, pageVars, view>>

(* Mutant: the loss is shown when the attempts to connect again are used up. *)
SocketClosesQuietly(m) ==
    /\ Closed(m)
    /\ status' = IF Listening(m) /\ managers[m].reconnectAttempts = MaxReconnectAttempts
                 THEN status \cup {"socket"} ELSE status
    /\ UNCHANGED <<stored, calls, pageVars, view>>

SocketCloses(m) ==
    /\ Closed(m)
    /\ status' = IF Listening(m) THEN status \cup {"socket"} ELSE status
    /\ UNCHANGED <<stored, calls, pageVars, view>>

TimerFires(m) ==
    /\ Reconnect(m)
    /\ UNCHANGED <<stored, calls, pageVars, view, status>>

(* Mutant: unless it is older. *)
DrawnAgain(p) == p.at >= chartTime

(* Mutant: every packet is drawn. *)
DrawnAlways(p) == TRUE

(* A packet is drawn if it is newer than the charts; when the chart is full its
   oldest point goes *)
Drawn(p) == p.at > chartTime

MessageArrives(m, p) ==
    LET used  == Listening(m) /\ customRange = None /\ InRange(p.at, None)
        drawn == used /\ Drawn(p)
    IN  /\ Received(m)
        /\ live' = IF used THEN {q \in live \cup {p} : InRange(q.at, None)} ELSE live
        /\ IF used THEN UpdateSnapshotCards(p) ELSE UNCHANGED <<card, cardTime>>
        /\ chart' = IF drawn THEN LastOf(Append(chart, p), chartMaxPoints) ELSE chart
        /\ chartTime' = IF drawn THEN p.at ELSE chartTime
        /\ status' = status \ ((IF used THEN {"socket"} ELSE {}) \cup
                               (IF drawn THEN {"empty"} ELSE {}))
        /\ UNCHANGED <<stored, calls, pageVars, chartMaxPoints, chartRange>>

(* monitor_websocket subscribes, then reads and sends the latest sample, if any *)
Greetings(m) ==
    LET p == Head(managers[m].inbox)
    IN  IF p.id # 0 THEN {{p}}
        ELSE {Latest(managers[m].url.conn, n) : n \in p.at..Len(stored)}

PacketArrives(m) ==
    /\ managers[m].inbox # <<>>
    /\ \E s \in Greetings(m) :
           \/ \E p \in s : MessageArrives(m, p)
           \/ /\ s = {} /\ Received(m)
              /\ UNCHANGED <<stored, calls, pageVars, view, status>>
-----------------------------------------------------------------------------
User == \/ \E d \in Datasources : Render(d) \/ SelectDatasource(d)
        \/ Cleanup \/ SelectTimeRange \/ PauseRealtime \/ ResumeRealtime
        \/ Refresh \/ RetryRefresh \/ Retry
        \/ \E r \in Ranges : LoadCustomRange(r)

Returns(c, answer) == \/ LatestReturns(c, answer) \/ HistoryReturns(c, answer)
                      \/ CustomReturns(c, answer) \/ RefreshReturns(c, answer)

Works == \/ \E d \in Datasources : Collect(d)
         \/ \E c \in calls : \E answer \in Answers(c) : Returns(c, answer)
         \/ \E m \in DOMAIN managers : SocketOpens(m) \/ TimerFires(m) \/ PacketArrives(m)

Fails == \/ \E c \in calls : Returns(c, Failure)
         \/ \E m \in DOMAIN managers : SocketCloses(m)

Next == \/ (User \/ Works) /\ UNCHANGED faults
        \/ faults < MaxFaults /\ faults' = faults + 1 /\ Fails

Spec == Init /\ [][Next]_vars
-----------------------------------------------------------------------------
TypeOK ==
    /\ managers \in Seq([url : [conn : Datasources, version : 0..MaxVersions],
                         sock : SocketStates, shouldReconnect : BOOLEAN,
                         reconnectAttempts : 0..MaxReconnectAttempts,
                         timer : BOOLEAN, inbox : Seq(Points)])
    /\ stored \in Seq(Datasources)
    /\ mounted \in BOOLEAN /\ isRealtime \in BOOLEAN
    /\ selected \in Datasources
    /\ version \in 0..MaxVersions
    /\ request \in 0..(MaxRequests + 1)
    /\ customRange \in Ranges \cup {None} /\ chartRange \in Ranges \cup {None}
    /\ ws \in 0..Len(managers)
    /\ live \subseteq Points /\ chart \in Seq(Points)
    /\ chartMaxPoints \in MinPoints..MaxPoints /\ Len(chart) <= chartMaxPoints
    /\ card \in 0..Len(stored)
    /\ status \subseteq {"socket", "latest", "refresh", "empty", "failed"}

(* Whatever answers and packets come late, from an earlier selection or from a
   socket that came back after disconnect(), the charts hold samples of the
   selected datasource only. *)
ChartOfSelected ==
    mounted => \A i \in DOMAIN chart : stored[chart[i].id] = selected

(* The charts run from left to right: a history that arrives after newer
   packets, and a packet older than the history, never roll them back. *)
ChartOrdered ==
    \A i, j \in DOMAIN chart : i < j => chart[i].at < chart[j].at

(* The cards that have a time show the selected datasource, and nothing older
   than the end of the charts beside them. *)
CardAgrees ==
    mounted /\ cardTime # 0 =>
        /\ stored[card] = selected
        /\ chartRange = None /\ chart # <<>> => cardTime >= chartTime

(* A broken live feed is on the screen, with the retry button, for as long as
   the page says it is live. *)
LossIsVisible ==
    mounted /\ isRealtime => /\ ws # 0
                             /\ managers[ws].sock = "closed" => "socket" \in status

Shown == {chart[i].id : i \in DOMAIN chart}

(* Within a selection a sample of the window leaves the charts only when they are
   full, and only for newer ones: a history that comes back keeps those that came
   by the socket while it was out, and a late answer never replaces the charts by
   an older state. *)
NoLostSample ==
    [][version' = version /\ chartRange = None /\ chartRange' = None =>
           \A i \in DOMAIN chart : InRange(chart[i].at, None) /\ chart[i].id \notin Shown' =>
               /\ Len(chart') = chartMaxPoints'
               /\ \A k \in Shown' : chart[i].id < k]_vars

(* What the packet of an integration carries is the key of the stored sample, so
   the merge shows each of them once. *)
IntegratedShownOnce ==
    \A i, j \in DOMAIN chart :
        chart[i].id = chart[j].id /\ stored[chart[i].id] \in Integrated => i = j
=============================================================================
