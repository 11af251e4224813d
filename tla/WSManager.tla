------------------------------ MODULE WSManager ------------------------------
(* frontend/js/utils/websocket.js.  A page makes a manager for each URL it
   listens to; managers is the sequence of all it has made, so that 0 can stand
   for "no manager".  Of a manager's socket only readyState and the messages
   the browser has not handed over are kept; a socket that disconnect() closes
   hands over nothing more, so it counts as gone ("none") at once.

   The operators without primes are the methods, as functions on managers;
   the actions are the socket's events and the timer. *)
EXTENDS Naturals, Sequences

CONSTANT MaxReconnectAttempts    \* maxReconnectAttempts

ASSUME ReconnectAssumption == MaxReconnectAttempts \in Nat

VARIABLE managers

SocketStates == {"none", "connecting", "open", "closed"}

(* readyState CONNECTING or OPEN: what connect() will not replace *)
Live(m) == managers[m].sock \in {"connecting", "open"}

(* new WSManager(url), followed by connect() as on every page *)
New(ms, url) ==
    Append(ms, [url |-> url, sock |-> "connecting", shouldReconnect |-> TRUE,
                reconnectAttempts |-> 0, timer |-> FALSE, inbox |-> <<>>])

(* disconnect(): a timer that onclose has set stays set *)
Disconnect(ms, m) ==
    IF m = 0 THEN ms
    ELSE [ms EXCEPT ![m].shouldReconnect = FALSE,
                    ![m].sock = "none",
                    ![m].inbox = <<>>]

(* onopen, with what the server sends first *)
Opened(m, greeting) ==
    /\ managers[m].sock = "connecting"
    /\ managers' = [managers EXCEPT ![m].sock = "open",
                                    ![m].reconnectAttempts = 0,
                                    ![m].inbox = greeting]

(* onclose: the attempt failed, the network or the server ended the connection *)
Closed(m) ==
    LET again == /\ managers[m].shouldReconnect
                 /\ managers[m].reconnectAttempts < MaxReconnectAttempts
    IN  /\ Live(m)
        /\ managers' = [managers EXCEPT
               ![m].sock = "closed",
               ![m].inbox = <<>>,
               ![m].reconnectAttempts = IF again THEN @ + 1 ELSE @,
               ![m].timer = again]

(* setTimeout(() => this.connect()): the state of shouldReconnect is not asked *)
Reconnect(m) ==
    /\ managers[m].timer
    /\ managers' = [managers EXCEPT
           ![m].timer = FALSE,
           ![m].sock = IF Live(m) THEN @ ELSE "connecting"]

(* onmessage *)
Received(m) ==
    /\ managers[m].sock = "open"
    /\ managers[m].inbox # <<>>
    /\ managers' = [managers EXCEPT ![m].inbox = Tail(@)]
=============================================================================
