---------------------------- MODULE ChatApproval ----------------------------
(* What the chat agent promises about tools that change a database or a host:
   one runs only on an answer of the user, which is on record before the tool
   starts, says "approved", and is used once.  ChatSession implements it. *)
CONSTANTS Approvals,   \* the requests the agent may make
          Answers      \* the answers the user may give

VARIABLES asked,       \* requests on record
          answer,      \* what is on record for an answer, if anything
          ran          \* answers a tool has run on

Nothing == [approval |-> {}, action |-> "none"]

Init ==
    /\ asked = {}
    /\ answer = [i \in Answers |-> Nothing]
    /\ ran = {}

Ask(a) ==
    /\ a \notin asked
    /\ asked' = asked \cup {a}
    /\ UNCHANGED <<answer, ran>>

Give(i, a, action) ==
    /\ a \in asked
    /\ answer[i] = Nothing
    /\ answer' = [answer EXCEPT ![i] = [approval |-> {a}, action |-> action]]
    /\ UNCHANGED <<asked, ran>>

Run(i) ==
    /\ answer[i].action = "approved"
    /\ i \notin ran
    /\ ran' = ran \cup {i}
    /\ UNCHANGED <<asked, answer>>

Next ==
    \/ \E a \in Approvals : Ask(a)
    \/ \E i \in Answers, a \in Approvals, action \in {"approved", "rejected"} :
           Give(i, a, action)
    \/ \E i \in Answers : Run(i)

Spec == Init /\ [][Next]_<<asked, answer, ran>>
=============================================================================
