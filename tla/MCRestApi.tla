------------------------------ MODULE MCRestApi ------------------------------
(***************************************************************************)
(* The REST server for TLC: RestApi with well-formed requests and none of  *)
(* its faults, with malformed and foreign requests among them, with faults *)
(* and without, and the connection the handlers share.  They are checked   *)
(* one at a time: "part" names the one that a behaviour runs.              *)
(*                                                                         *)
(* Two DELETEs share a task, one of them names it twice, a third names a   *)
(* user nobody stored; both keys of postUsersTodos are written.  Three     *)
(* calls of getConnection and two outages are enough for two clients that  *)
(* exist at once, one of them forgotten, to quarrel over the flag.         *)
(***************************************************************************)
EXTENDS RestApi, RedisConnection

CONSTANTS magazine, battery, flyer, ticket, r1, r2, r3

MCTasks == {magazine, battery, flyer, ticket}
MCUsers == {"nikolas", "nobody"}
MCLists == [u \in MCUsers |-> IF u = "nikolas" THEN {magazine, battery, ticket} ELSE {}]

Get(who) == [method |-> "GET", who |-> who, tasks |-> None]
DeleteTasks(who, tasks) == [method |-> "DELETE", who |-> who, tasks |-> tasks]
Post(who, t) == [method |-> "POST", who |-> who, tasks |-> <<t>>]
GetCompleted == [method |-> "COMPLETED", who |-> "nobody", tasks |-> None]

\* Well-formed requests; then a DELETE without tasks, one for a key of the other
\* route, and a GET.
MCReq == <<DeleteTasks("nikolas", <<magazine, battery>>),
           DeleteTasks("nikolas", <<battery, flyer, battery>>),
           DeleteTasks("nobody", <<magazine>>),
           Post("Will", magazine),
           Post("Chuong", flyer),
           GetCompleted,
           DeleteTasks("nikolas", None),
           DeleteTasks("123", <<magazine>>),
           Get("nobody")>>

MCRequests == DOMAIN MCReq
MCCallers == {r1, r2, r3}

VARIABLE part   \* "calm", "mixed", "connection"

\* The requests that are sent.
Sent == IF part = "calm" THEN 1 .. 6 ELSE IF part = "mixed" THEN {2, 4, 7, 8, 9} ELSE {}

ServerInit ==
    /\ part \in {"calm", "mixed", "connection"}
    /\ Init /\ ConnectionInit
    /\ part # "mixed" => faults = {}

ServerRuns(A) == part # "connection" /\ A /\ UNCHANGED <<part, connectionVars>>
LinkRuns(A) == part = "connection" /\ A /\ UNCHANGED <<part, vars>>

ServerNext ==
    \/ ServerRuns(Next) /\ \A r \in Requests \ Sent : pc'[r] = "new"
    \/ LinkRuns(ConnectionNext)
serverVars == <<part, vars, connectionVars>>

\* The fairness of FairSpec in RestApi and of ConnectionFairSpec in RedisConnection.
ServerSpec ==
    /\ ServerInit /\ [][ServerNext]_serverVars
    /\ WF_serverVars(ServerRuns(\E r \in Requests : Handle(r) /\ UNCHANGED faults))
    /\ WF_serverVars(LinkRuns(RedisReturns))
    /\ \A c \in Clients :
          /\ WF_serverVars(LinkRuns(ready(c)))
          /\ WF_serverVars(LinkRuns(link[c] = "severed" /\ error(c)))

-----------------------------------------------------------------------------
\* Every request is answered, if by a reset, every call for a connection returns,
\* and the flag comes back after an outage.
ServerAnswers == EveryRequestAnswered /\ CallsReturn /\ FlagRecovers
=============================================================================
