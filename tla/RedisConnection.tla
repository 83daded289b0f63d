--------------------------- MODULE RedisConnection ---------------------------
(***************************************************************************)
(* The connection every handler of the REST API asks for: the singleton of *)
(* initRedis.js.  `connected` is one flag for all the clients ever made,   *)
(* and each client's events set it.                                        *)
(*                                                                         *)
(* Clients are numbered as they are made.  A client that loses Redis keeps *)
(* retrying until it is ready again (the library's default), so connect()  *)
(* does not throw and `end`, which only quit() causes, does not happen.    *)
(***************************************************************************)
EXTENDS Integers, FiniteSets

CONSTANTS
    Callers,    \* the calls of getConnection
    Breaks,     \* bound: how often Redis may go away
    NoClient    \* no client yet

ASSUME ConnectionAssumption == IsFiniteSet(Callers) /\ Breaks \in Nat /\ NoClient \notin Nat

VARIABLES
    connected,  \* obj.connected
    client,     \* obj.client, the newest: 0 before there is one
    link,       \* link[c]: client c's socket
    waits,      \* waits[r]: the client whose connect() call r awaits
    got,        \* got[r]: the client call r returned
    up,         \* is Redis reachable?
    breaks      \* how often Redis may still go away

connectionVars == <<connected, client, link, waits, got, up, breaks>>

Clients == 1 .. Cardinality(Callers)
Called(r) == waits[r] # NoClient \/ got[r] # NoClient

ConnectionInit ==
    /\ connected = FALSE
    /\ client = 0
    /\ link = [c \in Clients |-> "unmade"]
    /\ waits = [r \in Callers |-> NoClient]
    /\ got = [r \in Callers |-> NoClient]
    /\ up = TRUE
    /\ breaks = Breaks

getConnection(r) ==
    /\ ~Called(r)
    /\ \/ /\ connected
          /\ got' = [got EXCEPT ![r] = client]
          /\ UNCHANGED <<client, link, waits>>
       \/ /\ ~connected
          /\ client' = client + 1
          /\ link' = [link EXCEPT ![client + 1] = "connecting"]
          /\ waits' = [waits EXCEPT ![r] = client + 1]
          /\ UNCHANGED got
    /\ UNCHANGED <<connected, up, breaks>>

\* Mutated form: the calls that wait are not resumed.
ready_Alone(c) ==
    /\ up
    /\ link[c] \in {"connecting", "lost"}
    /\ link' = [link EXCEPT ![c] = "ready"]
    /\ connected' = TRUE
    /\ UNCHANGED <<client, waits, got, up, breaks>>

\* Mutated form: only the calls that await the newest client are resumed.
ready_Newest(c) ==
    /\ up
    /\ link[c] \in {"connecting", "lost"}
    /\ link' = [link EXCEPT ![c] = "ready"]
    /\ connected' = TRUE
    /\ LET over(r) == waits[r] = c /\ c = client
       IN  /\ got' = [r \in Callers |-> IF over(r) THEN client ELSE got[r]]
           /\ waits' = [r \in Callers |-> IF over(r) THEN NoClient ELSE waits[r]]
    /\ UNCHANGED <<client, up, breaks>>

\* Client c is ready, for the first time or again.  What awaited its connect()
\* resumes in the same turn of the event loop and returns the newest client.
ready(c) ==
    /\ up
    /\ link[c] \in {"connecting", "lost"}
    /\ link' = [link EXCEPT ![c] = "ready"]
    /\ connected' = TRUE
    /\ got' = [r \in Callers |-> IF waits[r] = c THEN client ELSE got[r]]
    /\ waits' = [r \in Callers |-> IF waits[r] = c THEN NoClient ELSE waits[r]]
    /\ UNCHANGED <<client, up, breaks>>

\* Client c notices that its socket is gone, or fails to reach Redis again.
error(c) ==
    /\ \/ link[c] = "severed" /\ link' = [link EXCEPT ![c] = "lost"]
       \/ link[c] \in {"connecting", "lost"} /\ ~up /\ link' = link
    /\ connected' = FALSE
    /\ UNCHANGED <<client, waits, got, up, breaks>>

\* Redis goes away, and with it every socket; it comes back.
RedisFails ==
    /\ up
    /\ breaks > 0
    /\ up' = FALSE
    /\ breaks' = breaks - 1
    /\ link' = [c \in Clients |-> IF link[c] = "ready" THEN "severed" ELSE link[c]]
    /\ UNCHANGED <<connected, client, waits, got>>

RedisReturns ==
    /\ ~up
    /\ up' = TRUE
    /\ UNCHANGED <<connected, client, link, waits, got, breaks>>

ConnectionNext ==
    \/ \E r \in Callers : getConnection(r)
    \/ \E c \in Clients : ready(c) \/ error(c)
    \/ RedisFails
    \/ RedisReturns

ConnectionSpec == ConnectionInit /\ [][ConnectionNext]_connectionVars

\* A client retries every half second at most and an outage ends; calls come
\* as they please.
ConnectionFairSpec ==
    /\ ConnectionSpec
    /\ WF_connectionVars(RedisReturns)
    /\ \A c \in Clients : WF_connectionVars(ready(c)) /\ WF_connectionVars(link[c] = "severed" /\ error(c))

-----------------------------------------------------------------------------
(***************************************************************************)
(* Properties.                                                             *)
(***************************************************************************)
\* There is a client for every number handed out.
ConnectionTypeOK ==
    /\ connected \in BOOLEAN
    /\ client \in {0} \cup Clients
    /\ link \in [Clients -> {"unmade", "connecting", "ready", "severed", "lost"}]
    /\ waits \in [Callers -> Clients \cup {NoClient}]
    /\ got \in [Callers -> Clients \cup {NoClient}]
    /\ up \in BOOLEAN
    /\ breaks \in 0 .. Breaks

\* The one flag is never left standing by a client that saw its connection go:
\* while it is set, some client believes itself connected.
FlagHasClient == connected => \E c \in Clients : link[c] \in {"ready", "severed"}

\* A call only waits for a client on its first way to Redis: a client that was
\* ready once has resumed everybody, also those whose own client was replaced
\* as the newest one meanwhile.
WaitersWaitForConnect == \A r \in Callers : waits[r] # NoClient => link[waits[r]] = "connecting"

\* The one flag has a client, and calls wait for one that connects.
ConnectionInv ==
    /\ ConnectionTypeOK
    /\ FlagHasClient
    /\ WaitersWaitForConnect

\* No handler hangs in getConnection once outages end.
CallsReturn == \A r \in Callers : waits[r] # NoClient ~> got[r] # NoClient

\* However many clients quarrel over the flag, it ends up set: the API stops
\* making clients when the last outage is over.
FlagRecovers == client # 0 ~> [](breaks = 0 /\ up => <>connected)
=============================================================================
