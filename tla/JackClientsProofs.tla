-------------------------- MODULE JackClientsProofs --------------------------
(* What holds of the clients of jackd, for any number of them: how they     *)
(* find and start the server (OpeningInv), which names they have and who    *)
(* gets their events (ClientsInv), how their sessions are saved             *)
(* (SessionInv), and what they and the engine read of the transport they    *)
(* share (TransportInv, MovesAreAnnounced).                                 *)
EXTENDS JackOpen, JackClients, JackSession, JackTransport, SequenceTheorems,
        FiniteSetTheorems, TLAPS

------------------------------------------------------------------------------
(* Opening. What OpeningInv says of clients that find, start and lose their *)
(* server, for any number of clients and of attempts.                       *)
(*                                                                          *)
(* OpeningInv is not inductive. That one server is in charge rests on the   *)
(* registry, that clients find it on the socket files it removed before it  *)
(* made its own, and that an open client is connected on what holds of it   *)
(* at every step of its opening: OpenIInv says these.                       *)

USE OpenAssumption

ClientStages == {"idle", "waiting", "requesting", "attaching", "acking", "open", "failed", "closed"}
ServerStages == {"none", "forked", "registered", "listening", "engine", "running", "ending", "cleaned", "dead"}
Serving == {"engine", "running"}
Things == {"request", "engine", "control", "events"}

\* What the variables hold.
OpenTypes ==
    /\ opAt \in [Openers -> ClientStages] /\ opTries \in [Openers -> Nat]
    /\ opServer \in [Openers -> Servers \cup {Nobody}]
    /\ opStatus \in [Openers -> SUBSET {"Failure", "ServerFailed", "ServerError", "ServerStarted"}]
    /\ opHolds \in [Openers -> SUBSET Things] /\ opControl \in [Openers -> Openers \cup {Nobody}]
    /\ svAt \in [Servers -> ServerStages] /\ svQuits \in [Servers -> BOOLEAN]
    /\ svClients \in [Servers -> [Openers -> {"none", "listed", "acked"}]]
    /\ registered \in Servers \cup {Nobody} /\ sockets \in [{0, 1} -> Servers \cup {Nobody}]

\* A client that has not begun has started no server.
IdleStartsNone == \A c \in Openers : opAt[c] = "idle" => svAt[c] = "none"

\* A server in charge is the one in the registry.
NameIsHeld == \A s \in Servers : InCharge(s) => registered = s

\* Between its registration and its sockets no file is left, and then they are its own.
SocketsAreOfName ==
    \A s \in Servers :
        /\ svAt[s] = "registered" => sockets[0] = Nobody
        /\ svAt[s] \in {"listening", "engine", "running"} => sockets[0] = s

\* Who was let in has a server that has come as far as to let clients in.
ServersOfClients ==
    \A c \in Openers :
        /\ opAt[c] \in {"requesting", "attaching", "acking", "open"} => opServer[c] \in Servers
        /\ opAt[c] \in {"attaching", "acking", "open"} =>
              svAt[opServer[c]] \in {"engine", "running", "ending", "cleaned", "dead"}

\* While that server runs, it lists the client, whose control block is its own.
ListedWhileServing ==
    \A c \in Openers : opAt[c] \in {"attaching", "acking", "open"} /\ svAt[opServer[c]] \in Serving =>
        /\ svClients[opServer[c]][c] # "none"
        /\ opAt[c] \in {"acking", "open"} => opControl[c] = c
        /\ opAt[c] = "open" => svClients[opServer[c]][c] = "acked"

\* What a client has at each step.
HoldsByStage ==
    \A c \in Openers :
        /\ opAt[c] \in {"requesting", "attaching"} => opHolds[c] = {"request"}
        /\ opAt[c] = "acking" => opHolds[c] = {"request", "engine", "control"}
        /\ opAt[c] = "open" => opHolds[c] = Things
        /\ opAt[c] = "failed" => opHolds[c] = {}

\* A failure has its bit, or a server that had answered.
ToldOrAnswered == \A c \in Openers : opAt[c] = "failed" => "Failure" \in opStatus[c] \/ opServer[c] # Nobody

ServerParts == NameIsHeld /\ SocketsAreOfName
ClientParts ==
    IdleStartsNone /\ ServersOfClients /\ ListedWhileServing /\ HoldsByStage /\ ToldOrAnswered /\ NobodyIsCutOff

OpenIInv == OpenTypes /\ ServerParts /\ ClientParts

------------------------------------------------------------------------------
LEMMA OpenerIsServer == Openers \subseteq Servers /\ User \in Servers /\ Nobody \notin Servers
BY DEF Servers

LEMMA OpenInitEstablishes == OpenInit => OpenIInv
<1>. SUFFICES ASSUME OpenInit PROVE OpenIInv
  OBVIOUS
<1>. USE OpenerIsServer DEF OpenInit
<1>1. OpenTypes
  <2>1. svAt \in [Servers -> ServerStages]
    BY DEF ServerStages
  <2>. QED
    BY <2>1 DEF OpenTypes, ClientStages, Things
<1>2. \A s \in Servers : svAt[s] \in {"none", "forked"}
  OBVIOUS
<1>3. ServerParts
  BY <1>2 DEF ServerParts, NameIsHeld, SocketsAreOfName, InCharge
<1>4. ClientParts
  BY <1>2 DEF ClientParts, IdleStartsNone, ServersOfClients, ListedWhileServing,
     HoldsByStage, ToldOrAnswered, NobodyIsCutOff
<1>. QED
  BY <1>1, <1>3, <1>4 DEF OpenIInv

------------------------------------------------------------------------------
(* The steps of servers.                                                       *)

\* A server that goes on from one stage to a later one disturbs no client.
LEMMA ServerGoesOnKeeps ==
    ASSUME OpenIInv, NEW s \in Servers, NEW to \in ServerStages,
           svAt' = [svAt EXCEPT ![s] = to], svAt[s] # "none",
           to \in Serving => svAt[s] \in Serving \cup {"listening"},
           svAt[s] \in {"engine", "running", "ending", "cleaned", "dead"} => to \in {"engine", "running", "ending", "cleaned", "dead"},
           UNCHANGED <<opAt, clientSide, svQuits, svClients>>
    PROVE  ClientParts' /\ svAt' \in [Servers -> ServerStages]
<1>. USE OpenerIsServer DEF OpenIInv, OpenTypes, ClientParts, clientSide
<1>1. \A t \in Servers : svAt'[t] = IF t = s THEN to ELSE svAt[t]
  OBVIOUS
<1>2. IdleStartsNone'
  BY <1>1 DEF IdleStartsNone
<1>3. ServersOfClients'
  BY <1>1 DEF ServersOfClients
<1>4. ListedWhileServing'
  BY <1>1 DEF ListedWhileServing, ServersOfClients, Serving
<1>5. HoldsByStage' /\ ToldOrAnswered' /\ NobodyIsCutOff'
  BY DEF HoldsByStage, ToldOrAnswered, NobodyIsCutOff
<1>. QED
  BY <1>1, <1>2, <1>3, <1>4, <1>5

LEMMA RegistersKeeps ==
    ASSUME OpenIInv, NEW s \in Servers, Registers(s)
    PROVE  OpenIInv'
<1>. USE OpenerIsServer
<1>1. svAt[s] = "forked" /\ UNCHANGED <<opAt, clientSide, svQuits, svClients>>
  BY DEF Registers, Moves
<1>2. CASE registered # Nobody /\ Lives(registered)
  <2>1. svAt' = [svAt EXCEPT ![s] = "dead"] /\ UNCHANGED <<registered, sockets>>
    BY <1>2 DEF Registers, Moves
  <2>2. ClientParts' /\ svAt' \in [Servers -> ServerStages]
    BY <1>1, <2>1, ServerGoesOnKeeps DEF ServerStages, Serving
  <2>3. ServerParts'
    BY <2>1 DEF OpenIInv, OpenTypes, ServerParts, NameIsHeld, SocketsAreOfName, InCharge
  <2>. QED
    BY <1>1, <2>1, <2>2, <2>3 DEF OpenIInv, OpenTypes, clientSide
<1>3. CASE ~(registered # Nobody /\ Lives(registered))
  <2>1. svAt' = [svAt EXCEPT ![s] = "registered"] /\ registered' = s /\ sockets' = [i \in {0, 1} |-> Nobody]
    BY <1>3 DEF Registers, Moves
  <2>2. ClientParts' /\ svAt' \in [Servers -> ServerStages]
    BY <1>1, <2>1, ServerGoesOnKeeps DEF ServerStages, Serving
  <2>3. \A t \in Servers : ~InCharge(t)
    BY <1>3 DEF OpenIInv, ServerParts, NameIsHeld, InCharge, Lives
  <2>4. ServerParts'
    BY <2>1, <2>3 DEF OpenIInv, OpenTypes, ServerParts, NameIsHeld, SocketsAreOfName,
       InCharge
  <2>. QED
    BY <1>1, <2>1, <2>2, <2>4 DEF OpenIInv, OpenTypes, clientSide
<1>. QED
  BY <1>2, <1>3

LEMMA MakesSocketsKeeps ==
    ASSUME OpenIInv, NEW s \in Servers, MakesSockets(s)
    PROVE  OpenIInv'
<1>. USE OpenerIsServer
<1>1. /\ svAt[s] = "registered" /\ svAt' = [svAt EXCEPT ![s] = "listening"]
      /\ UNCHANGED <<opAt, clientSide, svQuits, svClients, registered>>
  BY DEF MakesSockets, Moves
<1>2. ClientParts' /\ svAt' \in [Servers -> ServerStages]
  BY <1>1, ServerGoesOnKeeps DEF ServerStages, Serving
<1>3. sockets' = [sockets EXCEPT ![0] = s]
  BY <1>1 DEF MakesSockets, OpenIInv, ServerParts, SocketsAreOfName
<1>4. \A t \in Servers : InCharge(t) => t = s
  BY <1>1 DEF OpenIInv, ServerParts, NameIsHeld, InCharge
<1>5. ServerParts'
  BY <1>1, <1>3, <1>4 DEF OpenIInv, OpenTypes, ServerParts, NameIsHeld, SocketsAreOfName,
     InCharge
<1>. QED
  BY <1>1, <1>2, <1>3, <1>5 DEF OpenIInv, OpenTypes, clientSide

LEMMA GoesKeeps ==
    ASSUME OpenIInv, NEW s \in Servers, Goes(s) \/ Signals(s)
    PROVE  OpenIInv'
<1>. USE OpenerIsServer
<1>1. UNCHANGED <<opAt, clientSide, svQuits, svClients, registered, sockets>>
  BY DEF Goes, Signals
<1>2. PICK to \in {"engine", "running", "ending"} :
          /\ svAt[s] \in {"listening", "engine", "running"} /\ (to = "engine" => svAt[s] = "listening")
          /\ (to = "running" => svAt[s] = "engine") /\ svAt' = [svAt EXCEPT ![s] = to]
  BY DEF Goes, Signals, Moves
<1>3. ClientParts' /\ svAt' \in [Servers -> ServerStages]
  BY <1>1, <1>2, ServerGoesOnKeeps DEF ServerStages, Serving
<1>4. ServerParts'
  BY <1>1, <1>2 DEF OpenIInv, OpenTypes, ServerParts, NameIsHeld, SocketsAreOfName, InCharge
<1>. QED
  BY <1>1, <1>3, <1>4 DEF OpenIInv, OpenTypes, clientSide

LEMMA UnregistersKeeps ==
    ASSUME OpenIInv, NEW s \in Servers, Unregisters(s)
    PROVE  OpenIInv'
<1>. USE OpenerIsServer
<1>1. UNCHANGED <<opAt, clientSide, svQuits, svClients>>
  BY DEF Unregisters
<1>2. PICK to \in {"cleaned", "dead"} :
          /\ svAt[s] \in {"ending", "cleaned"} /\ svAt' = [svAt EXCEPT ![s] = to]
          /\ \/ to = "cleaned" /\ sockets' = [i \in {0, 1} |-> Nobody] /\ UNCHANGED registered
             \/ to = "dead" /\ registered' = Nobody /\ UNCHANGED sockets
  BY DEF Unregisters, Moves
<1>3. ClientParts' /\ svAt' \in [Servers -> ServerStages]
  BY <1>1, <1>2, ServerGoesOnKeeps DEF ServerStages, Serving
<1>4. \A t \in Servers : InCharge(t) => t = s
  BY <1>2 DEF OpenIInv, ServerParts, NameIsHeld, InCharge
<1>5. ServerParts'
  BY <1>2, <1>4 DEF OpenIInv, OpenTypes, ServerParts, NameIsHeld, SocketsAreOfName, InCharge
<1>. QED
  BY <1>1, <1>2, <1>3, <1>5 DEF OpenIInv, OpenTypes, clientSide

LEMMA IsKilledKeeps ==
    ASSUME OpenIInv, NEW s \in Servers, IsKilled(s)
    PROVE  OpenIInv'
<1>. USE OpenerIsServer
<1>1. /\ svAt[s] # "none" /\ svAt' = [svAt EXCEPT ![s] = "dead"]
      /\ UNCHANGED <<opAt, clientSide, svQuits, svClients, registered, sockets>>
  BY DEF IsKilled, Lives
<1>2. ClientParts' /\ svAt' \in [Servers -> ServerStages]
  BY <1>1, ServerGoesOnKeeps DEF ServerStages, Serving
<1>3. ServerParts'
  BY <1>1 DEF OpenIInv, OpenTypes, ServerParts, NameIsHeld, SocketsAreOfName, InCharge
<1>. QED
  BY <1>1, <1>2, <1>3 DEF OpenIInv, OpenTypes, clientSide

------------------------------------------------------------------------------
(* The steps of clients.                                                       *)

\* What a step of one client that leaves the servers alone has to keep.
LEMMA ClientStepKeeps ==
    ASSUME OpenIInv, NEW c \in Openers, OpenTypes',
           UNCHANGED <<svAt, svQuits, svClients, registered, sockets>>,
           \A d \in Openers \ {c} :
               /\ opAt'[d] = opAt[d] /\ opServer'[d] = opServer[d] /\ opStatus'[d] = opStatus[d]
               /\ opHolds'[d] = opHolds[d] /\ opControl'[d] = opControl[d],
           opAt'[c] # "idle",
           opAt'[c] \in {"requesting", "attaching", "acking", "open"} => opServer'[c] \in Servers,
           opAt'[c] \in {"attaching", "acking", "open"} =>
               svAt[opServer'[c]] \in {"engine", "running", "ending", "cleaned", "dead"},
           opAt'[c] \in {"attaching", "acking", "open"} /\ svAt[opServer'[c]] \in Serving =>
               /\ svClients[opServer'[c]][c] # "none"
               /\ opAt'[c] \in {"acking", "open"} => opControl'[c] = c
               /\ opAt'[c] = "open" => svClients[opServer'[c]][c] = "acked",
           opAt'[c] \in {"requesting", "attaching"} => opHolds'[c] = {"request"},
           opAt'[c] = "acking" => opHolds'[c] = {"request", "engine", "control"},
           opAt'[c] = "open" => opHolds'[c] = Things,
           opAt'[c] = "failed" => opHolds'[c] = {},
           opAt'[c] = "failed" => "Failure" \in opStatus'[c] \/ opServer'[c] # Nobody
    PROVE  OpenIInv'
<1>. USE DEF OpenIInv
<1>1. ServerParts'
  BY DEF ServerParts, NameIsHeld, SocketsAreOfName, InCharge
<1>2. IdleStartsNone'
  BY DEF ClientParts, IdleStartsNone
<1>3. ServersOfClients'
  BY DEF ClientParts, ServersOfClients
<1>4. ListedWhileServing'
  BY DEF ClientParts, ListedWhileServing
<1>5. HoldsByStage'
  BY DEF ClientParts, HoldsByStage
<1>6. ToldOrAnswered' /\ NobodyIsCutOff'
  BY DEF ClientParts, ToldOrAnswered, NobodyIsCutOff
<1>. QED
  BY <1>1, <1>2, <1>3, <1>4, <1>5, <1>6 DEF ClientParts

\* Nothing is kept at the fail labels.
LEMMA FailsKeeps ==
    ASSUME OpenIInv, NEW c \in Openers,
           NEW status \in SUBSET {"Failure", "ServerFailed", "ServerError", "ServerStarted"},
           Fails(c, status), opTries' \in [Openers -> Nat],
           UNCHANGED <<opServer, opControl, svAt, svQuits, svClients, registered, sockets>>,
           "Failure" \in status \/ opServer[c] # Nobody
    PROVE  OpenIInv'
<1>1. /\ opAt' = [opAt EXCEPT ![c] = "failed"] /\ opHolds' = [opHolds EXCEPT ![c] = {}]
      /\ opStatus' = [opStatus EXCEPT ![c] = @ \cup status]
  BY DEF Fails
<1>2. OpenTypes'
  BY <1>1 DEF OpenIInv, OpenTypes, ClientStages, Things
<1>3. /\ opAt'[c] = "failed" /\ opHolds'[c] = {} /\ opStatus'[c] = opStatus[c] \cup status
      /\ \A d \in Openers \ {c} : opAt'[d] = opAt[d] /\ opHolds'[d] = opHolds[d] /\ opStatus'[d] = opStatus[d]
  BY <1>1 DEF OpenIInv, OpenTypes
<1>. QED
  BY <1>2, <1>3, ClientStepKeeps

LEMMA GetsThroughKeeps ==
    ASSUME OpenIInv, NEW c \in Openers, NEW status \in SUBSET {"ServerStarted"},
           GetsThrough(c, status),
           UNCHANGED <<opTries, opControl, svAt, svQuits, svClients, registered, sockets>>
    PROVE  OpenIInv'
<1>1. PICK s \in Servers :
        /\ opAt' = [opAt EXCEPT ![c] = "requesting"] /\ opServer' = [opServer EXCEPT ![c] = s]
        /\ opHolds' = [opHolds EXCEPT ![c] = {"request"}] /\ opStatus' = [opStatus EXCEPT ![c] = @ \cup status]
  BY DEF GetsThrough, Answering
<1>2. OpenTypes'
  BY <1>1 DEF OpenIInv, OpenTypes, ClientStages, Things
<1>3. /\ opAt'[c] = "requesting" /\ opHolds'[c] = {"request"} /\ opServer'[c] = s
      /\ \A d \in Openers \ {c} : /\ opAt'[d] = opAt[d] /\ opHolds'[d] = opHolds[d]
                                   /\ opStatus'[d] = opStatus[d] /\ opServer'[d] = opServer[d]
  BY <1>1 DEF OpenIInv, OpenTypes
<1>. QED
  BY <1>2, <1>3, ClientStepKeeps

\* The server that a client starts is one that no client had.
LEMMA StartsKeeps ==
    ASSUME OpenIInv, NEW c \in Openers, Starts(c)
    PROVE  OpenIInv'
<1>1. opAt[c] = "idle" /\ UNCHANGED <<opTries, opControl, svQuits, svClients, registered, sockets>>
  BY DEF Starts
<1>2. opTries' \in [Openers -> Nat]
  BY <1>1 DEF OpenIInv, OpenTypes
<1>3. CASE Fails(c, {"Failure"}) /\ UNCHANGED <<opServer, svAt>>
  BY <1>1, <1>2, <1>3, FailsKeeps
<1>4. CASE GetsThrough(c, {}) /\ UNCHANGED svAt
  BY <1>1, <1>4, GetsThroughKeeps
<1>5. CASE Fails(c, {"Failure", "ServerFailed"}) /\ UNCHANGED <<opServer, svAt>>
  BY <1>1, <1>2, <1>5, FailsKeeps
<1>6. ASSUME opAt' = [opAt EXCEPT ![c] = "waiting"],
             svAt' \in {[svAt EXCEPT ![c] = at] : at \in {"forked", "dead"}},
             UNCHANGED <<opServer, opStatus, opHolds>>
      PROVE  OpenIInv'
  <2>. USE OpenerIsServer DEF OpenIInv, OpenTypes
  <2>1. PICK at \in {"forked", "dead"} : svAt' = [svAt EXCEPT ![c] = at]
    BY <1>6
  <2>2. svAt[c] = "none"
    BY <1>1 DEF ClientParts, IdleStartsNone
  <2>3. \A t \in Servers : svAt'[t] = IF t = c THEN at ELSE svAt[t]
    BY <2>1
  <2>4. \A d \in Openers : opAt'[d] = IF d = c THEN "waiting" ELSE opAt[d]
    BY <1>6
  <2>5. OpenTypes'
    BY <1>1, <1>6, <2>1 DEF ClientStages, ServerStages
  <2>6. ServerParts'
    BY <1>1, <2>2, <2>3 DEF ServerParts, NameIsHeld, SocketsAreOfName, InCharge
  <2>7. IdleStartsNone' /\ HoldsByStage' /\ ToldOrAnswered' /\ NobodyIsCutOff'
    BY <1>1, <1>6, <2>3, <2>4 DEF ClientParts, IdleStartsNone, HoldsByStage, ToldOrAnswered,
       NobodyIsCutOff
  <2>8. ServersOfClients'
    BY <1>6, <2>2, <2>3, <2>4 DEF ClientParts, ServersOfClients
  <2>9. ListedWhileServing'
    BY <1>1, <1>6, <2>2, <2>3, <2>4 DEF ClientParts, ServersOfClients, ListedWhileServing,
       Serving
  <2>. QED
    BY <2>5, <2>6, <2>7, <2>8, <2>9 DEF ClientParts
<1>. QED
  BY <1>3, <1>4, <1>5, <1>6 DEF Starts

LEMMA WaitsKeeps ==
    ASSUME OpenIInv, NEW c \in Openers, Waits(c)
    PROVE  OpenIInv'
<1>1. opAt[c] = "waiting" /\ UNCHANGED <<opControl, svAt, svQuits, svClients, registered, sockets>>
  BY DEF Waits
<1>2. CASE GetsThrough(c, {"ServerStarted"}) /\ UNCHANGED opTries
  BY <1>1, <1>2, GetsThroughKeeps
<1>3. CASE Fails(c, {"Failure", "ServerFailed"}) /\ UNCHANGED <<opServer, opTries>>
  <2>1. opTries' \in [Openers -> Nat]
    BY <1>3 DEF OpenIInv, OpenTypes
  <2>. QED
    BY <1>1, <1>3, <2>1, FailsKeeps
<1>4. ASSUME opTries[c] > 0, opTries' = [opTries EXCEPT ![c] = @ - 1],
             UNCHANGED <<opAt, opServer, opStatus, opHolds>>
      PROVE  OpenIInv'
  <2>1. opTries' \in [Openers -> Nat]
    BY <1>4 DEF OpenIInv, OpenTypes
  <2>2. OpenTypes'
    BY <1>1, <1>4, <2>1 DEF OpenIInv, OpenTypes
  <2>3. ServerParts'
    BY <1>1, <1>4 DEF OpenIInv, ServerParts, NameIsHeld, SocketsAreOfName, InCharge
  <2>4. ClientParts'
    BY <1>1, <1>4 DEF OpenIInv, ClientParts, IdleStartsNone, ServersOfClients,
       ListedWhileServing, HoldsByStage,
                      ToldOrAnswered, NobodyIsCutOff
  <2>. QED
    BY <2>2, <2>3, <2>4 DEF OpenIInv
<1>. QED
  BY <1>2, <1>3, <1>4 DEF Waits

LEMMA SeesServerGoneKeeps ==
    ASSUME OpenIInv, NEW c \in Openers, SeesServerGone(c)
    PROVE  OpenIInv'
<1>1. /\ Fails(c, {"Failure", "ServerError"})
      /\ UNCHANGED <<opTries, opServer, opControl, svAt, svQuits, svClients, registered, sockets>>
  BY DEF SeesServerGone
<1>2. opTries' \in [Openers -> Nat]
  BY <1>1 DEF OpenIInv, OpenTypes
<1>. QED
  BY <1>1, <1>2, FailsKeeps

\* While the server that answered runs, the registry is its own, and so is what
\* the client's index names.
LEMMA AttachesKeeps ==
    ASSUME OpenIInv, NEW c \in Openers, Attaches(c)
    PROVE  OpenIInv'
<1>. USE OpenerIsServer
<1>1. opAt[c] = "attaching" /\ UNCHANGED <<opTries, opServer, svAt, svQuits, svClients, registered, sockets>>
  BY DEF Attaches
<1>2. /\ opServer[c] \in Servers /\ opHolds[c] = {"request"}
      /\ svAt[opServer[c]] \in {"engine", "running", "ending", "cleaned", "dead"}
      /\ svAt[opServer[c]] \in Serving => svClients[opServer[c]][c] # "none"
  BY <1>1 DEF OpenIInv, ClientParts, ServersOfClients, ListedWhileServing, HoldsByStage
<1>3. CASE Fails(c, {}) /\ UNCHANGED opControl
  <2>1. opTries' \in [Openers -> Nat] /\ opServer[c] # Nobody
    BY <1>1, <1>2 DEF OpenIInv, OpenTypes
  <2>. QED
    BY <1>1, <1>3, <2>1, FailsKeeps
<1>4. ASSUME NEW d \in Holders(c), opControl' = [opControl EXCEPT ![c] = d],
             opAt' = [opAt EXCEPT ![c] = "acking"], UNCHANGED opStatus,
             opHolds' = [opHolds EXCEPT ![c] = @ \cup {"engine", "control"}]
      PROVE  OpenIInv'
  <2>1. d \in Openers
    BY <1>4 DEF Holders
  <2>2. svAt[opServer[c]] \in Serving => d = c
    BY <1>2, <1>4 DEF Holders, Serving, OpenIInv, ServerParts, NameIsHeld, InCharge
  <2>3. OpenTypes'
    BY <1>1, <1>4, <2>1 DEF OpenIInv, OpenTypes, ClientStages, Things
  <2>4. /\ opAt'[c] = "acking" /\ opControl'[c] = d /\ opHolds'[c] = {"request", "engine", "control"}
        /\ \A e \in Openers \ {c} : opAt'[e] = opAt[e] /\ opHolds'[e] = opHolds[e] /\ opControl'[e] = opControl[e]
    BY <1>2, <1>4 DEF OpenIInv, OpenTypes
  <2>. QED
    BY <1>1, <1>2, <1>4, <2>2, <2>3, <2>4, ClientStepKeeps
<1>. QED
  BY <1>3, <1>4 DEF Attaches

\* The server at the first socket is the client's own as long as that one runs.
LEMMA AcknowledgesKeeps ==
    ASSUME OpenIInv, NEW c \in Openers, Acknowledges(c)
    PROVE  OpenIInv'
<1>. USE OpenerIsServer
<1>1. opAt[c] = "acking" /\ UNCHANGED <<opTries, opServer, opControl, svAt, svQuits, registered, sockets>>
  BY DEF Acknowledges
<1>2. /\ opServer[c] \in Servers /\ opHolds[c] = {"request", "engine", "control"}
      /\ svAt[opServer[c]] \in {"engine", "running", "ending", "cleaned", "dead"}
      /\ svAt[opServer[c]] \in Serving => svClients[opServer[c]][c] # "none" /\ opControl[c] = c
  BY <1>1 DEF OpenIInv, ClientParts, ServersOfClients, ListedWhileServing, HoldsByStage
<1>3. CASE Fails(c, {}) /\ UNCHANGED svClients
  <2>1. opTries' \in [Openers -> Nat] /\ opServer[c] # Nobody
    BY <1>1, <1>2 DEF OpenIInv, OpenTypes
  <2>. QED
    BY <1>1, <1>3, <2>1, FailsKeeps
<1>4. ASSUME NEW s \in Answering, ~svQuits[s], svClients[s][opControl[c]] # "none",
             svClients' = [svClients EXCEPT ![s][opControl[c]] = "acked"],
             opAt' = [opAt EXCEPT ![c] = "open"], UNCHANGED opStatus,
             opHolds' = [opHolds EXCEPT ![c] = @ \cup {"events"}]
      PROVE  OpenIInv'
  <2>1. s \in Servers /\ sockets[0] = s
    BY <1>4 DEF Answering
  <2>2. svAt[opServer[c]] \in Serving => s = opServer[c]
    BY <1>2, <2>1 DEF OpenIInv, ServerParts, SocketsAreOfName, Serving
  <2>3. /\ svClients' \in [Servers -> [Openers -> {"none", "listed", "acked"}]]
        /\ \A t \in Servers, d \in Openers :
              svClients'[t][d] = IF t = s /\ d = opControl[c] THEN "acked" ELSE svClients[t][d]
    BY <1>4, <2>1 DEF OpenIInv, OpenTypes
  <2>4. OpenTypes'
    BY <1>1, <1>4, <2>3 DEF OpenIInv, OpenTypes, ClientStages, Things
  <2>5. \A d \in Openers : opAt'[d] = IF d = c THEN "open" ELSE opAt[d]
    BY <1>4 DEF OpenIInv, OpenTypes
  <2>6. /\ opHolds'[c] = Things
        /\ \A d \in Openers \ {c} : opHolds'[d] = opHolds[d]
    BY <1>2, <1>4 DEF OpenIInv, OpenTypes, Things
  <2>7. ServerParts'
    BY <1>1 DEF OpenIInv, ServerParts, NameIsHeld, SocketsAreOfName, InCharge
  <2>8. IdleStartsNone' /\ HoldsByStage' /\ ToldOrAnswered' /\ ServersOfClients'
    BY <1>1, <1>2, <1>4, <2>5, <2>6
       DEF OpenIInv, ClientParts, IdleStartsNone, HoldsByStage, ToldOrAnswered,
           ServersOfClients
  <2>9. NobodyIsCutOff'
    BY <1>1, <1>4, <2>1, <2>3 DEF OpenIInv, ClientParts, NobodyIsCutOff
  <2>10. ListedWhileServing'
    <3>. SUFFICES ASSUME NEW d \in Openers, opAt'[d] \in {"attaching", "acking", "open"},
                         svAt[opServer[d]] \in Serving
                  PROVE  /\ svClients'[opServer[d]][d] # "none"
                         /\ opAt'[d] \in {"acking", "open"} => opControl[d] = d
                         /\ opAt'[d] = "open" => svClients'[opServer[d]][d] = "acked"
      BY <1>1 DEF ListedWhileServing
    <3>1. CASE d = c
      BY <1>2, <2>1, <2>2, <2>3, <3>1
    <3>2. CASE d # c
      <4>1. opAt[d] \in {"attaching", "acking", "open"} /\ opAt'[d] = opAt[d] /\ opServer[d] \in Servers
        BY <2>5, <3>2 DEF OpenIInv, ClientParts, ServersOfClients
      <4>. QED
        BY <2>3, <4>1 DEF OpenIInv, ClientParts, ListedWhileServing
    <3>. QED
      BY <3>1, <3>2
  <2>. QED
    BY <2>4, <2>7, <2>8, <2>9, <2>10 DEF OpenIInv, ClientParts
<1>. QED
  BY <1>3, <1>4 DEF Acknowledges

LEMMA ClosesKeeps ==
    ASSUME OpenIInv, NEW c \in Openers, Closes(c)
    PROVE  OpenIInv'
<1>1. /\ opAt' = [opAt EXCEPT ![c] = "closed"] /\ opHolds' = [opHolds EXCEPT ![c] = {}]
      /\ UNCHANGED <<opTries, opServer, opStatus, opControl, svAt, svQuits, svClients, registered, sockets>>
  BY DEF Closes
<1>2. OpenTypes'
  BY <1>1 DEF OpenIInv, OpenTypes, ClientStages, Things
<1>3. /\ opAt'[c] = "closed"
      /\ \A d \in Openers \ {c} : opAt'[d] = opAt[d] /\ opHolds'[d] = opHolds[d]
  BY <1>1 DEF OpenIInv, OpenTypes
<1>. QED
  BY <1>1, <1>2, <1>3, ClientStepKeeps

------------------------------------------------------------------------------
(* The steps of both.                                                          *)

LEMMA AcceptsKeeps ==
    ASSUME OpenIInv, NEW s \in Servers, NEW c \in Openers, Accepts(s, c)
    PROVE  OpenIInv'
<1>1. /\ svAt[s] \in Serving /\ ~svQuits[s] /\ opAt[c] = "requesting" /\ opServer[c] = s
      /\ UNCHANGED <<opTries, opServer, opControl, svAt, svQuits, registered, sockets>>
  BY DEF Accepts, Serving
<1>2. CASE Fails(c, {"Failure", "ServerError"}) /\ UNCHANGED svClients
  <2>1. opTries' \in [Openers -> Nat]
    BY <1>1 DEF OpenIInv, OpenTypes
  <2>. QED
    BY <1>1, <1>2, <2>1, FailsKeeps
<1>3. ASSUME svClients' = [svClients EXCEPT ![s][c] = "listed"],
             opAt' = [opAt EXCEPT ![c] = "attaching"], UNCHANGED <<opStatus, opHolds>>
      PROVE  OpenIInv'
  <2>1. /\ svClients' \in [Servers -> [Openers -> {"none", "listed", "acked"}]]
        /\ \A t \in Servers, d \in Openers :
              svClients'[t][d] = IF t = s /\ d = c THEN "listed" ELSE svClients[t][d]
    BY <1>3 DEF OpenIInv, OpenTypes
  <2>2. \A d \in Openers : opAt'[d] = IF d = c THEN "attaching" ELSE opAt[d]
    BY <1>3 DEF OpenIInv, OpenTypes
  <2>3. OpenTypes'
    BY <1>1, <1>3, <2>1 DEF OpenIInv, OpenTypes, ClientStages
  <2>4. ServerParts'
    BY <1>1 DEF OpenIInv, ServerParts, NameIsHeld, SocketsAreOfName, InCharge
  <2>5. IdleStartsNone' /\ HoldsByStage' /\ ToldOrAnswered' /\ ServersOfClients'
    BY <1>1, <1>3, <2>2
       DEF OpenIInv, ClientParts, IdleStartsNone, HoldsByStage, ToldOrAnswered,
           ServersOfClients, Serving
  <2>6. NobodyIsCutOff'
    BY <1>1, <2>1 DEF OpenIInv, ClientParts, NobodyIsCutOff
  <2>7. ListedWhileServing'
    BY <1>1, <2>1, <2>2 DEF OpenIInv, ClientParts, ServersOfClients, ListedWhileServing
  <2>. QED
    BY <2>3, <2>4, <2>5, <2>6, <2>7 DEF OpenIInv, ClientParts
<1>. QED
  BY <1>2, <1>3 DEF Accepts

LEMMA RemovesLeftKeeps ==
    ASSUME OpenIInv, NEW s \in Servers, NEW c \in Openers, RemovesLeft(s, c)
    PROVE  OpenIInv'
<1>1. /\ opAt[c] \in {"failed", "closed"} /\ svClients' = [svClients EXCEPT ![s][c] = "none"]
      /\ svQuits' = [svQuits EXCEPT ![s] = Temporary(s) /\ \A d \in Openers : svClients'[s][d] = "none"]
      /\ UNCHANGED <<opAt, clientSide, svAt, registered, sockets>>
  BY DEF RemovesLeft
<1>2. /\ svClients' \in [Servers -> [Openers -> {"none", "listed", "acked"}]]
      /\ \A t \in Servers, d \in Openers :
            svClients'[t][d] = IF t = s /\ d = c THEN "none" ELSE svClients[t][d]
  BY <1>1 DEF OpenIInv, OpenTypes
<1>3. /\ svQuits' \in [Servers -> BOOLEAN]
      /\ svQuits'[s] => \A d \in Openers : svClients'[s][d] = "none"
      /\ \A t \in Servers \ {s} : svQuits'[t] = svQuits[t]
  BY <1>1, Zenon DEF OpenIInv, OpenTypes, Temporary
<1>4. OpenTypes'
  BY <1>1, <1>2, <1>3 DEF OpenIInv, OpenTypes, clientSide
<1>5. ServerParts'
  BY <1>1 DEF OpenIInv, ServerParts, NameIsHeld, SocketsAreOfName, InCharge
<1>6. IdleStartsNone' /\ HoldsByStage' /\ ToldOrAnswered' /\ ServersOfClients'
  BY <1>1 DEF OpenIInv, ClientParts, IdleStartsNone, HoldsByStage, ToldOrAnswered,
     ServersOfClients, clientSide
<1>7. NobodyIsCutOff'
  BY <1>2, <1>3 DEF OpenIInv, ClientParts, NobodyIsCutOff
<1>8. ListedWhileServing'
  BY <1>1, <1>2 DEF OpenIInv, ClientParts, ServersOfClients, ListedWhileServing, clientSide
<1>. QED
  BY <1>4, <1>5, <1>6, <1>7, <1>8 DEF OpenIInv, ClientParts

LEMMA OpenStepKeeps == OpenIInv /\ [OpenNext]_openVars => OpenIInv'
<1>. SUFFICES ASSUME OpenIInv, [OpenNext]_openVars PROVE OpenIInv'
  OBVIOUS
<1>1. ASSUME NEW c \in Openers,
             Starts(c) \/ Waits(c) \/ SeesServerGone(c) \/ Attaches(c) \/ Acknowledges(c) \/ Closes(c)
      PROVE  OpenIInv'
  BY <1>1, StartsKeeps, WaitsKeeps, SeesServerGoneKeeps, AttachesKeeps, AcknowledgesKeeps,
     ClosesKeeps
<1>2. ASSUME NEW s \in Servers,
             Registers(s) \/ MakesSockets(s) \/ Goes(s) \/ Signals(s) \/ Unregisters(s) \/ IsKilled(s)
      PROVE  OpenIInv'
  BY <1>2, RegistersKeeps, MakesSocketsKeeps, GoesKeeps, UnregistersKeeps, IsKilledKeeps
<1>3. ASSUME NEW s \in Servers, NEW c \in Openers, Accepts(s, c) \/ RemovesLeft(s, c)
      PROVE  OpenIInv'
  BY <1>3, AcceptsKeeps, RemovesLeftKeeps
<1>4. CASE UNCHANGED openVars
  BY <1>4 DEF openVars, OpenIInv, OpenTypes, ServerParts, NameIsHeld, SocketsAreOfName,
     InCharge, ClientParts,
              IdleStartsNone, ServersOfClients, ListedWhileServing, HoldsByStage, ToldOrAnswered, NobodyIsCutOff
<1>. QED
  BY <1>1, <1>2, <1>3, <1>4 DEF OpenNext

LEMMA OpenIInvImpliesInv == OpenIInv => OpeningInv
<1>. SUFFICES ASSUME OpenIInv PROVE OpeningInv
  OBVIOUS
<1>. USE DEF OpenIInv
<1>1. OneServer
  <2>1. {s \in Servers : InCharge(s)} \subseteq {registered}
    BY DEF ServerParts, NameIsHeld
  <2>2. IsFiniteSet({registered}) /\ Cardinality({registered}) = 1
    BY FS_Singleton
  <2>. QED
    BY <2>1, <2>2, FS_Subset DEF OneServer
<1>2. ServerIsFound
  BY DEF ServerParts, NameIsHeld, SocketsAreOfName, ServerIsFound
<1>3. OpenIsConnected
  BY DEF ClientParts, ListedWhileServing, HoldsByStage, Serving, Things, OpenIsConnected
<1>4. NobodyIsCutOff /\ FailureIsTold
  BY DEF ClientParts, HoldsByStage, ToldOrAnswered, FailureIsTold
<1>. QED
  BY <1>1, <1>2, <1>3, <1>4 DEF OpeningInv

------------------------------------------------------------------------------
\* However many clients open, start servers, fail and are killed with them: one
\* server has the name, clients find it, who is open is connected to it, and who
\* is not holds nothing (jack_client_open, jackd's main and its server thread).
THEOREM OpeningIsSafe == OpenSpec => []OpeningInv
<1>1. OpenInit => OpenIInv
  BY OpenInitEstablishes
<1>2. OpenIInv /\ [OpenNext]_openVars => OpenIInv'
  BY OpenStepKeeps
<1>3. OpenIInv => OpeningInv
  BY OpenIInvImpliesInv
<1>. QED
  BY <1>1, <1>2, <1>3, PTL DEF OpenSpec

HIDE OpenAssumption

------------------------------------------------------------------------------
(* Names and events. ClientsInv is not inductive. That a new name is free   *)
(* and that a reserved one stays reserved is seen from the list of clients, *)
(* the structures it points at and the processes that hold one of them      *)
(* together: ClientsIInv.                                                   *)

RecType ==
    [name : ClientNames \cup {NoName}, uuid : Uuids \cup Keys \cup {NoUuid},
     internal : BOOLEAN, event : Procs \cup {NoProc}, broken : BOOLEAN, dead : BOOLEAN]
ProcType ==
    [stage : {"out", "named", "open"}, key : Keys \cup {NoKey},
     promised : ClientNames \cup {NoName}]
ReservedType == [name : ClientNames, uuid : Uuids]

ListOK ==
    /\ list \in Seq(Keys)
    /\ \A i, j \in DOMAIN list : list[i] = list[j] => i = j

StructuresOK ==
    /\ rec \in [Keys -> RecType] /\ reserved \in Seq(ReservedType)
    /\ proc \in [Procs -> ProcType]
    /\ clash \in BOOLEAN

NamesOK ==
    /\ \A k \in Listed : rec[k].name \in ClientNames
    /\ NamesAreUnique

\* A client has the UUID it gave, or its own.
UuidsOK ==
    /\ \A k \in Listed : rec[k].uuid \in Uuids \cup {OwnUuid(k)}
    /\ ~clash => \A j, k \in Listed : UuidOf(j) = UuidOf(k) => j = k

Here(a) == proc[a].stage # "out"

\* A process that is there has a client of its own on the list, which nobody unloads.
HomesOK ==
    /\ \A a \in Procs : Here(a) => /\ proc[a].key \in Listed
                                   /\ ~rec[proc[a].key].internal
                                   /\ ~rec[proc[a].key].broken
    /\ \A a, b \in Procs : Here(a) /\ Here(b) /\ proc[a].key = proc[b].key => a = b
    /\ \A a \in Procs : proc[a].stage = "open" => rec[proc[a].key].event = a
    /\ \A a \in Procs, k \in Listed :
           rec[k].event = a /\ ~rec[k].broken => proc[a].stage = "open" /\ proc[a].key = k

ClientsIInv ==
    /\ ListOK /\ StructuresOK /\ NamesOK /\ UuidsOK
    /\ ~clash => HomesOK

------------------------------------------------------------------------------
(* Lists and choices.                                                        *)

\* A set of naturals that is not empty has a least one.
LEMMA LeastExists ==
    ASSUME NEW T \in SUBSET Nat, T # {}
    PROVE  \E x \in T : \A y \in T : x <= y
<1> DEFINE Below(n) == 0 .. n
           B == {Below(n) : n \in T}
<1>1. B \subseteq FiniteSubsetsOf(Nat)
  <2> SUFFICES ASSUME NEW n \in T PROVE Below(n) \in FiniteSubsetsOf(Nat)
    OBVIOUS
  <2>1. IsFiniteSet(0 .. n)
    BY FS_Interval
  <2>2. QED
    BY <2>1 DEF FiniteSubsetsOf
<1>2. B # {}
  OBVIOUS
<1>3. PICK b \in B : \A c \in B : ~(<<c, b>> \in StrictSubsetOrdering(Nat))
  <2> HIDE DEF B
  <2>1. QED
    BY <1>1, <1>2, WFMin, FS_StrictSubsetOrderingWellFounded
<1>4. PICK m \in T : b = Below(m)
  OBVIOUS
<1>5. ASSUME NEW k \in T, k < m PROVE FALSE
  <2>1. Below(k) \in B /\ Below(k) \subseteq Below(m) /\ Below(k) # Below(m)
    BY <1>5
  <2>2. <<Below(k), b>> \in StrictSubsetOrdering(Nat)
    BY <2>1, <1>4 DEF StrictSubsetOrdering
  <2>3. QED
    BY <2>1, <2>2, <1>3
<1>6. QED
  BY <1>5

\* RemoveAt closes the gap.
LEMMA RemoveAtCloses ==
    ASSUME NEW S, NEW s \in Seq(S), NEW i \in DOMAIN s
    PROVE  /\ RemoveAt(s, i) \in Seq(S) /\ Len(RemoveAt(s, i)) = Len(s) - 1
           /\ \A j \in 1 .. Len(s) - 1 : RemoveAt(s, i)[j] = IF j < i THEN s[j] ELSE s[j + 1]
<1> DEFINE l == SubSeq(s, 1, i - 1)
           r == SubSeq(s, i + 1, Len(s))
<1>1. Len(s) \in Nat /\ i \in 1 .. Len(s)
  OBVIOUS
<1>2. l \in Seq(S) /\ Len(l) = i - 1 /\ \A j \in 1 .. i - 1 : l[j] = s[j]
  BY <1>1
<1>3. r \in Seq(S) /\ Len(r) = Len(s) - i /\ \A j \in 1 .. Len(s) - i : r[j] = s[i + j]
  BY <1>1
<1> HIDE DEF l, r
<1>4. l \o r \in Seq(S) /\ Len(l \o r) = Len(s) - 1
  BY <1>1, <1>2, <1>3
<1>5. ASSUME NEW j \in 1 .. Len(s) - 1 PROVE (l \o r)[j] = IF j < i THEN s[j] ELSE s[j + 1]
  <2>1. CASE j < i
    BY <1>1, <1>2, <1>3, <2>1
  <2>2. CASE ~(j < i)
    <3>1. (l \o r)[j] = r[j - (i - 1)] /\ j - (i - 1) \in 1 .. Len(s) - i
      BY <1>1, <1>2, <1>3, <2>2
    <3>2. i + (j - (i - 1)) = j + 1
      BY <1>1
    <3>3. QED
      BY <1>3, <3>1, <3>2, <2>2
  <2>3. QED
    BY <2>1, <2>2
<1>6. QED
  BY <1>4, <1>5 DEF RemoveAt, l, r

\* It takes one element away from a list that has none twice.
LEMMA RemoveAtTakesOne ==
    ASSUME NEW S, NEW s \in Seq(S), NEW i \in DOMAIN s,
           \A m, n \in DOMAIN s : s[m] = s[n] => m = n
    PROVE  /\ RemoveAt(s, i) \in Seq(S)
           /\ \A m, n \in DOMAIN RemoveAt(s, i) : RemoveAt(s, i)[m] = RemoveAt(s, i)[n] => m = n
           /\ ToSet(RemoveAt(s, i)) = ToSet(s) \ {s[i]}
<1> DEFINE t == RemoveAt(s, i)
<1>1. /\ t \in Seq(S) /\ Len(t) = Len(s) - 1
      /\ \A j \in 1 .. Len(s) - 1 : t[j] = IF j < i THEN s[j] ELSE s[j + 1]
  BY RemoveAtCloses
<1>2. Len(s) \in Nat /\ i \in 1 .. Len(s) /\ DOMAIN s = 1 .. Len(s) /\ DOMAIN t = 1 .. Len(s) - 1
  BY <1>1
<1> HIDE DEF t
<1>3. \A m, n \in DOMAIN t : t[m] = t[n] => m = n
  <2> SUFFICES ASSUME NEW m \in DOMAIN t, NEW n \in DOMAIN t, t[m] = t[n] PROVE m = n
    OBVIOUS
  <2> DEFINE From(j) == IF j < i THEN j ELSE j + 1
  <2>1. t[m] = s[From(m)] /\ t[n] = s[From(n)] /\ From(m) \in DOMAIN s /\ From(n) \in DOMAIN s
    BY <1>1, <1>2
  <2>2. From(m) = From(n)
    BY <2>1
  <2>3. QED
    BY <2>2, <1>2
<1>4. ASSUME NEW x \in ToSet(t) PROVE x \in ToSet(s) \ {s[i]}
  <2>1. PICK j \in DOMAIN t : x = t[j]
    BY DEF ToSet
  <2>2. CASE j < i
    BY <2>1, <2>2, <1>1, <1>2 DEF ToSet
  <2>3. CASE ~(j < i)
    BY <2>1, <2>3, <1>1, <1>2 DEF ToSet
  <2>4. QED
    BY <2>2, <2>3
<1>5. ASSUME NEW x \in ToSet(s) \ {s[i]} PROVE x \in ToSet(t)
  <2>1. PICK j \in DOMAIN s : x = s[j] /\ j # i
    BY DEF ToSet
  <2>2. CASE j < i
    <3>1. j \in DOMAIN t /\ t[j] = x
      BY <2>1, <2>2, <1>1, <1>2
    <3>2. QED
      BY <3>1 DEF ToSet
  <2>3. CASE j > i
    <3>1. j - 1 \in DOMAIN t /\ t[j - 1] = x
      BY <2>1, <2>3, <1>1, <1>2
    <3>2. QED
      BY <3>1 DEF ToSet
  <2>4. QED
    BY <2>1, <2>2, <2>3, <1>2
<1>6. QED
  BY <1>1, <1>3, <1>4, <1>5 DEF t

\* With no UUID given twice a client is found by its own, and taken off the list.
LEMMA FoundById ==
    ASSUME ListOK, UuidsOK, ~clash, NEW k \in Listed
    PROVE  LET i == jack_client_internal_by_id(list, UuidOf(k))
           IN  i \in DOMAIN list /\ i # 0 /\ list[i] = k
<1>1. PICK i \in DOMAIN list : list[i] = k
  BY DEF Listed, ToSet
<1>2. \A j \in DOMAIN list : UuidOf(list[j]) = UuidOf(k) => j = i
  <2> SUFFICES ASSUME NEW j \in DOMAIN list, UuidOf(list[j]) = UuidOf(k) PROVE j = i
    OBVIOUS
  <2>1. list[j] \in Listed
    BY DEF Listed, ToSet
  <2>2. list[j] = k
    BY <2>1 DEF UuidsOK
  <2>3. QED
    BY <2>2, <1>1 DEF ListOK
<1>3. {j \in DOMAIN list : UuidOf(list[j]) = UuidOf(k)} = {i}
  BY <1>1, <1>2
<1>4. i \in Nat \ {0}
  BY DEF ListOK
<1>5. QED
  BY <1>1, <1>3, <1>4 DEF jack_client_internal_by_id

LEMMA UnlistedTakesOne ==
    ASSUME ListOK, UuidsOK, ~clash, NEW k \in Listed, list' = Unlisted(list, k)
    PROVE  ListOK' /\ Listed' = Listed \ {k}
<1> DEFINE i == jack_client_internal_by_id(list, UuidOf(k))
<1>1. i \in DOMAIN list /\ i # 0 /\ list[i] = k
  BY FoundById
<1>2. list' = RemoveAt(list, i)
  BY <1>1 DEF Unlisted
<1> HIDE DEF i
<1>3. /\ list' \in Seq(Keys)
      /\ \A m, n \in DOMAIN list' : list'[m] = list'[n] => m = n
      /\ ToSet(list') = ToSet(list) \ {k}
  BY <1>1, <1>2, RemoveAtTakesOne DEF ListOK
<1>4. QED
  BY <1>3 DEF ListOK, Listed

\* Whoever leaves the list frees its name and its UUID.
LEMMA RemovalKeeps ==
    ASSUME ClientsIInv, ~clash, NEW k \in Listed, list' = Unlisted(list, k),
           rec[k].internal \/ rec[k].broken, UNCHANGED <<rec, reserved, proc, clash>>
    PROVE  ClientsIInv'
<1>1. ListOK' /\ Listed' = Listed \ {k}
  BY UnlistedTakesOne DEF ClientsIInv
<1>2. StructuresOK'
  BY DEF ClientsIInv, StructuresOK
<1>3. NamesOK'
  BY <1>1 DEF ClientsIInv, NamesOK, NamesAreUnique, jack_client_name_reserved
<1>4. UuidsOK'
  BY <1>1 DEF ClientsIInv, UuidsOK, UuidOf
<1>5. HomesOK'
  BY <1>1 DEF ClientsIInv, HomesOK, Here
<1>6. QED
  BY <1>1, <1>2, <1>3, <1>4, <1>5 DEF ClientsIInv

\* A usable name is a name, and nobody has it.
LEMMA UsableNamesAreFree ==
    ASSUME NEW n \in ClientNames, NEW exact, NEW names, NEW m \in UsableNames(n, exact, names)
    PROVE  m \in ClientNames /\ ~NameTaken(m, names)
<1> DEFINE free == {i \in 1 .. MaxExtra : ~NameTaken([n EXCEPT !.ext = i], names)}
           least == CHOOSE i \in free : \A j \in free : i <= j
<1>1. CASE m = n /\ ~NameTaken(n, names)
  BY <1>1
<1>2. CASE free # {} /\ m = [n EXCEPT !.ext = least]
  <2>1. free \in SUBSET Nat
    BY ClientsAssumption
  <2>2. \E i \in free : \A j \in free : i <= j
    <3> HIDE DEF free
    <3>1. QED
      BY <2>1, <1>2, LeastExists
  <2>3. least \in free
    BY <2>2
  <2>4. m \in ClientNames
    <3>1. least \in 0 .. MaxExtra
      BY <2>3, ClientsAssumption
    <3> HIDE DEF least
    <3>2. QED
      BY <1>2, <3>1 DEF ClientNames
  <2>5. QED
    BY <1>2, <2>3, <2>4
<1>3. QED
  BY <1>1, <1>2 DEF UsableNames

\* What is taken off the reservations is one of them.
LEMMA TakenIsReserved ==
    ASSUME StructuresOK, NEW u
    PROVE  Taken(u) = 0 \/ (Taken(u) # 0 /\ Taken(u) \in DOMAIN reserved)
<1>1. NotFor(u) \in SUBSET Nat /\ NotFor(u) \subseteq DOMAIN reserved \ {0}
  BY DEF NotFor, StructuresOK
<1>2. CASE NotFor(u) # {}
  <2>1. \E i \in NotFor(u) : \A j \in NotFor(u) : i <= j
    BY <1>1, <1>2, LeastExists
  <2>2. QED
    BY <1>1, <2>1 DEF Taken
<1>3. QED
  BY <1>2 DEF Taken

LEMMA PromisedIsName ==
    ASSUME StructuresOK, NEW u
    PROVE  Promised(u) \in ClientNames \cup {NoName}
<1> DEFINE own == {i \in DOMAIN reserved : reserved[i].uuid = u}
<1>1. own \in SUBSET Nat /\ own \subseteq DOMAIN reserved
  BY DEF StructuresOK
<1>2. CASE own # {}
  <2> DEFINE least == CHOOSE i \in own : \A j \in own : i <= j
  <2>1. \E i \in own : \A j \in own : i <= j
    <3> HIDE DEF own
    <3>1. QED
      BY <1>1, <1>2, LeastExists
  <2>2. least \in own
    BY <2>1
  <2>3. reserved[least].name \in ClientNames
    <3>1. least \in DOMAIN reserved
      BY <2>2
    <3> HIDE DEF least
    <3>2. reserved[least] \in ReservedType
      BY <3>1 DEF StructuresOK
    <3>3. QED
      BY <3>2 DEF ReservedType
  <2>4. QED
    BY <2>3 DEF Promised
<1>3. QED
  BY <1>2 DEF Promised

\* A new client with a free name and its own, or a new, UUID.
LEMMA SetUpKeeps ==
    ASSUME ListOK, UuidsOK, NEW k \in Keys \ Listed, NEW n \in ClientNames,
           NEW u \in Uuids \cup {NoUuid}, NEW internal \in BOOLEAN, ~clash, StructuresOK,
           SetUp(k, n, u, internal)
    PROVE  /\ ListOK' /\ UuidsOK' /\ rec' \in [Keys -> RecType] /\ clash' \in BOOLEAN
           /\ Listed' = Listed \cup {k}
           /\ rec'[k].name = n /\ rec'[k].internal = internal
           /\ rec'[k].event = NoProc /\ ~rec'[k].broken
           /\ \A j \in Keys \ {k} : rec'[j] = rec[j]
<1>1. list' \in Seq(Keys) /\ Len(list') = Len(list) + 1
      /\ \A i \in 1 .. Len(list) + 1 : list'[i] = IF i = 1 THEN k ELSE list[i - 1]
  BY DEF SetUp, ListOK
<1>2. Listed' = Listed \cup {k}
  <2>1. DOMAIN list = 1 .. Len(list) /\ DOMAIN list' = 1 .. Len(list) + 1 /\ Len(list) \in Nat
    BY <1>1 DEF ListOK
  <2>2. ASSUME NEW x \in Listed' PROVE x \in Listed \cup {k}
    <3>1. PICK i \in 1 .. Len(list) + 1 : x = list'[i]
      BY <2>1 DEF Listed, ToSet
    <3>2. i = 1 \/ i - 1 \in DOMAIN list
      BY <2>1
    <3>3. QED
      BY <3>1, <3>2, <1>1 DEF Listed, ToSet
  <2>3. ASSUME NEW x \in Listed \cup {k} PROVE x \in Listed'
    <3>1. CASE x = k
      BY <3>1, <1>1, <2>1 DEF Listed, ToSet
    <3>2. CASE x \in Listed
      <4>1. PICK i \in DOMAIN list : x = list[i]
        BY <3>2 DEF Listed, ToSet
      <4>2. i + 1 \in DOMAIN list' /\ list'[i + 1] = x
        BY <4>1, <2>1, <1>1
      <4>3. QED
        BY <4>2 DEF Listed, ToSet
    <3>3. QED
      BY <3>1, <3>2
  <2>4. QED
    BY <2>2, <2>3
<1>3. ListOK'
  <2> SUFFICES ASSUME NEW i \in DOMAIN list', NEW j \in DOMAIN list', list'[i] = list'[j] PROVE i = j
    BY <1>1 DEF ListOK
  <2>1. DOMAIN list = 1 .. Len(list) /\ DOMAIN list' = 1 .. Len(list) + 1 /\ Len(list) \in Nat
    BY <1>1 DEF ListOK
  <2>2. \A m \in DOMAIN list : list[m] # k
    BY DEF Listed, ToSet
  <2>3. i = 1 \/ i - 1 \in DOMAIN list
    BY <2>1
  <2>4. j = 1 \/ j - 1 \in DOMAIN list
    BY <2>1
  <2>5. CASE i # 1 /\ j # 1
    <3>1. list[i - 1] = list[j - 1]
      BY <1>1, <2>1, <2>5
    <3>2. i - 1 = j - 1
      BY <3>1, <2>3, <2>4, <2>5 DEF ListOK
    <3>3. QED
      BY <3>2, <2>1
  <2>6. QED
    BY <1>1, <2>1, <2>2, <2>3, <2>4, <2>5
<1> DEFINE uu == IF u = NoUuid THEN OwnUuid(k) ELSE u
<1>4. /\ uu \in Uuids \cup Keys /\ uu \in Uuids \cup {OwnUuid(k)} /\ NoUuid \notin Uuids \cup Keys
      /\ Uuids \cap Keys = {}
  BY ClientsAssumption DEF NoUuid, OwnUuid
<1>5. /\ rec' \in [Keys -> RecType]
      /\ rec'[k] = [name |-> n, uuid |-> uu, internal |-> internal, event |-> NoProc,
                    broken |-> FALSE, dead |-> FALSE]
      /\ \A j \in Keys \ {k} : rec'[j] = rec[j]
  BY <1>4 DEF SetUp, StructuresOK, RecType
<1>6. clash' \in BOOLEAN
  BY DEF SetUp, StructuresOK
<1> HIDE DEF uu
<1>7. Listed \subseteq Keys
  BY DEF ListOK, Listed, ToSet
<1>8. \A j \in Listed' : rec'[j].uuid \in Uuids \cup {OwnUuid(j)}
  BY <1>2, <1>4, <1>5, <1>7 DEF UuidsOK
<1>9. ASSUME ~clash', NEW i \in Listed', NEW j \in Listed', rec'[i].uuid = rec'[j].uuid PROVE i = j
  <2>1. ASSUME NEW m \in Listed PROVE rec[m].uuid # uu
    <3>1. CASE u = NoUuid
      BY <3>1, <2>1, <1>4, <1>7 DEF uu, OwnUuid, UuidsOK
    <3>2. CASE u # NoUuid
      BY <3>2, <2>1, <1>9 DEF uu, SetUp, UuidOf
    <3>3. QED
      BY <3>1, <3>2
  <2>2. QED
    BY <2>1, <1>2, <1>5, <1>7, <1>9 DEF UuidsOK, UuidOf
<1>10. UuidsOK'
  BY <1>8, <1>9 DEF UuidsOK, UuidOf
<1>11. QED
  BY <1>2, <1>3, <1>5, <1>6, <1>10
\* A name that is free stays unique when its client is listed.
LEMMA NewNameKeeps ==
    ASSUME ListOK, NamesOK, NEW k \in Keys \ Listed, Listed' = Listed \cup {k},
           \A j \in Keys \ {k} : rec'[j] = rec[j],
           rec'[k].name \in ClientNames, ~NameTaken(rec'[k].name, reserved'),
           \A n : jack_client_name_reserved(n, reserved') => jack_client_name_reserved(n, reserved)
    PROVE  NamesOK'
<1>1. Listed \subseteq Keys
  BY DEF ListOK, Listed, ToSet
<1>2. \A j \in Listed : rec'[j] = rec[j] /\ rec[j].name # rec'[k].name
  BY <1>1 DEF NameTaken, jack_client_by_name
<1>3. \A j \in Listed' : rec'[j].name \in ClientNames
  BY <1>1 DEF NamesOK
<1>4. \A i, j \in Listed' : rec'[i].name = rec'[j].name => i = j
  BY <1>2 DEF NamesOK, NamesAreUnique
<1>5. \A j \in Listed' : ~jack_client_name_reserved(rec'[j].name, reserved')
  BY <1>2 DEF NamesOK, NamesAreUnique, NameTaken
<1>6. QED
  BY <1>3, <1>4, <1>5 DEF NamesOK, NamesAreUnique

LEMMA LoadsKeeps ==
    ASSUME ClientsIInv, ~clash, NEW k \in Keys, NEW n \in ClientNames, NEW ok \in BOOLEAN,
           Loads(k, n, ok)
    PROVE  ClientsIInv'
<1> USE DEF ClientsIInv
<1>1. k \notin Listed /\ reserved' = reserved /\ proc' = proc
  BY DEF Loads, Malloc
<1>2. CASE ~ok
  BY <1>1, <1>2 DEF Loads, ListOK, StructuresOK, NamesOK, NamesAreUnique, UuidsOK, UuidOf,
     HomesOK,
                    Here, Listed, jack_client_name_reserved
<1>3. CASE ok
  <2>1. SetUp(k, n, NoUuid, TRUE)
    BY <1>3 DEF Loads
  <2>2. /\ ListOK' /\ UuidsOK' /\ rec' \in [Keys -> RecType] /\ clash' \in BOOLEAN
        /\ Listed' = Listed \cup {k} /\ rec'[k].name = n /\ rec'[k].event = NoProc
        /\ \A j \in Keys \ {k} : rec'[j] = rec[j]
    BY <2>1, <1>1, SetUpKeeps
  <2>3. StructuresOK'
    BY <2>2, <1>1 DEF StructuresOK
  <2>4. ~NameTaken(n, reserved)
    BY DEF Loads, UsableNames
  <2>5. NamesOK'
    BY <2>2, <2>4, <1>1, NewNameKeeps
  <2>6. Listed \subseteq Keys /\ NoProc \notin Procs
    BY ClientsAssumption DEF ListOK, Listed, ToSet
  <2>7. HomesOK'
    BY <2>2, <2>6, <1>1 DEF HomesOK, Here
  <2>8. QED
    BY <2>2, <2>3, <2>5, <2>7
<1>4. QED
  BY <1>2, <1>3

LEMMA CreatesKeeps ==
    ASSUME ClientsIInv, ~clash, NEW a \in Procs, NEW k \in Keys, NEW n \in ClientNames,
           NEW u \in Uuids \cup {NoUuid}, NEW exact \in BOOLEAN, Creates(a, k, n, u, exact)
    PROVE  ClientsIInv'
<1> USE DEF ClientsIInv
<1> DEFINE t == Taken(u)
           asked == IF t = 0 THEN n ELSE reserved[t].name
<1>1. k \notin Listed /\ proc[a].stage = "out"
      /\ reserved' = IF t = 0 THEN reserved ELSE RemoveAt(reserved, t)
  BY DEF Creates, Malloc
<1>2. t = 0 \/ (t # 0 /\ t \in DOMAIN reserved)
  BY TakenIsReserved
<1>3. asked \in ClientNames
  <2> HIDE DEF t
  <2>1. t # 0 => reserved[t] \in ReservedType
    BY <1>2 DEF StructuresOK
  <2>2. QED
    BY <2>1 DEF ReservedType
<1>4. /\ reserved' \in Seq(ReservedType)
      /\ \A i \in DOMAIN reserved' : \E j \in DOMAIN reserved : reserved'[i] = reserved[j]
  <2> HIDE DEF t
  <2>1. CASE t = 0
    BY <2>1, <1>1 DEF StructuresOK
  <2>2. CASE t # 0
    <3>1. t \in DOMAIN reserved /\ reserved' = RemoveAt(reserved, t) /\ reserved \in Seq(ReservedType)
      BY <2>2, <1>1, <1>2 DEF StructuresOK
    <3>2. /\ reserved' \in Seq(ReservedType) /\ Len(reserved') = Len(reserved) - 1
          /\ \A j \in 1 .. Len(reserved) - 1 :
                 reserved'[j] = IF j < t THEN reserved[j] ELSE reserved[j + 1]
      BY <3>1, RemoveAtCloses
    <3>3. DOMAIN reserved = 1 .. Len(reserved) /\ DOMAIN reserved' = 1 .. Len(reserved) - 1 /\ t \in Nat
          /\ Len(reserved) \in Nat
      BY <3>1, <3>2
    <3>4. ASSUME NEW i \in DOMAIN reserved' PROVE \E j \in DOMAIN reserved : reserved'[i] = reserved[j]
      <4>1. i \in DOMAIN reserved /\ i + 1 \in DOMAIN reserved
        BY <3>3
      <4>2. QED
        BY <4>1, <3>2, <3>3
    <3>5. QED
      BY <3>2, <3>4
  <2>3. QED
    BY <2>1, <2>2
<1>5. \A m : jack_client_name_reserved(m, reserved') => jack_client_name_reserved(m, reserved)
  BY <1>4 DEF jack_client_name_reserved
<1> HIDE DEF t, asked
<1>6. CASE UNCHANGED <<list, rec, proc, clash>>
  <2>1. ListOK' /\ StructuresOK' /\ UuidsOK' /\ Listed' = Listed
    BY <1>4, <1>6 DEF ListOK, StructuresOK, UuidsOK, UuidOf, Listed
  <2>2. NamesOK'
    BY <2>1, <1>5, <1>6 DEF NamesOK, NamesAreUnique
  <2>3. HomesOK'
    BY <2>1, <1>6 DEF HomesOK, Here
  <2>4. QED
    BY <2>1, <2>2, <2>3
<1>7. ASSUME NEW m \in UsableNames(asked, exact, reserved'), SetUp(k, m, u, FALSE),
             proc' = [proc EXCEPT ![a] = [stage |-> "named", key |-> k, promised |-> Promised(u)]]
      PROVE  ClientsIInv'
  <2>1. m \in ClientNames /\ ~NameTaken(m, reserved')
    BY <1>3, UsableNamesAreFree
  <2>2. /\ ListOK' /\ UuidsOK' /\ rec' \in [Keys -> RecType] /\ clash' \in BOOLEAN
        /\ Listed' = Listed \cup {k} /\ rec'[k].name = m /\ rec'[k].internal = FALSE
        /\ rec'[k].event = NoProc /\ ~rec'[k].broken
        /\ \A j \in Keys \ {k} : rec'[j] = rec[j]
    BY <2>1, <1>1, <1>7, SetUpKeeps
  <2>3. Promised(u) \in ClientNames \cup {NoName}
    BY PromisedIsName
  <2>4. proc' \in [Procs -> ProcType]
    BY <2>3, <1>7 DEF StructuresOK, ProcType
  <2>5. StructuresOK'
    BY <2>2, <2>4, <1>4 DEF StructuresOK
  <2>6. NamesOK'
    BY <2>1, <2>2, <1>1, <1>5, NewNameKeeps
  <2>7. Listed \subseteq Keys /\ NoProc \notin Procs
    BY ClientsAssumption DEF ListOK, Listed, ToSet
  <2>8. /\ proc'[a].stage = "named" /\ proc'[a].key = k
        /\ \A c \in Procs \ {a} : proc'[c] = proc[c]
    BY <1>7 DEF StructuresOK
  <2>9. HomesOK'
    BY <2>2, <2>7, <2>8, <1>1 DEF HomesOK, Here
  <2>10. QED
    BY <2>2, <2>5, <2>6, <2>9
<1>8. QED
  BY <1>6, <1>7 DEF Creates, t, asked

\* Neither names nor UUIDs of the listed clients change.
LEMMA SameListKeeps ==
    ASSUME ListOK, NamesOK, UuidsOK, UNCHANGED <<list, reserved, clash>>,
           \A k \in Listed : rec'[k].name = rec[k].name /\ rec'[k].uuid = rec[k].uuid
    PROVE  ListOK' /\ NamesOK' /\ UuidsOK' /\ Listed' = Listed
<1>1. Listed' = Listed
  BY DEF Listed
<1>2. QED
  BY <1>1 DEF ListOK, NamesOK, NamesAreUnique, UuidsOK, UuidOf, jack_client_name_reserved

LEMMA ConnectsKeeps ==
    ASSUME ClientsIInv, ~clash, NEW a \in Procs, Connects(a)
    PROVE  ClientsIInv'
<1> USE DEF ClientsIInv
<1> DEFINE k == proc[a].key
<1>1. proc[a].stage = "named" /\ k \in Listed /\ Listed \subseteq Keys /\ ~rec[k].internal /\ ~rec[k].broken
  BY DEF Connects, HomesOK, Here, ListOK, Listed, ToSet
<1>2. rec' = [rec EXCEPT ![k].event = a] /\ UNCHANGED <<list, reserved, clash>>
  BY <1>1, FoundById DEF Connects, Acknowledged
<1>3. proc' = [proc EXCEPT ![a].stage = "open"]
  BY DEF Connects
<1>4. /\ rec'[k] = [rec[k] EXCEPT !.event = a] /\ \A j \in Keys \ {k} : rec'[j] = rec[j]
      /\ rec' \in [Keys -> RecType]
  BY <1>1, <1>2 DEF StructuresOK, RecType
<1>5. /\ proc'[a] = [proc[a] EXCEPT !.stage = "open"] /\ \A c \in Procs \ {a} : proc'[c] = proc[c]
      /\ proc' \in [Procs -> ProcType]
  BY <1>3 DEF StructuresOK, ProcType
<1>6. rec[k] \in RecType /\ proc[a] \in ProcType
  BY <1>1 DEF StructuresOK
<1>7. \A j \in Keys : /\ rec'[j].name = rec[j].name /\ rec'[j].uuid = rec[j].uuid
                      /\ rec'[j].internal = rec[j].internal /\ rec'[j].broken = rec[j].broken
                      /\ rec'[j].event = IF j = k THEN a ELSE rec[j].event
  BY <1>4, <1>6 DEF RecType
<1>8. \A c \in Procs : /\ proc'[c].key = proc[c].key
                       /\ proc'[c].stage = IF c = a THEN "open" ELSE proc[c].stage
  BY <1>5, <1>6 DEF ProcType
<1> HIDE DEF k
<1>9. ListOK' /\ NamesOK' /\ UuidsOK' /\ Listed' = Listed
  BY <1>1, <1>2, <1>7, SameListKeeps
<1>10. StructuresOK'
  BY <1>2, <1>4, <1>5 DEF StructuresOK
<1>11. HomesOK'
  BY <1>1, <1>7, <1>8, <1>9 DEF HomesOK, Here, k
<1>12. QED
  BY <1>2, <1>9, <1>10, <1>11
LEMMA LeavesKeeps ==
    ASSUME ClientsIInv, ~clash, NEW a \in Procs, Leaves(a)
    PROVE  ClientsIInv'
<1> USE DEF ClientsIInv
<1> DEFINE k == proc[a].key
<1>1. Here(a) /\ k \in Listed /\ Listed \subseteq Keys
  BY DEF Leaves, HomesOK, Here, ListOK, Listed, ToSet
<1>2. /\ rec' = [rec EXCEPT ![k].broken = TRUE] /\ UNCHANGED <<list, reserved, clash>>
      /\ proc' = [proc EXCEPT ![a] = Out]
  BY DEF Leaves
<1>3. /\ rec' \in [Keys -> RecType]
      /\ \A j \in Keys : /\ rec'[j].name = rec[j].name /\ rec'[j].uuid = rec[j].uuid
                         /\ (rec'[j].internal <=> rec[j].internal) /\ rec'[j].event = rec[j].event
                         /\ (rec'[j].broken <=> (j = k \/ rec[j].broken))
  <2>1. /\ rec'[k] = [rec[k] EXCEPT !.broken = TRUE] /\ \A j \in Keys \ {k} : rec'[j] = rec[j]
        /\ rec' \in [Keys -> RecType]
    BY <1>1, <1>2 DEF StructuresOK, RecType
  <2>2. rec[k] \in RecType
    BY <1>1 DEF StructuresOK
  <2>3. QED
    BY <2>1, <2>2 DEF RecType
<1>4. proc' \in [Procs -> ProcType]
  BY <1>2 DEF StructuresOK, ProcType, Out
<1>5. proc'[a].stage = "out" /\ \A c \in Procs \ {a} : proc'[c] = proc[c]
  BY <1>2 DEF StructuresOK, Out
<1> HIDE DEF k
<1>6. ListOK' /\ NamesOK' /\ UuidsOK' /\ Listed' = Listed
  BY <1>1, <1>2, <1>3, SameListKeeps
<1>7. StructuresOK'
  BY <1>2, <1>3, <1>4 DEF StructuresOK
<1>8. HomesOK'
  <2>1. \A c \in Procs : Here(c)' => c # a /\ Here(c) /\ proc'[c] = proc[c] /\ proc[c].key # k
    BY <1>1, <1>5 DEF HomesOK, Here, k
  <2>2. \A c \in Procs : Here(c)' => /\ proc'[c].key \in Listed' /\ ~rec'[proc'[c].key].internal
                                      /\ ~rec'[proc'[c].key].broken
    BY <2>1, <1>1, <1>3, <1>6 DEF HomesOK
  <2>3. \A c, d \in Procs : Here(c)' /\ Here(d)' /\ proc'[c].key = proc'[d].key => c = d
    BY <2>1 DEF HomesOK
  <2>0. \A c \in Procs : Here(c) => proc[c].key \in Keys
    BY <1>1 DEF HomesOK
  <2>4. \A c \in Procs : proc'[c].stage = "open" => rec'[proc'[c].key].event = c
    BY <2>0, <2>1, <1>3 DEF HomesOK, Here
  <2>5. \A c \in Procs, j \in Listed' :
            rec'[j].event = c /\ ~rec'[j].broken => proc'[c].stage = "open" /\ proc'[c].key = j
    BY <1>1, <1>3, <1>5, <1>6 DEF HomesOK, Here, k
  <2>6. QED
    BY <2>2, <2>3, <2>4, <2>5 DEF HomesOK
<1>9. QED
  BY <1>6, <1>7, <1>8

LEMMA BecomesZombieKeeps ==
    ASSUME ClientsIInv, ~clash, NEW a \in Procs, BecomesZombie(a)
    PROVE  ClientsIInv'
<1> USE DEF ClientsIInv
<1> DEFINE k == proc[a].key
<1>1. k \in Keys /\ Listed \subseteq Keys
  BY DEF BecomesZombie, HomesOK, Here, ListOK, Listed, ToSet
<1>2. rec' = [rec EXCEPT ![k].dead = TRUE] /\ UNCHANGED <<list, reserved, clash, proc>>
  BY DEF BecomesZombie
<1>3. /\ rec' \in [Keys -> RecType]
      /\ \A j \in Keys : /\ rec'[j].name = rec[j].name /\ rec'[j].uuid = rec[j].uuid
                         /\ (rec'[j].internal <=> rec[j].internal) /\ rec'[j].event = rec[j].event
                         /\ (rec'[j].broken <=> rec[j].broken)
  <2>1. /\ rec'[k] = [rec[k] EXCEPT !.dead = TRUE] /\ \A j \in Keys \ {k} : rec'[j] = rec[j]
        /\ rec' \in [Keys -> RecType]
    BY <1>1, <1>2 DEF StructuresOK, RecType
  <2>2. rec[k] \in RecType
    BY <1>1 DEF StructuresOK
  <2>3. QED
    BY <2>1, <2>2 DEF RecType
<1> HIDE DEF k
<1>4. ListOK' /\ NamesOK' /\ UuidsOK' /\ Listed' = Listed
  BY <1>1, <1>2, <1>3, SameListKeeps
<1>5. StructuresOK'
  BY <1>2, <1>3 DEF StructuresOK
<1>6. Listed \subseteq Keys
  BY <1>1
<1>7. HomesOK'
  BY <1>2, <1>3, <1>4, <1>6 DEF HomesOK, Here
<1>8. QED
  BY <1>4, <1>5, <1>7

LEMMA ReservesKeeps ==
    ASSUME ClientsIInv, ~clash, NEW n \in ClientNames, NEW u \in Uuids, Reserves(n, u)
    PROVE  ClientsIInv'
<1> USE DEF ClientsIInv
<1>1. reserved' = Append(reserved, [name |-> n, uuid |-> u]) /\ UNCHANGED <<list, rec, proc, clash>>
      /\ ~jack_client_by_name(n)
  BY DEF Reserves, MayReserve
<1>2. ListOK' /\ UuidsOK' /\ HomesOK' /\ Listed' = Listed
  BY <1>1 DEF ListOK, UuidsOK, UuidOf, HomesOK, Here, Listed
<1>3. [name |-> n, uuid |-> u] \in ReservedType
  BY DEF ReservedType
<1>4. StructuresOK'
  BY <1>1, <1>3 DEF StructuresOK
<1>5. ASSUME NEW m, jack_client_name_reserved(m, reserved')
      PROVE  jack_client_name_reserved(m, reserved) \/ m = n
  <2>1. PICK i \in DOMAIN reserved' : reserved'[i].name = m
    BY <1>5 DEF jack_client_name_reserved
  <2>2. i = Len(reserved) + 1 \/ (i \in DOMAIN reserved /\ reserved'[i] = reserved[i])
    BY <1>1 DEF StructuresOK
  <2>3. i = Len(reserved) + 1 => reserved'[i] = [name |-> n, uuid |-> u]
    BY <1>1 DEF StructuresOK
  <2>4. QED
    BY <2>1, <2>2, <2>3 DEF jack_client_name_reserved
<1>6. \A k \in Listed : rec[k].name # n
  BY <1>1 DEF jack_client_by_name
<1>7. NamesOK'
  BY <1>1, <1>2, <1>5, <1>6 DEF NamesOK, NamesAreUnique
<1>8. QED
  BY <1>2, <1>4, <1>7

------------------------------------------------------------------------------
LEMMA ClientsInitial == ClientsInit => ClientsIInv
<1> SUFFICES ASSUME ClientsInit PROVE ClientsIInv
  OBVIOUS
<1>1. Listed = {} /\ ListOK
  BY DEF ClientsInit, Listed, ToSet, ListOK
<1>2. StructuresOK
  <2>1. rec \in [Keys -> RecType]
    BY DEF ClientsInit, RecType
  <2>2. proc \in [Procs -> ProcType]
    BY DEF ClientsInit, ProcType, Out
  <2>3. QED
    <3>1. reserved = <<>> /\ clash = FALSE
      BY DEF ClientsInit
    <3>2. reserved \in Seq(ReservedType)
      BY <3>1, EmptySeq
    <3>3. QED
      BY <2>1, <2>2, <3>1, <3>2 DEF StructuresOK
<1>3. NamesOK /\ UuidsOK /\ HomesOK
  BY <1>1 DEF ClientsInit, NamesOK, NamesAreUnique, UuidsOK, HomesOK, Here, Out
<1>4. QED
  BY <1>1, <1>2, <1>3 DEF ClientsIInv

LEMMA ClientsStep == ClientsIInv /\ [ClientsNext]_clientVars => ClientsIInv'
<1> SUFFICES ASSUME ClientsIInv, [ClientsNext]_clientVars PROVE ClientsIInv'
  OBVIOUS
<1>1. CASE UNCHANGED clientVars
  BY <1>1 DEF clientVars, ClientsIInv, ListOK, StructuresOK, NamesOK, NamesAreUnique,
     UuidsOK, UuidOf,
              HomesOK, Here, Listed, jack_client_name_reserved
<1>2. CASE ClientsNext
  <2>1. ~clash
    BY <1>2 DEF ClientsNext
  <2>2. \A b \in Bases : Plain(b) \in ClientNames
    BY ClientsAssumption DEF Plain, ClientNames
  <2>3. ASSUME NEW a \in Procs, NEW k \in Keys, NEW b \in Bases, NEW u \in Uuids \cup {NoUuid},
               NEW exact \in BOOLEAN, Creates(a, k, Plain(b), u, exact)
        PROVE  ClientsIInv'
    BY <2>1, <2>2, <2>3, CreatesKeeps
  <2>4. ASSUME NEW k \in Keys, NEW b \in Bases, NEW ok \in BOOLEAN, Loads(k, Plain(b), ok)
        PROVE  ClientsIInv'
    BY <2>1, <2>2, <2>4, LoadsKeeps
  <2>5. ASSUME NEW k \in Keys, UnloadsClient(k) \/ RemovesBroken(k) PROVE ClientsIInv'
    BY <2>1, <2>5, RemovalKeeps DEF UnloadsClient, RemovesBroken
  <2>6. ASSUME NEW b \in Bases, NEW u \in Uuids, Reserves(Plain(b), u) PROVE ClientsIInv'
    BY <2>1, <2>2, <2>6, ReservesKeeps
  <2>7. ASSUME NEW a \in Procs, Connects(a) \/ Leaves(a) \/ BecomesZombie(a) PROVE ClientsIInv'
    BY <2>1, <2>7, ConnectsKeeps, LeavesKeeps, BecomesZombieKeeps
  <2>8. QED
    BY <1>2, <2>3, <2>4, <2>5, <2>6, <2>7 DEF ClientsNext, ClientRequests
<1>3. QED
  BY <1>1, <1>2

LEMMA ClientsFollow == ClientsIInv => ClientsInv
<1> SUFFICES ASSUME ClientsIInv PROVE ClientsInv
  OBVIOUS
<1>1. ClientsTypeOK
  BY DEF ClientsTypeOK, ClientsIInv, ListOK, StructuresOK, RecType, ProcType, ReservedType,
     OwnUuid
<1>2. EventsGoHome
  BY DEF EventsGoHome, ClientsIInv, HomesOK, Here
<1>3. QED
  BY <1>1, <1>2 DEF ClientsInv, ClientsIInv, NamesOK

\* However clients come, are refused, loaded, become zombies and go: as long as no UUID was
\* given twice each process gets its own client's events, and no two clients have one name,
\* nor one a name that is reserved (clientengine.c, jack_client_create and jack_remove_client).
THEOREM ClientsKeepTheirNames == ClientsSpec => []ClientsInv
<1>1. ClientsSpec => []ClientsIInv
  BY ClientsInitial, ClientsStep, PTL DEF ClientsSpec
<1>2. QED
  BY <1>1, ClientsFollow, PTL

------------------------------------------------------------------------------
(***************************************************************************)
(* The session.  As long as no call overlaps another, the engine's count   *)
(* is that of the flags, the flags are those of the clients that owe an    *)
(* answer, and what a manager has not read is a list of clients that owe   *)
(* nothing, with the end of the call as its last entry or not at all.      *)
(***************************************************************************)
Once(q) == \A i, j \in DOMAIN q : q[i] = q[j] => i = j

SessionShape ==
    /\ session_reply_fd \in Managers \cup {NoFd} /\ session_pending_replies \in Int
    /\ session_reply_pending \subseteq Savers /\ owing \subseteq Savers /\ removed \subseteq Savers
    /\ calling \subseteq Managers
    /\ answers \in [Managers -> Seq(Savers \cup {Final})]
    /\ overlap \in BOOLEAN

CountsAgree ==
    /\ session_pending_replies = Cardinality(session_reply_pending)
    /\ owing = session_reply_pending
    /\ session_reply_fd = NoFd <=> session_reply_pending = {}

ListsOK ==
    /\ session_reply_fd # NoFd => session_reply_fd \in calling
    /\ \A m \in Managers :
           /\ Once(answers[m])
           /\ m \notin calling => answers[m] = <<>>
           /\ Final \in ToSet(answers[m]) => Last(answers[m]) = Final
           /\ m = session_reply_fd => ToSet(answers[m]) \cap (session_reply_pending \cup {Final}) = {}

SessionIInv == SessionShape /\ (~overlap => CountsAgree /\ ListsOK)

LEMMA SetIsListed ==
    ASSUME NEW S \in SUBSET Savers
    PROVE  SetToSeq(S) \in Seq(S) /\ Once(SetToSeq(S)) /\ ToSet(SetToSeq(S)) \subseteq S
<1> DEFINE n == Cardinality(S)
           q == SetToSeq(S)
<1>1. n \in Nat /\ ExistsBijection(1 .. n, S)
  BY FS_Subset, FS_CardinalityType, SessionAssumption
<1>2. \E f \in [1 .. n -> S] : IsInjective(f)
  BY <1>1 DEF ExistsBijection, Bijection, Injection
<1>3. q \in [1 .. n -> S] /\ IsInjective(q)
  BY <1>2 DEF SetToSeq
<1>4. q \in Seq(S)
  BY <1>1, <1>3
<1>5. Once(q)
  BY <1>3 DEF Once, IsInjective
<1>6. ToSet(q) \subseteq S
  BY <1>3 DEF ToSet
<1>7. QED
  BY <1>4, <1>5, <1>6

LEMMA ConcatAppend ==
    ASSUME NEW T, NEW q \in Seq(T), NEW w \in Seq(T), NEW x \in T
    PROVE  q \o Append(w, x) = Append(q \o w, x)
<1>1. Append(w, x) = w \o <<x>> /\ Append(q \o w, x) = (q \o w) \o <<x>> /\ <<x>> \in Seq(T)
  BY AppendIsConcat, ConcatProperties
<1>2. QED
  BY <1>1, ConcatAssociative

LEMMA AppendsOnce ==
    ASSUME NEW T, NEW q \in Seq(T), NEW x \in T, Once(q), x \notin ToSet(q)
    PROVE  /\ Append(q, x) \in Seq(T) /\ Once(Append(q, x))
           /\ ToSet(Append(q, x)) = ToSet(q) \cup {x} /\ Last(Append(q, x)) = x
<1> DEFINE r == Append(q, x)
<1>1. /\ r \in Seq(T) /\ Len(r) = Len(q) + 1 /\ r[Len(q) + 1] = x
      /\ DOMAIN q = 1 .. Len(q) /\ DOMAIN r = 1 .. Len(q) + 1 /\ Len(q) \in Nat
      /\ \A i \in 1 .. Len(q) : r[i] = q[i]
  OBVIOUS
<1> HIDE DEF r
<1>2. \A i \in DOMAIN q : q[i] # x
  BY DEF ToSet
<1>3. Once(r)
  <2> SUFFICES ASSUME NEW i \in 1 .. Len(q) + 1, NEW j \in 1 .. Len(q) + 1, r[i] = r[j] PROVE i = j
    BY <1>1 DEF Once
  <2>1. (i \in 1 .. Len(q) \/ i = Len(q) + 1) /\ (j \in 1 .. Len(q) \/ j = Len(q) + 1)
    BY <1>1
  <2>2. QED
    BY <2>1, <1>1, <1>2 DEF Once
<1>4. ToSet(r) \subseteq ToSet(q) \cup {x}
  <2> SUFFICES ASSUME NEW i \in 1 .. Len(q) + 1 PROVE r[i] \in ToSet(q) \cup {x}
    BY <1>1 DEF ToSet
  <2>1. i \in 1 .. Len(q) \/ i = Len(q) + 1
    BY <1>1
  <2>2. QED
    BY <2>1, <1>1 DEF ToSet
<1>5. ToSet(q) \cup {x} \subseteq ToSet(r)
  <2>1. \A i \in 1 .. Len(q) : i \in DOMAIN r
    BY <1>1
  <2>2. x \in ToSet(r)
    <3>1. Len(q) + 1 \in DOMAIN r
      BY <1>1
    <3>2. QED
      BY <3>1, <1>1 DEF ToSet
  <2>3. QED
    BY <2>1, <2>2, <1>1 DEF ToSet
<1>6. Last(r) = x
  BY <1>1 DEF Last
<1>7. QED
  BY <1>1, <1>3, <1>4, <1>5, <1>6 DEF r

\* What holds of a manager's unread answers is kept when only they change.
LEMMA OneListKeeps ==
    ASSUME SessionShape, ListsOK, NEW m \in Managers, NEW q \in Seq(Savers \cup {Final}),
           answers' = [answers EXCEPT ![m] = q],
           Once(q), Final \in ToSet(q) => Last(q) = Final,
           m \notin calling' => q = <<>>,
           \A n \in Managers \ {m} : n \in calling => n \in calling',
           session_reply_fd' # NoFd => session_reply_fd' \in calling',
           m = session_reply_fd' => ToSet(q) \cap (session_reply_pending' \cup {Final}) = {},
           \A n \in Managers \ {m} :
               n = session_reply_fd' => n = session_reply_fd /\ session_reply_pending' \subseteq session_reply_pending
    PROVE  ListsOK' /\ answers' \in [Managers -> Seq(Savers \cup {Final})]
<1>1. /\ answers'[m] = q /\ \A n \in Managers \ {m} : answers'[n] = answers[n]
      /\ answers' \in [Managers -> Seq(Savers \cup {Final})]
  BY DEF SessionShape
<1>2. QED
  BY <1>1 DEF ListsOK

LEMMA NotifiesKeeps ==
    ASSUME SessionIInv, NEW m \in Managers, Notifies(m)
    PROVE  SessionIInv'
<1> USE DEF SessionIInv
<1>1. /\ m \notin calling /\ calling' = calling \cup {m} /\ removed' = removed
      /\ overlap' = (overlap \/ session_reply_fd # NoFd)
  BY DEF Notifies
<1>2. <<Final>> \in Seq(Savers \cup {Final}) /\ <<Final>> = Append(<<>>, Final)
      /\ Once(<<Final>>) /\ Last(<<Final>>) = Final /\ ToSet(<<Final>>) = {Final}
  BY DEF Once, Last, ToSet
<1>3. answers[m] \in Seq(Savers \cup {Final})
  BY DEF SessionShape
<1>4. ~overlap => answers[m] = <<>>
  BY <1>1 DEF ListsOK
<1>5. CASE SendsFinal(m)
  <2>1. answers' = [answers EXCEPT ![m] = answers[m] \o <<Final>>]
    BY <1>5 DEF SendsFinal, Written
  <2>2. answers[m] \o <<Final>> \in Seq(Savers \cup {Final})
    BY <1>2, <1>3
  <2>3. SessionShape'
    BY <2>1, <2>2, <1>1, <1>5 DEF SessionShape, SendsFinal
  <2>4. ASSUME ~overlap' PROVE CountsAgree' /\ ListsOK'
    <3>1. ~overlap /\ session_reply_fd = NoFd
      BY <2>4, <1>1
    <3>2. /\ session_reply_fd' = NoFd /\ session_pending_replies' = 0
          /\ session_reply_pending' = session_reply_pending /\ owing' = owing
      BY <1>5, <3>1 DEF SendsFinal
    <3>3. CountsAgree'
      BY <3>1, <3>2, FS_EmptySet DEF CountsAgree
    <3>4. answers' = [answers EXCEPT ![m] = <<Final>>]
      <4>1. <<>> \o <<Final>> = <<Final>>
        BY <1>2, ConcatEmptySeq
      <4>2. QED
        BY <4>1, <2>1, <1>4, <3>1
    <3>5. NoFd \notin Managers
      BY SessionAssumption
    <3>6. ListsOK'
      BY <3>1, <3>2, <3>4, <3>5, <1>1, <1>2, OneListKeeps
    <3>7. QED
      BY <3>3, <3>6
  <2>5. QED
    BY <2>3, <2>4
<1>6. ASSUME session_reply_fd = NoFd, NEW now \in SUBSET (Savers \ removed),
             NEW later \in SUBSET (Savers \ removed), now \cap later = {}, AsksSavers(m, now, later)
      PROVE  SessionIInv'
  <2> DEFINE q == IF later = {} THEN Append(SetToSeq(now), Final) ELSE SetToSeq(now)
  <2>1. SetToSeq(now) \in Seq(now) /\ Once(SetToSeq(now)) /\ ToSet(SetToSeq(now)) \subseteq now
    BY SetIsListed
  <2>2. Final \notin Savers /\ Final \notin now
    BY SessionAssumption
  <2>3. SetToSeq(now) \in Seq(Savers \cup {Final})
    BY <2>1, SeqMonotonic
  <2>4. q \in Seq(Savers \cup {Final}) /\ Once(q) /\ (Final \in ToSet(q) => Last(q) = Final)
        /\ (later # {} => ToSet(q) \cap (later \cup {Final}) = {})
    <3>1. CASE later = {}
      <4>1. q = Append(SetToSeq(now), Final)
        BY <3>1
      <4> HIDE DEF q
      <4>2. Final \notin ToSet(SetToSeq(now))
        BY <2>1, <2>2
      <4>3. QED
        BY <4>1, <4>2, <3>1, <2>1, <2>3, AppendsOnce
    <3>2. CASE later # {}
      <4>1. q = SetToSeq(now)
        BY <3>2
      <4> HIDE DEF q
      <4>2. QED
        BY <4>1, <2>1, <2>2, <2>3, <1>6
    <3>3. QED
      BY <3>1, <3>2
  <2>5. answers' = [answers EXCEPT ![m] = answers[m] \o q]
        /\ session_reply_fd' = (IF later = {} THEN NoFd ELSE m)
        /\ session_reply_pending' = session_reply_pending \cup later /\ owing' = owing \cup later
        /\ session_pending_replies' = Cardinality(later)
    BY <1>6 DEF AsksSavers, Written
  <2> HIDE DEF q
  <2>6. IsFiniteSet(later) /\ Cardinality(later) \in Nat
    BY FS_Subset, FS_CardinalityType, SessionAssumption
  <2>7. answers[m] \o q \in Seq(Savers \cup {Final})
    BY <1>3, <2>4
  <2>8. SessionShape'
    BY <2>5, <2>6, <2>7, <1>1 DEF SessionShape
  <2>9. ASSUME ~overlap' PROVE CountsAgree' /\ ListsOK'
    <3>1. ~overlap
      BY <2>9, <1>1
    <3>2. session_reply_pending = {} /\ owing = {}
      BY <3>1, <1>6 DEF CountsAgree
    <3>3. NoFd \notin Managers
      BY SessionAssumption
    <3>4. CountsAgree'
      BY <2>5, <3>2, <3>3 DEF CountsAgree
    <3>5. answers[m] \o q = q
      BY <1>4, <3>1, <2>4
    <3>6. answers' = [answers EXCEPT ![m] = q]
      BY <2>5, <3>5
    <3>7. ListsOK'
      BY <3>1, <3>2, <3>3, <3>6, <2>4, <2>5, <1>1, OneListKeeps
    <3>8. QED
      BY <3>4, <3>7
  <2>10. QED
    BY <2>8, <2>9
<1>7. QED
  BY <1>5, <1>6 DEF Notifies

\* One answer less, from a client that owed one.
LEMMA OneLessKeeps ==
    ASSUME SessionIInv, NEW s \in Savers, session_reply_fd # NoFd, NEW told \in BOOLEAN,
           OneLess(IF told THEN <<s>> ELSE <<>>), session_reply_pending' = session_reply_pending \ {s},
           owing' = owing \ {s}, s \in session_reply_pending \/ overlap,
           removed' \subseteq Savers, UNCHANGED <<calling, overlap>>
    PROVE  SessionIInv'
<1> USE DEF SessionIInv
<1> DEFINE m == session_reply_fd
           last == session_pending_replies = 1
           what == IF told THEN <<s>> ELSE <<>>
           more == IF last THEN Append(what, Final) ELSE what
<1>1. m \in Managers /\ answers[m] \in Seq(Savers \cup {Final})
  BY DEF SessionShape
<1>2. /\ session_pending_replies' = session_pending_replies - 1
      /\ answers' = [answers EXCEPT ![m] = answers[m] \o more]
      /\ session_reply_fd' = IF last THEN NoFd ELSE session_reply_fd
  BY DEF OneLess, Written
<1>3. what \in Seq(Savers \cup {Final}) /\ more \in Seq(Savers \cup {Final})
  <2>1. what \in Seq(Savers \cup {Final})
    <3>1. <<s>> \in Seq(Savers \cup {Final}) /\ <<>> \in Seq(Savers \cup {Final})
      OBVIOUS
    <3>2. QED
      BY <3>1
  <2> HIDE DEF what, last
  <2>2. Append(what, Final) \in Seq(Savers \cup {Final})
    BY <2>1, AppendProperties
  <2>3. QED
    BY <2>1, <2>2
<1>4. answers[m] \o more \in Seq(Savers \cup {Final})
  <2> HIDE DEF more
  <2>1. QED
    BY <1>1, <1>3
<1>5. SessionShape'
  <2> HIDE DEF more, last
  <2>1. session_reply_fd' \in Managers \cup {NoFd}
    BY <1>1, <1>2
  <2>2. QED
    BY <2>1, <1>2, <1>4 DEF SessionShape
<1>6. ASSUME ~overlap PROVE CountsAgree' /\ ListsOK'
  <2>1. s \in session_reply_pending /\ CountsAgree /\ ListsOK
    BY <1>6
  <2>2. IsFiniteSet(session_reply_pending)
    BY FS_Subset, SessionAssumption DEF SessionShape
  <2>3. Cardinality(session_reply_pending') = session_pending_replies - 1
        /\ IsFiniteSet(session_reply_pending')
    BY <2>1, <2>2, FS_RemoveElement DEF CountsAgree
  <2>4. last <=> session_reply_pending' = {}
    <3>1. Cardinality(session_reply_pending') = 0 <=> session_reply_pending' = {}
      BY <2>3, FS_EmptySet
    <3>2. session_pending_replies \in Int
      BY DEF SessionShape
    <3>3. QED
      BY <3>1, <3>2, <2>3
  <2>5. CountsAgree'
    <3> HIDE DEF last
    <3>1. (session_pending_replies = Cardinality(session_reply_pending))'
      BY <2>3, <1>2
    <3>2. (owing = session_reply_pending)'
      BY <2>1 DEF CountsAgree
    <3>3. (session_reply_fd = NoFd <=> session_reply_pending = {})'
      BY <2>4, <1>2
    <3>4. QED
      BY <3>1, <3>2, <3>3 DEF CountsAgree
  <2> DEFINE q == answers[m] \o what
             r == answers[m] \o more
  <2>6. Once(answers[m]) /\ ToSet(answers[m]) \cap (session_reply_pending \cup {Final}) = {}
    BY <1>1, <2>1 DEF ListsOK
  <2>7. s # Final
    BY SessionAssumption
  <2>8. q \in Seq(Savers \cup {Final}) /\ Once(q) /\ ToSet(q) \subseteq ToSet(answers[m]) \cup {s}
    <3>1. CASE told
      <4>1. q = Append(answers[m], s)
        BY <3>1, <1>1
      <4> HIDE DEF q
      <4>2. s \notin ToSet(answers[m])
        BY <2>1, <2>6
      <4>3. QED
        BY <4>1, <4>2, <1>1, <2>6, AppendsOnce
    <3>2. CASE ~told
      <4>1. q = answers[m]
        BY <3>2, <1>1
      <4> HIDE DEF q
      <4>2. QED
        BY <4>1, <1>1, <2>6
    <3>3. QED
      BY <3>1, <3>2
  <2>9. r = IF last THEN Append(q, Final) ELSE q
    <3> HIDE DEF what, last
    <3>1. answers[m] \o Append(what, Final) = Append(q, Final)
      <4> DEFINE T == Savers \cup {Final}
      <4>1. Final \in T /\ answers[m] \in Seq(T) /\ what \in Seq(T)
        BY <1>1, <1>3
      <4> HIDE DEF T
      <4>2. \A u, w \in Seq(T), x \in T : u \o Append(w, x) = Append(u \o w, x)
        BY ConcatAppend
      <4> HIDE DEF m
      <4>3. answers[m] \o Append(what, Final) = Append(answers[m] \o what, Final)
        BY <4>1, <4>2
      <4>4. QED
        BY <4>3
    <3>2. QED
      BY <3>1
  <2> HIDE DEF q, r, what, more
  <2>10. Final \notin ToSet(q) /\ ToSet(q) \cap session_reply_pending' = {}
    BY <2>6, <2>7, <2>8
  <2>11. r \in Seq(Savers \cup {Final}) /\ Once(r) /\ (Final \in ToSet(r) => Last(r) = Final)
         /\ (~last => ToSet(r) = ToSet(q))
    <3> HIDE DEF last
    <3>1. CASE last
      BY <3>1, <2>8, <2>9, <2>10, AppendsOnce
    <3>2. CASE ~last
      BY <3>2, <2>8, <2>9, <2>10
    <3>3. QED
      BY <3>1, <3>2
  <2>12. answers' = [answers EXCEPT ![m] = r]
    BY <1>2 DEF r
  <2>13. m \in calling /\ calling' = calling /\ NoFd \notin Managers
    BY <2>1, SessionAssumption DEF ListsOK
  <2>14. ListsOK'
    <3> HIDE DEF last
    <3>1. m = session_reply_fd' => ToSet(r) \cap (session_reply_pending' \cup {Final}) = {}
      BY <1>1, <1>2, <2>10, <2>11, <2>13
    <3>2. \A n \in Managers \ {m} : n # session_reply_fd'
      BY <1>2, <2>13
    <3>3. QED
      BY <3>1, <3>2, <1>1, <1>2, <2>1, <2>11, <2>12, <2>13, OneListKeeps
  <2>15. QED
    BY <2>5, <2>14
<1>7. QED
  BY <1>5, <1>6
LEMMA SessionRepliesKeeps ==
    ASSUME SessionIInv, NEW s \in Savers, SessionReplies(s)
    PROVE  SessionIInv'
<1>1. /\ s \in owing /\ owing' = owing \ {s} /\ session_reply_pending' = session_reply_pending \ {s}
      /\ UNCHANGED <<removed, calling, overlap>>
  BY DEF SessionReplies, Answered
<1>2. CASE session_reply_fd = NoFd
  <2>1. overlap
    BY <1>1, <1>2 DEF SessionIInv, CountsAgree
  <2>2. QED
    BY <2>1, <1>1, <1>2 DEF SessionIInv, SessionShape, SessionReplies, Spurious
<1>3. CASE session_reply_fd # NoFd
  <2>1. OneLess(<<s>>)
    BY <1>3 DEF SessionReplies
  <2>2. s \in session_reply_pending \/ overlap
    BY <1>1 DEF SessionIInv, CountsAgree
  <2>3. removed' \subseteq Savers
    BY <1>1 DEF SessionIInv, SessionShape
  <2>4. QED
    BY <1>1, <1>3, <2>1, <2>2, <2>3, OneLessKeeps
<1>4. QED
  BY <1>2, <1>3

LEMMA SaverIsRemovedKeeps ==
    ASSUME SessionIInv, NEW s \in Savers, SaverIsRemoved(s)
    PROVE  SessionIInv'
<1>1. /\ owing' = owing \ {s} /\ session_reply_pending' = session_reply_pending \ {s}
      /\ removed' \subseteq Savers /\ UNCHANGED <<calling, overlap>>
  BY DEF SaverIsRemoved, SessionIInv, SessionShape
<1>2. CASE s \notin session_reply_pending
  <2>1. Spurious
    BY <1>2 DEF SaverIsRemoved, Removal
  <2>2. session_reply_pending' = session_reply_pending /\ (~overlap => owing' = owing)
    BY <1>1, <1>2 DEF SessionIInv, CountsAgree
  <2>3. QED
    BY <1>1, <2>1, <2>2 DEF SessionIInv, SessionShape, CountsAgree, ListsOK, Spurious
<1>3. CASE s \in session_reply_pending /\ session_reply_fd # NoFd
  <2>1. OneLess(<<>>)
    BY <1>3 DEF SaverIsRemoved, Removal
  <2>2. QED
    BY <1>1, <1>3, <2>1, OneLessKeeps
<1>4. CASE s \in session_reply_pending /\ session_reply_fd = NoFd
  <2>1. overlap
    BY <1>4 DEF SessionIInv, CountsAgree
  <2>2. QED
    BY <2>1, <1>1, <1>4 DEF SessionIInv, SessionShape, SaverIsRemoved, Removal
<1>5. QED
  BY <1>2, <1>3, <1>4

LEMMA ReturnsKeeps ==
    ASSUME SessionIInv, NEW m \in Managers, Returns(m)
    PROVE  SessionIInv'
<1> USE DEF SessionIInv
<1>1. PICK i \in DOMAIN answers[m] : /\ answers[m][i] = Final
                                     /\ answers' = [answers EXCEPT ![m] = SubSeq(@, i + 1, Len(@))]
  BY DEF Returns
<1>2. /\ calling' = calling \ {m} /\ m \in calling
      /\ UNCHANGED <<session_reply_fd, session_pending_replies, session_reply_pending, owing,
                     removed, overlap>>
  BY DEF Returns
<1>3. answers[m] \in Seq(Savers \cup {Final}) /\ Len(answers[m]) \in Nat /\ i \in 1 .. Len(answers[m])
  BY DEF SessionShape
<1>4. SubSeq(answers[m], i + 1, Len(answers[m])) \in Seq(Savers \cup {Final})
  BY <1>3
<1>5. SessionShape'
  BY <1>1, <1>2, <1>4 DEF SessionShape
<1>6. ASSUME ~overlap PROVE CountsAgree' /\ ListsOK'
  <2>1. Final \in ToSet(answers[m])
    BY <1>1 DEF ToSet
  <2>2. m # session_reply_fd
    BY <1>6, <2>1 DEF ListsOK
  <2>3. answers[m][Len(answers[m])] = Final /\ Once(answers[m])
    BY <1>6, <2>1 DEF ListsOK, Last
  <2>4. i = Len(answers[m])
    BY <2>3, <1>1, <1>3 DEF Once
  <2>5. SubSeq(answers[m], i + 1, Len(answers[m])) = <<>>
    BY <2>4, <1>3
  <2>6. answers' = [answers EXCEPT ![m] = <<>>]
    BY <1>1, <2>5
  <2>7. CountsAgree'
    BY <1>2, <1>6 DEF CountsAgree
  <2>8. <<>> \in Seq(Savers \cup {Final}) /\ Once(<<>>) /\ ToSet(<<>>) = {}
    BY DEF Once, ToSet
  <2>9. ListsOK'
    <3>1. session_reply_fd' # NoFd => session_reply_fd' \in calling'
      BY <1>2, <1>6, <2>2 DEF ListsOK
    <3>2. QED
      BY <3>1, <1>2, <1>6, <2>2, <2>6, <2>8, OneListKeeps
  <2>10. QED
    BY <2>7, <2>9
<1>7. QED
  BY <1>2, <1>5, <1>6

LEMMA SessionInvariant == SessionSpec => []SessionIInv
<1>1. SessionInit => SessionIInv
  <2> SUFFICES ASSUME SessionInit PROVE SessionIInv
    OBVIOUS
  <2>1. <<>> \in Seq(Savers \cup {Final}) /\ Once(<<>>) /\ ToSet(<<>>) = {}
    BY DEF Once, ToSet
  <2>2. SessionShape
    <3>1. answers \in [Managers -> Seq(Savers \cup {Final})]
      BY <2>1 DEF SessionInit
    <3>2. session_reply_fd \in Managers \cup {NoFd} /\ session_pending_replies \in Int
      BY DEF SessionInit
    <3>3. session_reply_pending \subseteq Savers /\ owing \subseteq Savers /\ removed \subseteq Savers
          /\ calling \subseteq Managers
      BY DEF SessionInit
    <3>4. overlap \in BOOLEAN
      BY DEF SessionInit
    <3>5. QED
      BY <3>1, <3>2, <3>3, <3>4 DEF SessionShape
  <2>3. CountsAgree
    BY FS_EmptySet DEF SessionInit, CountsAgree
  <2>4. ListsOK
    BY <2>1 DEF SessionInit, ListsOK
  <2>5. QED
    BY <2>2, <2>3, <2>4 DEF SessionIInv
<1>2. SessionIInv /\ [SessionNext]_sessionVars => SessionIInv'
  <2> SUFFICES ASSUME SessionIInv, [SessionNext]_sessionVars PROVE SessionIInv'
    OBVIOUS
  <2>1. CASE UNCHANGED sessionVars
    BY <2>1 DEF sessionVars, SessionIInv, SessionShape, CountsAgree, ListsOK
  <2>2. CASE SessionNext
    BY <2>2, NotifiesKeeps, ReturnsKeeps, SessionRepliesKeeps, SaverIsRemovedKeeps DEF
       SessionNext
  <2>3. QED
    BY <2>1, <2>2
<1>3. QED
  BY <1>1, <1>2, PTL DEF SessionSpec

LEMMA SessionFollows == SessionIInv => SessionInv
<1> SUFFICES ASSUME SessionIInv PROVE SessionInv
  OBVIOUS
<1>1. SessionTypeOK
  BY DEF SessionIInv, SessionShape, SessionTypeOK
<1>2. RepliesAreCounted
  <2> SUFFICES ASSUME ~overlap PROVE /\ session_pending_replies = Cardinality(session_reply_pending)
                                     /\ session_reply_fd # NoFd => session_pending_replies > 0
    BY DEF RepliesAreCounted
  <2>1. CountsAgree /\ IsFiniteSet(session_reply_pending)
    BY FS_Subset, SessionAssumption DEF SessionIInv, SessionShape
  <2>2. Cardinality(session_reply_pending) \in Nat
        /\ (Cardinality(session_reply_pending) = 0 <=> session_reply_pending = {})
    BY <2>1, FS_EmptySet, FS_CardinalityType
  <2>3. QED
    BY <2>1, <2>2 DEF CountsAgree
<1>3. AnswersEndTheCall
  BY DEF SessionIInv, ListsOK, Once, AnswersEndTheCall
<1>4. QED
  BY <1>1, <1>2, <1>3 DEF SessionInv

\* However many managers and clients there are, and whoever answers late or leaves: as long
\* as no call overlaps another, the engine waits for as many replies as clients owe one, and
\* a manager is told of each client once and of nothing after the end of its call
\* (engine.c, jack_do_session_notify and jack_do_session_reply; jack_remove_client).
THEOREM SessionIsKept == SessionSpec => []SessionInv
<1>1. QED
  BY SessionInvariant, SessionFollows, PTL

------------------------------------------------------------------------------
(* The transport. TransportInv is not inductive: nothing rolls too early    *)
(* because the two counters of slow-sync clients are those of their flags,  *)
(* which every request, every answer and every cycle has to keep (Kept),    *)
(* and because a client that has answered and not yet said so is still      *)
(* polled (StoringIsPolled). Once a client's answer raced with the server,  *)
(* or a cycle was aborted, the counters may be wrong, and the invariant     *)
(* says what is left.                                                       *)

\* A polled client is counted as slow, and a slow one asked to be; zombies did not.
FlagsOK(cl) ==
    \A c \in Callers :
        /\ cl[c].sync_poll => cl[c].active_slowsync
        /\ cl[c].active_slowsync => cl[c].is_slowsync
        /\ cl[c].dead => ~cl[c].is_slowsync

SlowOf(cl) == {c \in Callers : cl[c].active_slowsync}
SlowCounted(s) == ~s.ctl.aborted => s.ctl.sync_clients = Cardinality(SlowOf(s.client))
PollsCounted(s) == ~s.ctl.aborted => s.ctl.sync_remain = Cardinality(Polled(s.client))

MasterKnown(s) ==
    \A c \in Callers :
        /\ s.client[c].is_timebase <=> s.ctl.master = c
        /\ s.ctl.master = c => ~s.client[c].dead

\* Whom the poll does not wait for has answered.
Heard(s, a) ==
    s.ctl.state # "Stopped" /\ ~s.ctl.aborted /\ ~a.old /\ ~a.raced =>
        \A c \in Callers :
            s.client[c].active_slowsync => s.client[c].sync_poll \/ c \in a.ready

\* Nobody is waited for when it rolls.
NobodyPolled(s, a) ==
    s.ctl.state = "Rolling" /\ ~s.ctl.aborted /\ ~a.timed_out /\ ~a.raced =>
        \A c \in Callers : ~s.client[c].sync_poll

Synced(s) ==
    s.ctl.new_pos /\ s.ctl.state = "Rolling" /\ ~s.ctl.aborted =>
        \A c \in Callers : ~s.client[c].active_slowsync

Following(x) ==
    ~x.pending_pos => x.pending \in {x.current, (x.current + 1) % FrameCount}

StoringIsPolled ==
    ~answer.raced => \A c \in Callers : thread[c] = "storing" => client[c].sync_poll

\* What holds of the two structures, with the answers a to the polls.
Kept(s, a) ==
    /\ s.ctl \in Control /\ s.client \in [Callers -> ClientControl]
    /\ FlagsOK(s.client)
    /\ SlowCounted(s)
    /\ ~a.raced => PollsCounted(s)
    /\ MasterKnown(s)
    /\ Heard(s, a)
    /\ NobodyPolled(s, a)
    /\ Synced(s)
    /\ Following(s.ctl)

TransportIInv ==
    /\ TransportTypeOK
    /\ Kept(Now, answer)
    /\ StoringIsPolled

------------------------------------------------------------------------------
(* The two counters.                                                         *)

LEMMA SomeCallersAreFinite ==
    ASSUME NEW S \in SUBSET Callers
    PROVE  IsFiniteSet(S) /\ Cardinality(S) \in Nat
BY TransportAssumption, FS_Subset, FS_CardinalityType

LEMMA OneMore ==
    ASSUME NEW S \in SUBSET Callers, NEW T \in SUBSET Callers, NEW c \in Callers,
           c \notin S, T = S \cup {c}
    PROVE  Cardinality(T) = Cardinality(S) + 1
BY SomeCallersAreFinite, FS_AddElement

LEMMA OneFewer ==
    ASSUME NEW S \in SUBSET Callers, NEW T \in SUBSET Callers, NEW c \in Callers,
           c \in S, T = S \ {c}
    PROVE  Cardinality(T) = Cardinality(S) - 1
BY SomeCallersAreFinite, FS_RemoveElement

LEMMA NoneIsZero ==
    ASSUME NEW S \in SUBSET Callers
    PROVE  Cardinality(S) = 0 <=> S = {}
BY SomeCallersAreFinite, FS_EmptySet

------------------------------------------------------------------------------
(* What one write of the two structures keeps.                               *)

\* The fields that the position is in are left alone.
SamePosition(t, s) ==
    /\ t.ctl.current = s.ctl.current /\ t.ctl.pending = s.ctl.pending
    /\ t.ctl.pending_pos = s.ctl.pending_pos /\ t.ctl.new_pos = s.ctl.new_pos

Typed(s) == s \in [ctl : Control, client : [Callers -> ClientControl]]

\* A write that touches no poll.
LEMMA QuietWriteKeeps ==
    ASSUME NEW s, NEW t, NEW a, NEW b, Kept(s, a), Typed(t),
           FlagsOK(t.client), MasterKnown(t), SamePosition(t, s),
           t.ctl.state = s.ctl.state, t.ctl.aborted = s.ctl.aborted,
           t.ctl.sync_clients = s.ctl.sync_clients,
           t.ctl.sync_remain = s.ctl.sync_remain,
           \A c \in Callers : /\ t.client[c].sync_poll <=> s.client[c].sync_poll
                              /\ t.client[c].active_slowsync <=> s.client[c].active_slowsync
                              /\ t.client[c].active_slowsync /\ c \in a.ready => c \in b.ready,
           b.old = a.old, b.raced = a.raced, b.timed_out = a.timed_out
    PROVE  Kept(t, b)
<1>1. SlowOf(t.client) = SlowOf(s.client) /\ Polled(t.client) = Polled(s.client)
  BY DEF SlowOf, Polled
<1>2. SlowCounted(t) /\ (~b.raced => PollsCounted(t))
  BY <1>1 DEF SlowCounted, PollsCounted, Kept
<1>3. Heard(t, b) /\ NobodyPolled(t, b)
  BY DEF Heard, NobodyPolled, Kept
<1>4. Synced(t) /\ Following(t.ctl)
  BY DEF Synced, Following, Kept, SamePosition
<1> QED
  BY <1>2, <1>3, <1>4 DEF Kept, Typed

\* A client is polled anew, whether it was waited for or not.
LEMMA NewPollKeeps ==
    ASSUME NEW s, NEW t, NEW a, NEW b, NEW c \in Callers, Kept(s, a), Typed(t),
           FlagsOK(t.client), MasterKnown(t), SamePosition(t, s),
           t.ctl.state = IF s.ctl.state = "Rolling" THEN "Starting" ELSE s.ctl.state,
           s.ctl.aborted => t.ctl.aborted,
           t.ctl.aborted \/ t.ctl.sync_clients =
              IF s.client[c].active_slowsync THEN s.ctl.sync_clients
                                             ELSE s.ctl.sync_clients + 1,
           t.ctl.sync_remain =
              IF s.client[c].sync_poll THEN s.ctl.sync_remain ELSE s.ctl.sync_remain + 1,
           t.client[c].sync_poll, t.client[c].active_slowsync,
           \A d \in Callers \ {c} :
              /\ t.client[d].sync_poll <=> s.client[d].sync_poll
              /\ t.client[d].active_slowsync <=> s.client[d].active_slowsync
              /\ d \in a.ready => d \in b.ready,
           b.old = a.old, b.raced = a.raced
    PROVE  Kept(t, b)
<1>1. FlagsOK(s.client) /\ s.ctl \in Control /\ Following(s.ctl)
      /\ Heard(s, a) /\ SlowCounted(s) /\ (~a.raced => PollsCounted(s))
  BY DEF Kept
<1>2. SlowCounted(t)
  <2>1. CASE s.client[c].active_slowsync
    <3>1. SlowOf(t.client) = SlowOf(s.client)
      BY <2>1 DEF SlowOf
    <3> QED
      BY <1>1, <2>1, <3>1 DEF SlowCounted
  <2>2. CASE ~s.client[c].active_slowsync
    <3>1. SlowOf(t.client) = SlowOf(s.client) \cup {c} /\ c \notin SlowOf(s.client)
      BY <2>2 DEF SlowOf
    <3>2. Cardinality(SlowOf(t.client)) = Cardinality(SlowOf(s.client)) + 1
      BY <3>1, OneMore DEF SlowOf
    <3> QED
      BY <1>1, <2>2, <3>2 DEF SlowCounted
  <2> QED
    BY <2>1, <2>2
<1>3. ~b.raced => PollsCounted(t)
  <2>1. CASE s.client[c].sync_poll
    <3>1. Polled(t.client) = Polled(s.client)
      BY <1>1, <2>1 DEF Polled, FlagsOK
    <3> QED
      BY <1>1, <2>1, <3>1 DEF PollsCounted
  <2>2. CASE ~s.client[c].sync_poll
    <3>1. Polled(t.client) = Polled(s.client) \cup {c} /\ c \notin Polled(s.client)
      BY <2>2 DEF Polled
    <3>2. Cardinality(Polled(t.client)) = Cardinality(Polled(s.client)) + 1
      BY <3>1, OneMore DEF Polled
    <3> QED
      BY <1>1, <2>2, <3>2 DEF PollsCounted
  <2> QED
    BY <2>1, <2>2
<1>4. t.ctl.state # "Rolling"
  OBVIOUS
<1>5. Heard(t, b)
  BY <1>1 DEF Heard, Control
<1>6. NobodyPolled(t, b) /\ Synced(t)
  BY <1>4 DEF NobodyPolled, Synced
<1>7. Following(t.ctl)
  BY <1>1 DEF Following, SamePosition
<1> QED
  BY <1>2, <1>3, <1>5, <1>6, <1>7 DEF Kept, Typed

\* A slow client leaves, waited for or not.
LEMMA LeavingKeeps ==
    ASSUME NEW s, NEW t, NEW a, NEW b, NEW c \in Callers, Kept(s, a), Typed(t),
           FlagsOK(t.client), MasterKnown(t), SamePosition(t, s),
           t.ctl.state = s.ctl.state, s.ctl.aborted => t.ctl.aborted,
           t.ctl.sync_clients = s.ctl.sync_clients - 1,
           t.ctl.sync_remain =
              IF s.client[c].sync_poll THEN s.ctl.sync_remain - 1 ELSE s.ctl.sync_remain,
           s.client[c].active_slowsync,
           ~t.client[c].sync_poll, ~t.client[c].active_slowsync,
           \A d \in Callers \ {c} :
              /\ t.client[d].sync_poll <=> s.client[d].sync_poll
              /\ t.client[d].active_slowsync <=> s.client[d].active_slowsync
              /\ d \in a.ready => d \in b.ready,
           b.old = a.old, b.raced = a.raced, b.timed_out = a.timed_out
    PROVE  Kept(t, b)
<1>1. FlagsOK(s.client) /\ s.ctl \in Control /\ Following(s.ctl) /\ Synced(s)
      /\ Heard(s, a) /\ NobodyPolled(s, a) /\ SlowCounted(s) /\ (~a.raced => PollsCounted(s))
  BY DEF Kept
<1>2. SlowCounted(t)
  <2>1. SlowOf(t.client) = SlowOf(s.client) \ {c} /\ c \in SlowOf(s.client)
    BY DEF SlowOf
  <2>2. Cardinality(SlowOf(t.client)) = Cardinality(SlowOf(s.client)) - 1
    BY <2>1, OneFewer DEF SlowOf
  <2> QED
    BY <1>1, <2>2 DEF SlowCounted
<1>3. ~b.raced => PollsCounted(t)
  <2>1. CASE ~s.client[c].sync_poll
    <3>1. Polled(t.client) = Polled(s.client)
      BY <1>1, <2>1 DEF Polled, FlagsOK
    <3> QED
      BY <1>1, <2>1, <3>1 DEF PollsCounted
  <2>2. CASE s.client[c].sync_poll
    <3>1. Polled(t.client) = Polled(s.client) \ {c} /\ c \in Polled(s.client)
      BY <2>2 DEF Polled
    <3>2. Cardinality(Polled(t.client)) = Cardinality(Polled(s.client)) - 1
      BY <3>1, OneFewer DEF Polled
    <3> QED
      BY <1>1, <2>2, <3>2 DEF PollsCounted
  <2> QED
    BY <2>1, <2>2
<1>4. Heard(t, b)
  BY <1>1 DEF Heard
<1>5. NobodyPolled(t, b) /\ Synced(t)
  BY <1>1 DEF NobodyPolled, Synced, SamePosition
<1>6. Following(t.ctl)
  BY <1>1 DEF Following, SamePosition
<1> QED
  BY <1>2, <1>3, <1>4, <1>5, <1>6 DEF Kept, Typed

\* Only a race is noted.
LEMMA NotedRaceKeeps ==
    ASSUME NEW s, NEW t, NEW a, NEW b, Kept(s, a), t.ctl = s.ctl, t.client = s.client,
           b.old = a.old, b.timed_out = a.timed_out, b.ready = a.ready,
           ~b.raced => ~a.raced
    PROVE  Kept(t, b)
<1>1. SlowCounted(t) /\ (~b.raced => PollsCounted(t))
  BY DEF Kept, SlowCounted, PollsCounted
<1>2. MasterKnown(t)
  BY DEF Kept, MasterKnown
<1>3. Heard(t, b) /\ NobodyPolled(t, b) /\ Synced(t)
  BY DEF Kept, Heard, NobodyPolled, Synced
<1> QED
  BY <1>1, <1>2, <1>3 DEF Kept

------------------------------------------------------------------------------
(* Requests.                                                                 *)

LEMMA WritesKeep ==
    ASSUME TransportIInv, NEW s, NEW cs \in SUBSET Callers, Writes(s, cs),
           Kept(s, NewPoll(answer, cs)), UNCHANGED <<thread, left, cycling>>,
           failed' \in SUBSET Callers, asks' \in 0 .. MaxAsks
    PROVE  TransportIInv' /\ ctl'.current = s.ctl.current
<1>1. answer \in Answers /\ thread \in [Callers -> Threads]
  BY DEF TransportIInv, TransportTypeOK
<1>2. /\ ctl' = s.ctl /\ client' = s.client
      /\ answer' = [NewPoll(answer, cs) EXCEPT !.raced = @ \/ Overtakes(s.client)]
  BY DEF Writes
<1>3. NewPoll(answer, cs) \in Answers
  BY <1>1 DEF NewPoll, Answers
<1>4. answer' \in Answers
  BY <1>2, <1>3 DEF Answers, Overtakes
<1>5. /\ answer'.old = NewPoll(answer, cs).old /\ answer'.ready = NewPoll(answer, cs).ready
      /\ answer'.timed_out = NewPoll(answer, cs).timed_out
      /\ ~answer'.raced => ~NewPoll(answer, cs).raced /\ ~Overtakes(s.client)
  BY <1>2, <1>3 DEF Answers
<1>6. Kept([ctl |-> ctl', client |-> client'], answer')
  <2> DEFINE n == [ctl |-> ctl', client |-> client']
  <2>1. n.ctl = s.ctl /\ n.client = s.client
    BY <1>2
  <2> HIDE DEF n
  <2>2. Kept(n, answer')
    BY <2>1, <1>5, NotedRaceKeeps
  <2> QED
    BY <2>2 DEF n
<1>7. StoringIsPolled'
  BY <1>2, <1>5 DEF StoringIsPolled, Overtakes
<1>8. ctl' \in Control /\ client' \in [Callers -> ClientControl]
  BY <1>2 DEF Kept
<1>9. TransportTypeOK'
  BY <1>4, <1>8 DEF TransportIInv, TransportTypeOK
<1> QED
  BY <1>2, <1>6, <1>7, <1>9 DEF TransportIInv, Now

\* What the polls that begin for cs leave of the answers.
LEMMA NewPollLeaves ==
    ASSUME NEW cs \in SUBSET Callers, answer \in Answers
    PROVE  LET b == NewPoll(answer, cs)
           IN  /\ b.ready = answer.ready \ cs /\ b.old = answer.old
               /\ b.raced = answer.raced
               /\ cs = {} => (b.timed_out <=> answer.timed_out)
               /\ cs # {} => ~b.timed_out
BY DEF NewPoll, Answers

LEMMA SetSyncKeeps ==
    ASSUME TransportIInv, NEW c \in Callers, SetSync(c), asks' \in 0 .. MaxAsks
    PROVE  TransportIInv' /\ ctl'.current = ctl.current
<1> DEFINE joins == client[c].active /\ ~client[c].is_slowsync
           s == [ctl |-> [ctl EXCEPT !.sync_clients = IF joins THEN @ + 1 ELSE @],
                 client |-> [client EXCEPT ![c].is_slowsync = TRUE,
                                           ![c].active_slowsync = @ \/ joins]]
           b(cs) == NewPoll(answer, cs)
<1>1. /\ ctl \in Control /\ client \in [Callers -> ClientControl] /\ answer \in Answers
      /\ failed \in SUBSET Callers /\ Kept(Now, answer)
      /\ FlagsOK(client) /\ MasterKnown(Now)
  BY DEF TransportIInv, TransportTypeOK, Kept, Now
<1>2. /\ Now.ctl = ctl /\ Now.client = client /\ ~ctl.aborted /\ ~client[c].dead
      /\ UNCHANGED <<thread, left, cycling, failed>>
      /\ IF s.client[c].active_slowsync THEN Writes(jack_sync_poll_new(s, c), {c})
                                        ELSE Writes(s, {})
  BY DEF SetSync, Now, Serves
<1>3. client[c] \in ClientControl /\ s.client[c] \in ClientControl
      /\ Typed(s) /\ s.client[c].is_slowsync
      /\ (s.client[c].active_slowsync <=> client[c].active_slowsync \/ joins)
      /\ (s.client[c].sync_poll <=> client[c].sync_poll)
      /\ (s.client[c].is_timebase <=> client[c].is_timebase) /\ ~s.client[c].dead
      /\ \A d \in Callers \ {c} : s.client[d] = client[d]
  <2> DEFINE r == [client[c] EXCEPT !.is_slowsync = TRUE, !.active_slowsync = @ \/ joins]
  <2>1. client[c] \in ClientControl
    BY <1>1
  <2>2. r \in ClientControl /\ r.is_slowsync
        /\ (r.active_slowsync <=> client[c].active_slowsync \/ joins)
        /\ (r.sync_poll <=> client[c].sync_poll)
        /\ (r.is_timebase <=> client[c].is_timebase) /\ (r.dead <=> client[c].dead)
    <3> HIDE DEF joins
    <3> QED
      BY <2>1 DEF ClientControl
  <2>3. s.client = [client EXCEPT ![c] = r]
    <3> HIDE DEF joins
    <3> QED
      BY <1>1
  <2> HIDE DEF r
  <2>4. s.client[c] = r /\ \A d \in Callers \ {c} : s.client[d] = client[d]
    BY <1>1, <2>3
  <2>5. s.client \in [Callers -> ClientControl]
    BY <1>1, <2>2, <2>3
  <2>6. s.ctl \in Control
    BY <1>1 DEF Control
  <2>7. s = [ctl |-> s.ctl, client |-> s.client]
    OBVIOUS
  <2> HIDE DEF s
  <2> QED
    BY <1>2, <2>1, <2>2, <2>4, <2>5, <2>6, <2>7 DEF Typed
<1>4. s.ctl.state = ctl.state /\ s.ctl.aborted = ctl.aborted /\ s.ctl.master = ctl.master
      /\ s.ctl.sync_clients = (IF joins THEN ctl.sync_clients + 1 ELSE ctl.sync_clients)
      /\ s.ctl.sync_remain = ctl.sync_remain /\ SamePosition(s, Now)
  BY <1>1 DEF Control, SamePosition, Now
<1> HIDE DEF s
<1>5. CASE ~s.client[c].active_slowsync
  <2>1. FlagsOK(s.client) /\ MasterKnown(s)
    BY <1>1, <1>2, <1>3, <1>4 DEF FlagsOK, MasterKnown
  <2>2. /\ b({}).old = answer.old /\ b({}).raced = answer.raced
        /\ b({}).timed_out = answer.timed_out /\ b({}).ready = answer.ready
    BY <1>1, NewPollLeaves DEF Answers, NewPoll
  <2>3. \A d \in Callers : /\ s.client[d].sync_poll <=> client[d].sync_poll
                           /\ s.client[d].active_slowsync <=> client[d].active_slowsync
    BY <1>3, <1>5
  <2>4. s.ctl.sync_clients = ctl.sync_clients
    BY <1>3, <1>4, <1>5
  <2> HIDE DEF b, joins
  <2>5. Kept(s, b({}))
    BY <1>1, <1>2, <1>3, <1>4, <2>1, <2>2, <2>3, <2>4, QuietWriteKeeps
  <2> QED
    BY <1>1, <1>2, <1>4, <1>5, <2>5, WritesKeep DEF b, SamePosition
<1>6. CASE s.client[c].active_slowsync
  <2> DEFINE t == jack_sync_poll_new(s, c)
  <2>1. Typed(t) /\ t.client[c] = [s.client[c] EXCEPT !.sync_new = TRUE, !.sync_poll = TRUE]
        /\ (\A d \in Callers \ {c} : t.client[d] = client[d])
    <3>1. t.client = [s.client EXCEPT ![c] = [s.client[c] EXCEPT !.sync_new = TRUE, !.sync_poll = TRUE]]
      BY <1>3 DEF jack_sync_poll_new, Typed
    <3>2. [s.client[c] EXCEPT !.sync_new = TRUE, !.sync_poll = TRUE] \in ClientControl
      BY <1>3 DEF ClientControl
    <3>3. t.ctl \in Control
      <4>1. s.ctl \in Control /\ SyncTimeout \in 0 .. SyncTimeout
        BY <1>3, TransportAssumption DEF Typed
      <4> DEFINE m == IF s.client[c].sync_poll THEN s.ctl.sync_remain ELSE s.ctl.sync_remain + 1
                 st == IF s.ctl.state = "Rolling" THEN "Starting" ELSE s.ctl.state
      <4>2. t.ctl = [s.ctl EXCEPT !.time_left = SyncTimeout, !.sync_remain = m, !.state = st]
        BY DEF jack_sync_poll_new
      <4>3. m \in Int /\ st \in States
        BY <4>1 DEF Control, States
      <4> HIDE DEF t, m, st
      <4> QED
        BY <4>1, <4>2, <4>3 DEF Control
    <3>4. t = [ctl |-> t.ctl, client |-> t.client]
      BY DEF jack_sync_poll_new
    <3> HIDE DEF t
    <3> QED
      BY <1>3, <3>1, <3>2, <3>3, <3>4 DEF Typed
  <2>2. SamePosition(t, Now) /\ t.ctl.master = ctl.master /\ t.ctl.aborted = ctl.aborted
        /\ t.ctl.state = (IF ctl.state = "Rolling" THEN "Starting" ELSE ctl.state)
        /\ t.ctl.sync_clients = (IF joins THEN ctl.sync_clients + 1 ELSE ctl.sync_clients)
        /\ t.ctl.sync_remain =
             IF client[c].sync_poll THEN ctl.sync_remain ELSE ctl.sync_remain + 1
    BY <1>3, <1>4 DEF jack_sync_poll_new, Typed, Control, SamePosition
  <2> HIDE DEF t
  <2>3. /\ t.client[c].sync_poll /\ t.client[c].active_slowsync /\ t.client[c].is_slowsync
        /\ ~t.client[c].dead /\ (t.client[c].is_timebase <=> client[c].is_timebase)
    BY <2>1, <1>3, <1>6 DEF ClientControl
  <2>4. FlagsOK(t.client)
    BY <1>1, <2>1, <2>3 DEF FlagsOK
  <2>9. MasterKnown(t)
    <3> SUFFICES ASSUME NEW d \in Callers
                 PROVE  /\ t.client[d].is_timebase <=> t.ctl.master = d
                        /\ t.ctl.master = d => ~t.client[d].dead
      BY DEF MasterKnown
    <3>1. (client[d].is_timebase <=> ctl.master = d) /\ (ctl.master = d => ~client[d].dead)
      BY <1>1, <1>2 DEF MasterKnown
    <3>2. CASE d = c
      BY <2>2, <2>3, <3>1, <3>2
    <3>3. CASE d # c
      BY <2>1, <2>2, <3>1, <3>3
    <3> QED
      BY <3>2, <3>3
  <2>5. joins <=> ~client[c].active_slowsync
    BY <1>1, <1>3, <1>6 DEF FlagsOK
  <2>6. /\ b({c}).old = answer.old /\ b({c}).raced = answer.raced
        /\ b({c}).ready = answer.ready \ {c}
    BY <1>1, NewPollLeaves
  <2>7. t.ctl.sync_clients = IF client[c].active_slowsync THEN ctl.sync_clients
                                                          ELSE ctl.sync_clients + 1
    BY <2>2, <2>5
  <2> HIDE DEF b, joins
  <2>8. Kept(t, b({c}))
    BY <1>1, <1>2, <2>1, <2>2, <2>3, <2>4, <2>6, <2>7, <2>9, NewPollKeeps
  <2> QED
    BY <1>1, <1>2, <1>6, <2>2, <2>8, WritesKeep DEF b, t, SamePosition
<1> QED
  BY <1>5, <1>6

LEMMA CountersStayTyped ==
    ASSUME NEW x \in Control, NEW m \in Int, NEW n \in Int, NEW ab \in BOOLEAN
    PROVE  [x EXCEPT !.sync_remain = m, !.sync_clients = n, !.aborted = ab] \in Control
BY DEF Control

\* What jack_sync_poll_deactivate writes for a slow client.
LEMMA DeactivateWrites ==
    ASSUME NEW s, NEW c \in Callers, Typed(s)
    PROVE  LET t == jack_sync_poll_deactivate(s, c)
           IN  /\ Typed(t) /\ SamePosition(t, s)
               /\ t.ctl.state = s.ctl.state /\ (s.ctl.aborted => t.ctl.aborted)
               /\ t.ctl.sync_clients = s.ctl.sync_clients - 1
               /\ t.ctl.sync_remain = IF s.client[c].sync_poll THEN s.ctl.sync_remain - 1
                                                               ELSE s.ctl.sync_remain
               /\ t.ctl.master = s.ctl.master
               /\ ~t.client[c].sync_poll /\ ~t.client[c].active_slowsync
               /\ t.client[c].is_slowsync <=> s.client[c].is_slowsync
               /\ t.client[c].dead <=> s.client[c].dead
               /\ t.client[c].is_timebase <=> s.client[c].is_timebase
               /\ \A d \in Callers \ {c} : t.client[d] = s.client[d]
<1> DEFINE t == jack_sync_poll_deactivate(s, c)
           m == IF s.client[c].sync_poll THEN s.ctl.sync_remain - 1 ELSE s.ctl.sync_remain
           n == s.ctl.sync_clients - 1
           ab == s.ctl.aborted \/ s.ctl.sync_clients < 1
           new == s.client[c].sync_new /\ ~s.client[c].sync_poll
           q == [s.client[c] EXCEPT !.sync_new = new, !.sync_poll = FALSE,
                                    !.active_slowsync = FALSE]
<1>1. s.ctl \in Control /\ s.client \in [Callers -> ClientControl]
      /\ s.client[c] \in ClientControl
  BY DEF Typed
<1>2. t.ctl = [s.ctl EXCEPT !.sync_remain = m, !.sync_clients = n, !.aborted = ab]
  BY <1>1 DEF jack_sync_poll_deactivate
<1>3. t.client = [s.client EXCEPT ![c] = q]
  BY <1>1 DEF jack_sync_poll_deactivate
<1>4. m \in Int /\ n \in Int /\ ab \in BOOLEAN /\ new \in BOOLEAN
  BY <1>1 DEF Control, ClientControl
<1>5. q \in ClientControl /\ ~q.sync_poll /\ ~q.active_slowsync
      /\ (q.is_slowsync <=> s.client[c].is_slowsync) /\ (q.dead <=> s.client[c].dead)
      /\ (q.is_timebase <=> s.client[c].is_timebase)
  <2> HIDE DEF new
  <2> QED
    BY <1>1, <1>4 DEF ClientControl
<1>6. t.client[c] = q /\ \A d \in Callers \ {c} : t.client[d] = s.client[d]
  BY <1>1, <1>3
<1>7. /\ t.ctl \in Control /\ t.ctl.sync_remain = m /\ t.ctl.sync_clients = n
      /\ (s.ctl.aborted => t.ctl.aborted) /\ t.ctl.master = s.ctl.master
      /\ t.ctl.state = s.ctl.state /\ SamePosition(t, s)
  <2>1. s.ctl.aborted => ab
    OBVIOUS
  <2> HIDE DEF m, n, ab, t
  <2>2. t.ctl \in Control
    <3>1. s.ctl \in Control
      BY <1>1
    <3>2. [s.ctl EXCEPT !.sync_remain = m, !.sync_clients = n, !.aborted = ab] \in Control
      BY <1>4, <3>1, CountersStayTyped
    <3> QED
      BY <1>2, <3>2
  <2>3. /\ t.ctl.sync_remain = m /\ t.ctl.sync_clients = n /\ (t.ctl.aborted <=> ab)
        /\ t.ctl.master = s.ctl.master /\ t.ctl.state = s.ctl.state
    BY <1>1, <1>2, <1>4 DEF Control
  <2>4. SamePosition(t, s)
    BY <1>1, <1>2 DEF Control, SamePosition
  <2> QED
    BY <2>1, <2>2, <2>3, <2>4
<1>8. t.client \in [Callers -> ClientControl]
  BY <1>1, <1>3, <1>5
<1>10. t = [ctl |-> t.ctl, client |-> t.client]
  BY DEF jack_sync_poll_deactivate
<1> HIDE DEF t, q
<1>9. Typed(t)
  BY <1>7, <1>8, <1>10 DEF Typed
<1> QED
  BY <1>5, <1>6, <1>7, <1>9 DEF t

\* What jack_timebase_reset writes, of a master that is there.
LEMMA ResetWrites ==
    ASSUME NEW s, NEW c \in Callers, Typed(s), s.ctl.master = c
    PROVE  LET t == jack_timebase_reset(s)
           IN  /\ Typed(t) /\ SamePosition(t, s)
               /\ t.ctl.state = s.ctl.state /\ t.ctl.aborted = s.ctl.aborted
               /\ t.ctl.sync_clients = s.ctl.sync_clients
               /\ t.ctl.sync_remain = s.ctl.sync_remain
               /\ t.ctl.master = NoClient
               /\ t.client[c].sync_poll <=> s.client[c].sync_poll
               /\ t.client[c].active_slowsync <=> s.client[c].active_slowsync
               /\ t.client[c].is_slowsync <=> s.client[c].is_slowsync
               /\ t.client[c].dead <=> s.client[c].dead
               /\ t.client[c].active <=> s.client[c].active
               /\ ~t.client[c].is_timebase
               /\ \A d \in Callers \ {c} : t.client[d] = s.client[d]
<1> DEFINE t == jack_timebase_reset(s)
           q == [s.client[c] EXCEPT !.is_timebase = FALSE, !.timebase_new = FALSE]
<1>1. s.ctl \in Control /\ s.client \in [Callers -> ClientControl]
      /\ s.client[c] \in ClientControl
  BY DEF Typed
<1>2. t.ctl = [s.ctl EXCEPT !.master = NoClient]
  BY DEF jack_timebase_reset
<1>3. t.client = [s.client EXCEPT ![c] = q]
  BY <1>1 DEF jack_timebase_reset
<1>4. q \in ClientControl /\ ~q.is_timebase
      /\ (q.sync_poll <=> s.client[c].sync_poll)
      /\ (q.active_slowsync <=> s.client[c].active_slowsync)
      /\ (q.is_slowsync <=> s.client[c].is_slowsync) /\ (q.dead <=> s.client[c].dead)
      /\ (q.active <=> s.client[c].active)
  BY <1>1 DEF ClientControl
<1>5. t.client[c] = q /\ \A d \in Callers \ {c} : t.client[d] = s.client[d]
  BY <1>1, <1>3
<1>6. /\ t.ctl \in Control /\ SamePosition(t, s)
      /\ t.ctl.state = s.ctl.state /\ t.ctl.aborted = s.ctl.aborted
      /\ t.ctl.sync_clients = s.ctl.sync_clients
      /\ t.ctl.sync_remain = s.ctl.sync_remain /\ t.ctl.master = NoClient
  <2> HIDE DEF t
  <2> QED
    BY <1>1, <1>2 DEF Control, SamePosition
<1>7. t.client \in [Callers -> ClientControl]
  BY <1>1, <1>3, <1>4
<1>9. t = [ctl |-> t.ctl, client |-> t.client]
  BY DEF jack_timebase_reset
<1> HIDE DEF t, q
<1>8. Typed(t)
  BY <1>6, <1>7, <1>9 DEF Typed
<1> QED
  BY <1>4, <1>5, <1>6, <1>8 DEF t

\* The process thread and the flags of one client, in either of two blocks.
SamePolls(p, q) ==
    /\ p.sync_poll <=> q.sync_poll
    /\ p.active_slowsync <=> q.active_slowsync
    /\ p.is_slowsync <=> q.is_slowsync

\* jack_transport_client_exit, for a block that only differs in active and dead.
LEMMA ExitKeeps ==
    ASSUME TransportIInv, NEW c \in Callers, NEW s, Typed(s), s.ctl = ctl,
           SamePolls(s.client[c], client[c]),
           s.client[c].is_timebase <=> client[c].is_timebase,
           client[c].dead => s.client[c].dead,
           \A d \in Callers \ {c} : s.client[d] = client[d]
    PROVE  /\ Kept(jack_transport_client_exit(s, c), NewPoll(answer, {}))
           /\ jack_transport_client_exit(s, c).ctl.current = ctl.current
<1> DEFINE r == IF s.ctl.master = c /\ s.client[c].dead THEN jack_timebase_reset(s) ELSE s
           t == IF r.client[c].is_slowsync /\ r.client[c].active_slowsync
                THEN jack_sync_poll_deactivate(r, c) ELSE r
           u == [t EXCEPT !.client[c].is_slowsync = @ /\ ~t.client[c].dead]
           b == NewPoll(answer, {})
<1>1. /\ ctl \in Control /\ client \in [Callers -> ClientControl] /\ answer \in Answers
      /\ Kept(Now, answer) /\ FlagsOK(client) /\ MasterKnown(Now)
      /\ Now.ctl = ctl /\ Now.client = client
  BY DEF TransportIInv, TransportTypeOK, Kept, Now
<1>2. /\ b.old = answer.old /\ b.raced = answer.raced
      /\ b.timed_out = answer.timed_out /\ b.ready = answer.ready
  BY <1>1, NewPollLeaves DEF Answers, NewPoll
<1>3. /\ Typed(r) /\ SamePosition(r, Now)
      /\ r.ctl.state = ctl.state /\ r.ctl.aborted = ctl.aborted
      /\ r.ctl.sync_clients = ctl.sync_clients /\ r.ctl.sync_remain = ctl.sync_remain
      /\ SamePolls(r.client[c], client[c])
      /\ r.client[c].dead <=> s.client[c].dead
      /\ r.ctl.master = (IF ctl.master = c /\ s.client[c].dead THEN NoClient ELSE ctl.master)
      /\ r.client[c].is_timebase <=> client[c].is_timebase /\ r.ctl.master = ctl.master
      /\ \A d \in Callers \ {c} : r.client[d] = client[d]
  <2>1. CASE ctl.master = c /\ s.client[c].dead
    <3>1. r = jack_timebase_reset(s) /\ s.ctl.master = c
      BY <2>1
    <3> HIDE DEF r
    <3> QED
      BY <1>1, <2>1, <3>1, ResetWrites, TransportAssumption DEF SamePolls, SamePosition
  <2>2. CASE ~(ctl.master = c /\ s.client[c].dead)
    <3>1. r = s
      BY <2>2
    <3> HIDE DEF r
    <3> QED
      BY <1>1, <2>2, <3>1 DEF SamePolls, SamePosition
  <2> QED
    BY <2>1, <2>2
<1>4. MasterKnown(r)
  <2> HIDE DEF r
  <2> SUFFICES ASSUME NEW d \in Callers
               PROVE  /\ r.client[d].is_timebase <=> r.ctl.master = d
                      /\ r.ctl.master = d => ~r.client[d].dead
    BY DEF MasterKnown
  <2>1. (client[d].is_timebase <=> ctl.master = d) /\ (ctl.master = d => ~client[d].dead)
    BY <1>1 DEF MasterKnown
  <2>2. CASE d = c
    BY <1>3, <2>1, <2>2, TransportAssumption
  <2>3. CASE d # c
    BY <1>3, <2>1, <2>3, TransportAssumption
  <2> QED
    BY <2>2, <2>3
<1> HIDE DEF r
<1>5. client[c].active_slowsync => client[c].is_slowsync
  BY <1>1 DEF FlagsOK
<1>6. /\ Typed(t) /\ SamePosition(t, Now) /\ t.ctl.state = ctl.state
      /\ t.ctl.master = r.ctl.master
      /\ (t.client[c].is_timebase <=> r.client[c].is_timebase)
      /\ (t.client[c].dead <=> r.client[c].dead)
      /\ (t.client[c].is_slowsync <=> client[c].is_slowsync)
      /\ (\A d \in Callers \ {c} : t.client[d] = client[d])
      /\ ~t.client[c].sync_poll /\ ~t.client[c].active_slowsync
  <2>1. CASE client[c].active_slowsync
    <3>1. t = jack_sync_poll_deactivate(r, c)
      BY <1>3, <1>5, <2>1 DEF SamePolls
    <3> HIDE DEF t
    <3> QED
      BY <1>3, <3>1, DeactivateWrites DEF SamePolls, SamePosition
  <2>2. CASE ~client[c].active_slowsync
    <3>1. t = r
      BY <1>3, <2>2 DEF SamePolls
    <3>2. ~client[c].sync_poll
      BY <1>1, <2>2 DEF FlagsOK
    <3> HIDE DEF t
    <3> QED
      BY <1>3, <2>2, <3>1, <3>2 DEF SamePolls, SamePosition
  <2> QED
    BY <2>1, <2>2
<1>7. IF client[c].active_slowsync
      THEN /\ (ctl.aborted => t.ctl.aborted)
           /\ t.ctl.sync_clients = ctl.sync_clients - 1
           /\ t.ctl.sync_remain = IF client[c].sync_poll THEN ctl.sync_remain - 1
                                                         ELSE ctl.sync_remain
      ELSE /\ t.ctl.aborted = ctl.aborted
           /\ t.ctl.sync_clients = ctl.sync_clients
           /\ t.ctl.sync_remain = ctl.sync_remain
  <2>1. CASE client[c].active_slowsync
    <3>1. t = jack_sync_poll_deactivate(r, c)
      BY <1>3, <1>5, <2>1 DEF SamePolls
    <3> HIDE DEF t
    <3> QED
      BY <1>3, <2>1, <3>1, DeactivateWrites DEF SamePolls
  <2>2. CASE ~client[c].active_slowsync
    <3>1. t = r
      BY <1>3, <2>2 DEF SamePolls
    <3> HIDE DEF t
    <3> QED
      BY <1>3, <2>2, <3>1
  <2> QED
    BY <2>1, <2>2
<1> HIDE DEF t
<1>8. /\ u.ctl = t.ctl /\ Typed(u)
      /\ (u.client[c].is_timebase <=> t.client[c].is_timebase)
      /\ (u.client[c].dead <=> t.client[c].dead)
      /\ (u.client[c].is_slowsync <=> t.client[c].is_slowsync /\ ~t.client[c].dead)
      /\ (\A d \in Callers \ {c} : u.client[d] = t.client[d])
      /\ ~u.client[c].sync_poll /\ ~u.client[c].active_slowsync
  <2> DEFINE slow == t.client[c].is_slowsync /\ ~t.client[c].dead
             q == [t.client[c] EXCEPT !.is_slowsync = slow]
  <2>1. t.client[c] \in ClientControl /\ slow \in BOOLEAN
        /\ t.ctl \in Control /\ t.client \in [Callers -> ClientControl]
    BY <1>6 DEF Typed, ClientControl
  <2>2. q \in ClientControl /\ (q.is_slowsync <=> slow)
        /\ (q.is_timebase <=> t.client[c].is_timebase) /\ (q.dead <=> t.client[c].dead)
        /\ ~q.sync_poll /\ ~q.active_slowsync
    <3> HIDE DEF slow
    <3> QED
      BY <1>6, <2>1 DEF ClientControl
  <2>9. t \in [ctl : Control, client : [Callers -> ClientControl]]
    BY <1>6 DEF Typed
  <2>3. u.ctl = t.ctl /\ u.client = [t.client EXCEPT ![c] = q]
    BY <2>1, <2>9
  <2>5. u = [ctl |-> u.ctl, client |-> u.client]
    BY <2>9
  <2> HIDE DEF q, u
  <2>4. u.client[c] = q /\ (\A d \in Callers \ {c} : u.client[d] = t.client[d])
        /\ u.client \in [Callers -> ClientControl]
    BY <2>1, <2>2, <2>3
  <2> QED
    BY <2>1, <2>2, <2>3, <2>4, <2>5 DEF Typed
<1> HIDE DEF u
<1>9. FlagsOK(u.client)
  BY <1>1, <1>6, <1>8 DEF FlagsOK
<1>10. MasterKnown(u)
  <2> SUFFICES ASSUME NEW d \in Callers
               PROVE  /\ u.client[d].is_timebase <=> u.ctl.master = d
                      /\ u.ctl.master = d => ~u.client[d].dead
    BY DEF MasterKnown
  <2>1. (r.client[d].is_timebase <=> r.ctl.master = d) /\ (r.ctl.master = d => ~r.client[d].dead)
    BY <1>4 DEF MasterKnown
  <2>2. CASE d = c
    BY <1>6, <1>8, <2>1, <2>2
  <2>3. CASE d # c
    BY <1>3, <1>6, <1>8, <2>1, <2>3
  <2> QED
    BY <2>2, <2>3
<1>11. SamePosition(u, Now)
  BY <1>6, <1>8 DEF SamePosition
<1>12. \A d \in Callers \ {c} : u.client[d] = client[d]
  BY <1>6, <1>8
<1>13. Kept(u, b)
  <2> HIDE DEF b
  <2>1. CASE client[c].active_slowsync
    BY <1>1, <1>2, <1>6, <1>7, <1>8, <1>9, <1>10, <1>11, <1>12, <2>1, LeavingKeeps
  <2>2. CASE ~client[c].active_slowsync
    <3>1. \A d \in Callers : /\ u.client[d].sync_poll <=> client[d].sync_poll
                             /\ u.client[d].active_slowsync <=> client[d].active_slowsync
      BY <1>1, <1>8, <1>12, <2>2 DEF FlagsOK
    <3> QED
      BY <1>1, <1>2, <1>6, <1>7, <1>8, <1>9, <1>10, <1>11, <2>2, <3>1, QuietWriteKeeps
  <2> QED
    BY <2>1, <2>2
<1>14. u.ctl.current = ctl.current
  BY <1>1, <1>11 DEF SamePosition
<1> QED
  BY <1>13, <1>14 DEF u, t, r, b, jack_transport_client_exit

LEMMA AnswersWithoutPoll ==
    ASSUME answer \in Answers
    PROVE  LET b == NewPoll(answer, {})
           IN  /\ b.old = answer.old /\ b.raced = answer.raced
               /\ b.timed_out = answer.timed_out /\ b.ready = answer.ready
BY NewPollLeaves DEF Answers, NewPoll

LEMMA WhatIsKept ==
    ASSUME TransportIInv
    PROVE  /\ ctl \in Control /\ client \in [Callers -> ClientControl] /\ answer \in Answers
           /\ failed \in SUBSET Callers /\ Kept(Now, answer) /\ Typed(Now)
           /\ FlagsOK(client) /\ MasterKnown(Now) /\ Now.ctl = ctl /\ Now.client = client
BY DEF TransportIInv, TransportTypeOK, Kept, Now, Typed

LEMMA ReleaseTimebaseKeeps ==
    ASSUME TransportIInv, ReleaseTimebase, asks' \in 0 .. MaxAsks
    PROVE  TransportIInv' /\ ctl'.current = ctl.current
<1> DEFINE t == jack_timebase_reset(Now)
           b == NewPoll(answer, {})
<1>1. PICK c \in Callers : ctl.master = c
  BY WhatIsKept DEF ReleaseTimebase, Control
<1>2. /\ Typed(t) /\ SamePosition(t, Now)
      /\ t.ctl.state = ctl.state /\ t.ctl.aborted = ctl.aborted
      /\ t.ctl.sync_clients = ctl.sync_clients
      /\ t.ctl.sync_remain = ctl.sync_remain /\ t.ctl.master = NoClient
      /\ (t.client[c].sync_poll <=> client[c].sync_poll)
      /\ (t.client[c].active_slowsync <=> client[c].active_slowsync)
      /\ (t.client[c].is_slowsync <=> client[c].is_slowsync)
      /\ (t.client[c].dead <=> client[c].dead)
      /\ ~t.client[c].is_timebase
      /\ \A d \in Callers \ {c} : t.client[d] = client[d]
  <2> HIDE DEF t
  <2>1. t = jack_timebase_reset(Now)
    BY DEF t
  <2> QED
    BY <1>1, <2>1, WhatIsKept, ResetWrites
<1> HIDE DEF t
<1>3. FlagsOK(t.client)
  BY <1>2, WhatIsKept DEF FlagsOK
<1>4. MasterKnown(t)
  <2> SUFFICES ASSUME NEW d \in Callers
               PROVE  /\ t.client[d].is_timebase <=> t.ctl.master = d
                      /\ t.ctl.master = d => ~t.client[d].dead
    BY DEF MasterKnown
  <2>1. client[d].is_timebase <=> ctl.master = d
    BY WhatIsKept DEF MasterKnown
  <2>2. CASE d = c
    BY <1>2, <2>2, TransportAssumption
  <2>3. CASE d # c
    BY <1>1, <1>2, <2>1, <2>3, TransportAssumption
  <2> QED
    BY <2>2, <2>3
<1>5. \A d \in Callers : /\ t.client[d].sync_poll <=> client[d].sync_poll
                         /\ t.client[d].active_slowsync <=> client[d].active_slowsync
  BY <1>2
<1>6. b.old = answer.old /\ b.raced = answer.raced
      /\ b.timed_out = answer.timed_out /\ b.ready = answer.ready
  BY AnswersWithoutPoll, WhatIsKept
<1> HIDE DEF b
<1>7. Kept(t, b)
  BY <1>2, <1>3, <1>4, <1>5, <1>6, WhatIsKept, QuietWriteKeeps
<1>8. Writes(t, {}) /\ UNCHANGED <<thread, left, cycling>> /\ failed' \in SUBSET Callers
  BY WhatIsKept DEF ReleaseTimebase, t
<1> QED
  BY <1>2, <1>7, <1>8, WhatIsKept, WritesKeep DEF b, SamePosition

LEMMA SetTimebaseKeeps ==
    ASSUME TransportIInv, NEW c \in Callers, NEW conditional \in BOOLEAN,
           SetTimebase(c, conditional), asks' \in 0 .. MaxAsks
    PROVE  TransportIInv' /\ ctl'.current = ctl.current
<1> DEFINE r == IF ctl.master = NoClient THEN Now ELSE jack_timebase_reset(Now)
           t == TakesOver(Now, c)
           b == NewPoll(answer, {})
<1>1. /\ Typed(r) /\ SamePosition(r, Now)
      /\ r.ctl.state = ctl.state /\ r.ctl.aborted = ctl.aborted
      /\ r.ctl.sync_clients = ctl.sync_clients
      /\ r.ctl.sync_remain = ctl.sync_remain
      /\ \A d \in Callers : /\ SamePolls(r.client[d], client[d])
                            /\ r.client[d].dead <=> client[d].dead
                            /\ ~r.client[d].is_timebase
  <2>1. CASE ctl.master = NoClient
    <3>1. r = Now
      BY <2>1
    <3>2. \A d \in Callers : ~client[d].is_timebase
      BY <2>1, WhatIsKept, TransportAssumption DEF MasterKnown
    <3> HIDE DEF r
    <3> QED
      BY <3>1, <3>2, WhatIsKept DEF SamePolls, SamePosition
  <2>2. CASE ctl.master # NoClient
    <3>1. PICK m \in Callers : ctl.master = m
      BY <2>2, WhatIsKept DEF Control
    <3>2. r = jack_timebase_reset(Now)
      BY <2>2
    <3>3. \A d \in Callers \ {m} : ~client[d].is_timebase
      BY <3>1, WhatIsKept DEF MasterKnown
    <3> HIDE DEF r
    <3>4. Typed(Now) /\ Now.ctl.master = m /\ Now.ctl = ctl /\ Now.client = client
      BY <3>1, WhatIsKept
    <3>5. /\ Typed(r) /\ SamePosition(r, Now)
          /\ r.ctl.state = ctl.state /\ r.ctl.aborted = ctl.aborted
          /\ r.ctl.sync_clients = ctl.sync_clients
          /\ r.ctl.sync_remain = ctl.sync_remain
      BY <3>2, <3>4, ResetWrites
    <3>6. SamePolls(r.client[m], client[m]) /\ (r.client[m].dead <=> client[m].dead)
          /\ ~r.client[m].is_timebase
      BY <3>2, <3>4, ResetWrites DEF SamePolls
    <3>7. \A d \in Callers \ {m} : r.client[d] = client[d]
      BY <3>2, <3>4, ResetWrites
    <3> QED
      BY <3>3, <3>5, <3>6, <3>7 DEF SamePolls
  <2> QED
    BY <2>1, <2>2
<1>2. /\ Typed(t) /\ SamePosition(t, Now) /\ t.ctl.state = ctl.state
      /\ t.ctl.aborted = ctl.aborted /\ t.ctl.sync_clients = ctl.sync_clients
      /\ t.ctl.sync_remain = ctl.sync_remain /\ t.ctl.master = c
      /\ SamePolls(t.client[c], r.client[c]) /\ (t.client[c].dead <=> r.client[c].dead)
      /\ t.client[c].is_timebase
      /\ \A d \in Callers \ {c} : t.client[d] = r.client[d]
  <2> DEFINE new == r.client[c].timebase_new \/ r.client[c].active
             q == [r.client[c] EXCEPT !.is_timebase = TRUE, !.timebase_new = new]
  <2>1. r.ctl \in Control /\ r.client \in [Callers -> ClientControl]
        /\ r.client[c] \in ClientControl
    BY <1>1 DEF Typed
  <2>2. t = [ctl |-> [r.ctl EXCEPT !.master = c], client |-> [r.client EXCEPT ![c] = q]]
    <3>1. t = LET x == r IN  [ctl |-> [x.ctl EXCEPT !.master = c],
         client |-> [x.client EXCEPT ![c].is_timebase = TRUE,
                                     ![c].timebase_new = @ \/ x.client[c].active]]
      BY WhatIsKept DEF TakesOver
    <3> HIDE DEF r
    <3> QED
      BY <2>1, <3>1
  <2> HIDE DEF r
  <2>3. new \in BOOLEAN
    BY <2>1 DEF ClientControl
  <2>4. q \in ClientControl /\ SamePolls(q, r.client[c]) /\ (q.dead <=> r.client[c].dead)
        /\ q.is_timebase
    <3> HIDE DEF new
    <3> QED
      BY <2>1, <2>3 DEF ClientControl, SamePolls
  <2> HIDE DEF t, q
  <2>5. t.client[c] = q /\ (\A d \in Callers \ {c} : t.client[d] = r.client[d])
        /\ t.client \in [Callers -> ClientControl]
    BY <2>1, <2>2, <2>4
  <2>6. t.ctl = [r.ctl EXCEPT !.master = c]
    BY <2>2
  <2>7. t.ctl \in Control /\ t.ctl.master = c
    BY <2>1, <2>6 DEF Control
  <2>8. SamePosition(t, r) /\ t.ctl.state = r.ctl.state
        /\ t.ctl.aborted = r.ctl.aborted /\ t.ctl.sync_clients = r.ctl.sync_clients
        /\ t.ctl.sync_remain = r.ctl.sync_remain
    BY <2>1, <2>6 DEF Control, SamePosition
  <2>9. Typed(t)
    BY <2>2, <2>5, <2>7 DEF Typed
  <2> QED
    BY <1>1, <2>4, <2>5, <2>7, <2>8, <2>9 DEF SamePosition
<1> HIDE DEF r, t
<1>3. \A d \in Callers : SamePolls(t.client[d], client[d]) /\ (t.client[d].dead <=> client[d].dead)
  BY <1>1, <1>2 DEF SamePolls
<1>4. FlagsOK(t.client)
  BY <1>3, WhatIsKept DEF FlagsOK, SamePolls
<1>5. MasterKnown(t)
  BY <1>1, <1>2, <1>3 DEF MasterKnown, SetTimebase
<1>6. b.old = answer.old /\ b.raced = answer.raced
      /\ b.timed_out = answer.timed_out /\ b.ready = answer.ready
  BY AnswersWithoutPoll, WhatIsKept
<1>7. \A d \in Callers : /\ t.client[d].sync_poll <=> client[d].sync_poll
                         /\ t.client[d].active_slowsync <=> client[d].active_slowsync
  BY <1>3 DEF SamePolls
<1> HIDE DEF b
<1>8. Kept(t, b)
  BY <1>2, <1>4, <1>5, <1>6, <1>7, WhatIsKept, QuietWriteKeeps
<1>9. Writes(t, {}) /\ UNCHANGED <<thread, left, cycling>> /\ failed' \in SUBSET Callers
  BY WhatIsKept DEF SetTimebase, t
<1> QED
  BY <1>2, <1>8, <1>9, WhatIsKept, WritesKeep DEF b, SamePosition

LEMMA DeactivateKeeps ==
    ASSUME TransportIInv, NEW c \in Callers, Deactivate(c), asks' \in 0 .. MaxAsks
    PROVE  TransportIInv' /\ ctl'.current = ctl.current
<1> DEFINE s == [Now EXCEPT !.client[c].active = FALSE]
           q == [client[c] EXCEPT !.active = FALSE]
<1>1. s = [ctl |-> ctl, client |-> [client EXCEPT ![c] = q]]
  <2>1. client \in [Callers -> ClientControl] /\ client[c] \in ClientControl
    BY WhatIsKept
  <2>2. Now = [ctl |-> ctl, client |-> client]
    BY DEF Now
  <2> QED
    <3>1. Now \in [ctl : Control, client : [Callers -> ClientControl]]
      BY WhatIsKept DEF Typed
    <3>2. s.ctl = Now.ctl /\ s.client = [Now.client EXCEPT ![c] = [Now.client[c] EXCEPT !.active = FALSE]]
      BY <3>1
    <3>3. s = [ctl |-> s.ctl, client |-> s.client]
      <4> DEFINE f == [Now.client EXCEPT ![c] = [Now.client[c] EXCEPT !.active = FALSE]]
      <4>1. s = [Now EXCEPT !.client = f]
        OBVIOUS
      <4> HIDE DEF f, s
      <4> QED
        BY <3>1, <4>1
    <3> QED
      BY <2>2, <3>2, <3>3
<1>2. client[c] \in ClientControl
  BY WhatIsKept
<1>3. q \in ClientControl /\ SamePolls(q, client[c])
      /\ (q.is_timebase <=> client[c].is_timebase) /\ (q.dead <=> client[c].dead)
  BY <1>2 DEF ClientControl, SamePolls
<1>4. Writes(jack_transport_client_exit(s, c), {})
      /\ UNCHANGED <<thread, left, cycling>> /\ failed' \in SUBSET Callers
  BY WhatIsKept DEF Deactivate
<1> HIDE DEF s, q
<1>5. Typed(s) /\ s.ctl = ctl /\ s.client[c] = q
      /\ \A d \in Callers \ {c} : s.client[d] = client[d]
  BY <1>1, <1>3, WhatIsKept DEF Typed
<1>6. Kept(jack_transport_client_exit(s, c), NewPoll(answer, {}))
      /\ jack_transport_client_exit(s, c).ctl.current = ctl.current
  BY <1>3, <1>5, ExitKeeps
<1> QED
  BY <1>4, <1>6, WritesKeep

LEMMA ZombifyKeeps ==
    ASSUME TransportIInv, NEW c \in Callers, Zombify(c), asks' \in 0 .. MaxAsks
    PROVE  TransportIInv' /\ ctl'.current = ctl.current
<1> DEFINE s == [Now EXCEPT !.client[c].active = FALSE, !.client[c].dead = TRUE]
           q == [client[c] EXCEPT !.active = FALSE, !.dead = TRUE]
<1>1. s = [ctl |-> ctl, client |-> [client EXCEPT ![c] = q]]
  <2>1. client \in [Callers -> ClientControl] /\ client[c] \in ClientControl
    BY WhatIsKept
  <2>2. Now = [ctl |-> ctl, client |-> client]
    BY DEF Now
  <2> QED
    <3>1. Now \in [ctl : Control, client : [Callers -> ClientControl]]
      BY WhatIsKept DEF Typed
    <3>2. s.ctl = Now.ctl /\ s.client = [Now.client EXCEPT ![c] = [Now.client[c] EXCEPT !.active = FALSE, !.dead = TRUE]]
      BY <3>1
    <3>3. s = [ctl |-> s.ctl, client |-> s.client]
      <4> DEFINE f == [Now.client EXCEPT ![c] = [Now.client[c] EXCEPT !.active = FALSE, !.dead = TRUE]]
      <4>1. s = [Now EXCEPT !.client = f]
        OBVIOUS
      <4> HIDE DEF f, s
      <4> QED
        BY <3>1, <4>1
    <3> QED
      BY <2>2, <3>2, <3>3
<1>2. client[c] \in ClientControl
  BY WhatIsKept
<1>3. q \in ClientControl /\ SamePolls(q, client[c])
      /\ (q.is_timebase <=> client[c].is_timebase) /\ q.dead
  BY <1>2 DEF ClientControl, SamePolls
<1>4. Writes(jack_transport_client_exit(s, c), {})
      /\ UNCHANGED <<thread, left, cycling>> /\ failed' \in SUBSET Callers
  BY WhatIsKept DEF Zombify
<1> HIDE DEF s, q
<1>5. Typed(s) /\ s.ctl = ctl /\ s.client[c] = q
      /\ \A d \in Callers \ {c} : s.client[d] = client[d]
  BY <1>1, <1>3, WhatIsKept DEF Typed
<1>6. Kept(jack_transport_client_exit(s, c), NewPoll(answer, {}))
      /\ jack_transport_client_exit(s, c).ctl.current = ctl.current
  BY <1>3, <1>5, ExitKeeps
<1> QED
  BY <1>4, <1>6, WritesKeep

\* What jack_sync_poll_new writes.
LEMMA PollNewWrites ==
    ASSUME NEW s, NEW c \in Callers, Typed(s)
    PROVE  LET t == jack_sync_poll_new(s, c)
           IN  /\ Typed(t) /\ SamePosition(t, s)
               /\ t.ctl.state = IF s.ctl.state = "Rolling" THEN "Starting" ELSE s.ctl.state
               /\ t.ctl.aborted = s.ctl.aborted
               /\ t.ctl.sync_clients = s.ctl.sync_clients
               /\ t.ctl.sync_remain = IF s.client[c].sync_poll THEN s.ctl.sync_remain
                                                               ELSE s.ctl.sync_remain + 1
               /\ t.ctl.master = s.ctl.master
               /\ t.client[c].sync_poll
               /\ t.client[c].active_slowsync <=> s.client[c].active_slowsync
               /\ t.client[c].is_slowsync <=> s.client[c].is_slowsync
               /\ t.client[c].dead <=> s.client[c].dead
               /\ t.client[c].is_timebase <=> s.client[c].is_timebase
               /\ \A d \in Callers \ {c} : t.client[d] = s.client[d]
<1> DEFINE t == jack_sync_poll_new(s, c)
           m == IF s.client[c].sync_poll THEN s.ctl.sync_remain ELSE s.ctl.sync_remain + 1
           st == IF s.ctl.state = "Rolling" THEN "Starting" ELSE s.ctl.state
           q == [s.client[c] EXCEPT !.sync_new = TRUE, !.sync_poll = TRUE]
<1>1. s.ctl \in Control /\ s.client \in [Callers -> ClientControl]
      /\ s.client[c] \in ClientControl /\ SyncTimeout \in 0 .. SyncTimeout
  BY TransportAssumption DEF Typed
<1>2. t.ctl = [s.ctl EXCEPT !.time_left = SyncTimeout, !.sync_remain = m, !.state = st]
  BY DEF jack_sync_poll_new
<1>3. t.client = [s.client EXCEPT ![c] = q]
  BY <1>1 DEF jack_sync_poll_new
<1>4. m \in Int /\ st \in States
  BY <1>1 DEF Control, States
<1>5. q \in ClientControl /\ q.sync_poll
      /\ (q.active_slowsync <=> s.client[c].active_slowsync)
      /\ (q.is_slowsync <=> s.client[c].is_slowsync) /\ (q.dead <=> s.client[c].dead)
      /\ (q.is_timebase <=> s.client[c].is_timebase)
  BY <1>1 DEF ClientControl
<1>6. t = [ctl |-> t.ctl, client |-> t.client]
  BY DEF jack_sync_poll_new
<1> HIDE DEF t, m, st, q
<1>7. t.client[c] = q /\ (\A d \in Callers \ {c} : t.client[d] = s.client[d])
      /\ t.client \in [Callers -> ClientControl]
  BY <1>1, <1>3, <1>5
<1>8. t.ctl \in Control
  BY <1>1, <1>2, <1>4 DEF Control
<1>9. /\ t.ctl.aborted = s.ctl.aborted /\ t.ctl.sync_clients = s.ctl.sync_clients
      /\ t.ctl.sync_remain = m /\ t.ctl.state = st /\ t.ctl.master = s.ctl.master
      /\ SamePosition(t, s)
  BY <1>1, <1>2 DEF Control, SamePosition
<1>10. Typed(t)
  BY <1>6, <1>7, <1>8 DEF Typed
<1> QED
  BY <1>5, <1>7, <1>9, <1>10 DEF t, m, st

LEMMA ActivateKeeps ==
    ASSUME TransportIInv, NEW c \in Callers, Activate(c), asks' \in 0 .. MaxAsks
    PROVE  TransportIInv' /\ ctl'.current = ctl.current
<1> DEFINE s == [Now EXCEPT !.client[c].active = TRUE]
           p == [client[c] EXCEPT !.active = TRUE]
           r == [ctl |-> [s.ctl EXCEPT !.sync_clients = @ + 1,
                            !.aborted = @ \/ s.client[c].active_slowsync],
                 client |-> [s.client EXCEPT ![c].active_slowsync = TRUE]]
           t == IF s.client[c].is_slowsync THEN jack_sync_poll_new(r, c) ELSE s
           u == [t EXCEPT !.client[c].timebase_new = @ \/ t.client[c].is_timebase]
           cs == IF client[c].is_slowsync THEN {c} ELSE {}
           b == NewPoll(answer, cs)
<1>1. s = [ctl |-> ctl, client |-> [client EXCEPT ![c] = p]]
  <2>1. Now = [ctl |-> ctl, client |-> client]
        /\ Now \in [ctl : Control, client : [Callers -> ClientControl]]
    BY WhatIsKept DEF Now, Typed
  <2>2. s.ctl = Now.ctl /\ s.client = [Now.client EXCEPT ![c] = [Now.client[c] EXCEPT !.active = TRUE]]
    BY <2>1
  <2>3. s = [ctl |-> s.ctl, client |-> s.client]
    <3> DEFINE f == [Now.client EXCEPT ![c] = [Now.client[c] EXCEPT !.active = TRUE]]
    <3>1. s = [Now EXCEPT !.client = f]
      OBVIOUS
    <3> HIDE DEF f, s
    <3> QED
      BY <2>1, <3>1
  <2> QED
    BY <2>1, <2>2, <2>3
<1>2. client[c] \in ClientControl /\ ~ctl.aborted /\ ~client[c].dead
  BY WhatIsKept DEF Activate, Serves
<1>3. p \in ClientControl /\ SamePolls(p, client[c])
      /\ (p.is_timebase <=> client[c].is_timebase) /\ ~p.dead
  BY <1>2 DEF ClientControl, SamePolls
<1>4. Writes(jack_transport_activate(s, c), cs)
      /\ UNCHANGED <<thread, left, cycling>> /\ failed' \in SUBSET Callers
  BY WhatIsKept DEF Activate
<1>5. u = jack_transport_activate(s, c)
  BY DEF jack_transport_activate
<1> HIDE DEF s, p
<1>6. Typed(s) /\ s.ctl = ctl /\ s.client[c] = p
      /\ \A d \in Callers \ {c} : s.client[d] = client[d]
  BY <1>1, <1>3, WhatIsKept DEF Typed
<1>7. Typed(r) /\ r.ctl.state = ctl.state /\ r.ctl.master = ctl.master
      /\ SamePosition(r, Now)
      /\ (r.ctl.aborted <=> client[c].active_slowsync)
      /\ r.ctl.sync_clients = ctl.sync_clients + 1
      /\ r.ctl.sync_remain = ctl.sync_remain
      /\ r.client[c].active_slowsync
      /\ (r.client[c].is_slowsync <=> client[c].is_slowsync)
      /\ (r.client[c].sync_poll <=> client[c].sync_poll) /\ ~r.client[c].dead
      /\ (r.client[c].is_timebase <=> client[c].is_timebase)
      /\ \A d \in Callers \ {c} : r.client[d] = client[d]
  <2> DEFINE n == ctl.sync_clients + 1
             ab == ctl.aborted \/ s.client[c].active_slowsync
             q == [s.client[c] EXCEPT !.active_slowsync = TRUE]
  <2>1. s.ctl \in Control /\ s.client \in [Callers -> ClientControl]
        /\ s.client[c] \in ClientControl
    BY <1>6 DEF Typed
  <2>2. r.ctl = [ctl EXCEPT !.sync_clients = n, !.aborted = ab]
    BY <1>6
  <2>3. r.client = [s.client EXCEPT ![c] = q]
    BY <2>1
  <2>4. r = [ctl |-> r.ctl, client |-> r.client]
    OBVIOUS
  <2>5. n \in Int /\ ab \in BOOLEAN /\ (ab <=> client[c].active_slowsync)
    BY <1>2, <1>3, <1>6, <2>1 DEF Control, ClientControl, SamePolls
  <2>6. q \in ClientControl /\ q.active_slowsync
        /\ (q.is_slowsync <=> client[c].is_slowsync)
        /\ (q.sync_poll <=> client[c].sync_poll) /\ ~q.dead
        /\ (q.is_timebase <=> client[c].is_timebase)
    BY <1>3, <1>6, <2>1 DEF ClientControl, SamePolls
  <2> HIDE DEF r, ab, q
  <2>7. r.client[c] = q /\ (\A d \in Callers \ {c} : r.client[d] = client[d])
        /\ r.client \in [Callers -> ClientControl]
    BY <1>6, <2>1, <2>3, <2>6
  <2>8. ctl \in Control
    BY WhatIsKept
  <2>9. r.ctl \in Control /\ r.ctl.state = ctl.state /\ r.ctl.master = ctl.master
        /\ (r.ctl.aborted <=> ab) /\ r.ctl.sync_clients = n
        /\ r.ctl.sync_remain = ctl.sync_remain
    <3> HIDE DEF n
    <3> QED
      BY <2>2, <2>5, <2>8 DEF Control
  <2>10. SamePosition(r, Now)
    BY <2>2, <2>8, WhatIsKept DEF Control, SamePosition
  <2>11. Typed(r)
    BY <2>4, <2>7, <2>9 DEF Typed
  <2> QED
    BY <2>5, <2>6, <2>7, <2>9, <2>10, <2>11
<1> HIDE DEF r
<1>8. /\ Typed(t) /\ SamePosition(t, Now) /\ t.ctl.master = ctl.master
      /\ (t.client[c].is_slowsync <=> client[c].is_slowsync) /\ ~t.client[c].dead
      /\ (t.client[c].is_timebase <=> client[c].is_timebase)
      /\ (\A d \in Callers \ {c} : t.client[d] = client[d])
  <2>1. CASE client[c].is_slowsync
    <3>1. t = jack_sync_poll_new(r, c)
      BY <1>3, <1>6, <2>1 DEF SamePolls
    <3> HIDE DEF t
    <3> QED
      BY <1>7, <3>1, PollNewWrites DEF SamePosition
  <2>2. CASE ~client[c].is_slowsync
    <3>1. t = s
      BY <1>3, <1>6, <2>2 DEF SamePolls
    <3> HIDE DEF t
    <3> QED
      BY <1>3, <1>6, <3>1, WhatIsKept DEF SamePosition, SamePolls
  <2> QED
    BY <2>1, <2>2
<1>9. IF client[c].is_slowsync
      THEN /\ t.ctl.state = (IF ctl.state = "Rolling" THEN "Starting" ELSE ctl.state)
           /\ (t.ctl.aborted <=> client[c].active_slowsync)
           /\ t.ctl.sync_clients = ctl.sync_clients + 1
           /\ t.ctl.sync_remain = (IF client[c].sync_poll THEN ctl.sync_remain
                                                          ELSE ctl.sync_remain + 1)
           /\ t.client[c].sync_poll /\ t.client[c].active_slowsync
      ELSE /\ t.ctl = ctl
           /\ (t.client[c].active_slowsync <=> client[c].active_slowsync)
           /\ (t.client[c].sync_poll <=> client[c].sync_poll)
  <2>1. CASE client[c].is_slowsync
    <3>1. t = jack_sync_poll_new(r, c)
      BY <1>3, <1>6, <2>1 DEF SamePolls
    <3> HIDE DEF t
    <3> QED
      BY <1>7, <2>1, <3>1, PollNewWrites
  <2>2. CASE ~client[c].is_slowsync
    <3>1. t = s
      BY <1>3, <1>6, <2>2 DEF SamePolls
    <3> HIDE DEF t
    <3> QED
      BY <1>3, <1>6, <2>2, <3>1 DEF SamePolls
  <2> QED
    BY <2>1, <2>2
<1> HIDE DEF t
<1>10. /\ u.ctl = t.ctl /\ Typed(u)
       /\ SamePolls(u.client[c], t.client[c])
       /\ (u.client[c].is_timebase <=> t.client[c].is_timebase)
       /\ (u.client[c].dead <=> t.client[c].dead)
       /\ (\A d \in Callers \ {c} : u.client[d] = t.client[d])
  <2> DEFINE new == t.client[c].timebase_new \/ t.client[c].is_timebase
             q == [t.client[c] EXCEPT !.timebase_new = new]
  <2>1. t \in [ctl : Control, client : [Callers -> ClientControl]]
        /\ t.client[c] \in ClientControl
        /\ t.ctl \in Control /\ t.client \in [Callers -> ClientControl]
    BY <1>8 DEF Typed
  <2>2. new \in BOOLEAN
    BY <2>1 DEF ClientControl
  <2>3. q \in ClientControl /\ SamePolls(q, t.client[c])
        /\ (q.is_timebase <=> t.client[c].is_timebase) /\ (q.dead <=> t.client[c].dead)
    <3> HIDE DEF new
    <3> QED
      BY <2>1, <2>2 DEF ClientControl, SamePolls
  <2>4. u.ctl = t.ctl /\ u.client = [t.client EXCEPT ![c] = q]
    BY <2>1
  <2>5. u = [ctl |-> u.ctl, client |-> u.client]
    BY <2>1
  <2> HIDE DEF q, u
  <2>6. u.client[c] = q /\ (\A d \in Callers \ {c} : u.client[d] = t.client[d])
        /\ u.client \in [Callers -> ClientControl]
    BY <2>1, <2>3, <2>4
  <2> QED
    BY <2>1, <2>3, <2>4, <2>5, <2>6 DEF Typed
<1> HIDE DEF u
<1>11. SamePosition(u, Now) /\ u.ctl.master = ctl.master
       /\ (u.client[c].is_slowsync <=> client[c].is_slowsync) /\ ~u.client[c].dead
       /\ (u.client[c].is_timebase <=> client[c].is_timebase)
       /\ \A d \in Callers \ {c} : u.client[d] = client[d]
  BY <1>8, <1>10 DEF SamePosition, SamePolls
<1>12. FlagsOK(u.client)
  BY <1>2, <1>9, <1>10, <1>11, WhatIsKept DEF FlagsOK, SamePolls
<1>13. MasterKnown(u)
  <2> SUFFICES ASSUME NEW d \in Callers
               PROVE  /\ u.client[d].is_timebase <=> u.ctl.master = d
                      /\ u.ctl.master = d => ~u.client[d].dead
    BY DEF MasterKnown
  <2>1. (client[d].is_timebase <=> ctl.master = d) /\ (ctl.master = d => ~client[d].dead)
    BY WhatIsKept DEF MasterKnown
  <2>2. CASE d = c
    BY <1>11, <2>1, <2>2
  <2>3. CASE d # c
    BY <1>11, <2>1, <2>3
  <2> QED
    BY <2>2, <2>3
<1>14. b.old = answer.old /\ b.raced = answer.raced /\ b.ready = answer.ready \ cs
       /\ (cs = {} => (b.timed_out = answer.timed_out))
  BY WhatIsKept, NewPollLeaves DEF Answers, NewPoll
<1>15. Kept(u, b)
  <2>1. CASE client[c].is_slowsync
    <3>1. cs = {c}
      BY <2>1
    <3> HIDE DEF b, cs
    <3>2. /\ u.ctl.state = (IF ctl.state = "Rolling" THEN "Starting" ELSE ctl.state)
          /\ (ctl.aborted => u.ctl.aborted)
          /\ (u.ctl.aborted \/ u.ctl.sync_clients =
                 IF client[c].active_slowsync THEN ctl.sync_clients ELSE ctl.sync_clients + 1)
          /\ u.ctl.sync_remain = (IF client[c].sync_poll THEN ctl.sync_remain
                                                         ELSE ctl.sync_remain + 1)
          /\ u.client[c].sync_poll /\ u.client[c].active_slowsync
      BY <1>2, <1>9, <1>10, <2>1 DEF SamePolls
    <3> QED
      BY <1>10, <1>11, <1>12, <1>13, <1>14, <3>1, <3>2, WhatIsKept, NewPollKeeps
  <2>2. CASE ~client[c].is_slowsync
    <3>1. cs = {}
      BY <2>2
    <3>2. \A d \in Callers : /\ u.client[d].sync_poll <=> client[d].sync_poll
                             /\ u.client[d].active_slowsync <=> client[d].active_slowsync
      BY <1>9, <1>10, <1>11, <2>2 DEF SamePolls
    <3>3. u.ctl = ctl
      BY <1>9, <1>10, <2>2
    <3> HIDE DEF b, cs
    <3>4. b.ready = answer.ready
      BY <1>14, <3>1
    <3> QED
      BY <1>10, <1>11, <1>12, <1>13, <1>14, <3>1, <3>2, <3>3, <3>4, WhatIsKept,
         QuietWriteKeeps
  <2> QED
    BY <2>1, <2>2
<1>16. Kept(jack_transport_activate(s, c), NewPoll(answer, cs))
       /\ jack_transport_activate(s, c).ctl.current = ctl.current
  BY <1>5, <1>11, <1>15, WhatIsKept DEF b, SamePosition
<1>17. cs \in SUBSET Callers
  OBVIOUS
<1> HIDE DEF cs
<1> QED
  BY <1>4, <1>16, <1>17, WritesKeep

LEMMA ResetSyncKeeps ==
    ASSUME TransportIInv, NEW c \in Callers, ResetSync(c), asks' \in 0 .. MaxAsks
    PROVE  TransportIInv' /\ ctl'.current = ctl.current
<1> DEFINE s == IF client[c].active_slowsync THEN jack_sync_poll_deactivate(Now, c) ELSE Now
           u == [s EXCEPT !.client[c].is_slowsync = FALSE]
           b == NewPoll(answer, {})
<1>1. Typed(s) /\ SamePosition(s, Now) /\ s.ctl.state = ctl.state
      /\ s.ctl.master = ctl.master
      /\ (s.client[c].dead <=> client[c].dead)
      /\ (s.client[c].is_timebase <=> client[c].is_timebase)
      /\ ~s.client[c].sync_poll /\ ~s.client[c].active_slowsync
      /\ \A d \in Callers \ {c} : s.client[d] = client[d]
  <2>1. CASE client[c].active_slowsync
    <3>1. s = jack_sync_poll_deactivate(Now, c)
      BY <2>1
    <3> HIDE DEF s
    <3> QED
      BY <3>1, WhatIsKept, DeactivateWrites
  <2>2. CASE ~client[c].active_slowsync
    <3>1. s = Now
      BY <2>2
    <3> HIDE DEF s
    <3> QED
      BY <2>2, <3>1, WhatIsKept DEF SamePosition, FlagsOK
  <2> QED
    BY <2>1, <2>2
<1>2. IF client[c].active_slowsync
      THEN /\ (ctl.aborted => s.ctl.aborted)
           /\ s.ctl.sync_clients = ctl.sync_clients - 1
           /\ s.ctl.sync_remain = IF client[c].sync_poll THEN ctl.sync_remain - 1
                                                         ELSE ctl.sync_remain
      ELSE s.ctl = ctl
  <2>1. CASE client[c].active_slowsync
    <3>1. s = jack_sync_poll_deactivate(Now, c)
      BY <2>1
    <3> HIDE DEF s
    <3> QED
      BY <2>1, <3>1, WhatIsKept, DeactivateWrites
  <2>2. CASE ~client[c].active_slowsync
    BY <2>2, WhatIsKept
  <2> QED
    BY <2>1, <2>2
<1>3. Writes(u, {}) /\ UNCHANGED <<thread, left, cycling>> /\ failed' \in SUBSET Callers
  BY WhatIsKept DEF ResetSync
<1> HIDE DEF s
<1>4. /\ u.ctl = s.ctl /\ Typed(u)
      /\ (u.client[c].dead <=> client[c].dead)
      /\ (u.client[c].is_timebase <=> client[c].is_timebase)
      /\ ~u.client[c].sync_poll /\ ~u.client[c].active_slowsync /\ ~u.client[c].is_slowsync
      /\ \A d \in Callers \ {c} : u.client[d] = client[d]
  <2> DEFINE q == [s.client[c] EXCEPT !.is_slowsync = FALSE]
  <2>1. s \in [ctl : Control, client : [Callers -> ClientControl]]
        /\ s.client[c] \in ClientControl
        /\ s.ctl \in Control /\ s.client \in [Callers -> ClientControl]
    BY <1>1 DEF Typed
  <2>2. q \in ClientControl /\ (q.dead <=> client[c].dead)
        /\ (q.is_timebase <=> client[c].is_timebase)
        /\ ~q.sync_poll /\ ~q.active_slowsync /\ ~q.is_slowsync
    BY <1>1, <2>1 DEF ClientControl
  <2>3. u.ctl = s.ctl /\ u.client = [s.client EXCEPT ![c] = q]
    BY <2>1
  <2>4. u = [ctl |-> u.ctl, client |-> u.client]
    <3> DEFINE f == [s.client EXCEPT ![c] = [s.client[c] EXCEPT !.is_slowsync = FALSE]]
    <3>1. u = [s EXCEPT !.client = f]
      OBVIOUS
    <3> HIDE DEF f, u
    <3> QED
      BY <2>1, <3>1
  <2> HIDE DEF q, u
  <2>5. u.client[c] = q /\ (\A d \in Callers \ {c} : u.client[d] = client[d])
        /\ u.client \in [Callers -> ClientControl]
    BY <1>1, <2>1, <2>2, <2>3
  <2> QED
    BY <2>1, <2>2, <2>3, <2>4, <2>5 DEF Typed
<1> HIDE DEF u
<1>5. FlagsOK(u.client)
  BY <1>4, WhatIsKept DEF FlagsOK
<1>6. MasterKnown(u)
  <2> SUFFICES ASSUME NEW d \in Callers
               PROVE  /\ u.client[d].is_timebase <=> u.ctl.master = d
                      /\ u.ctl.master = d => ~u.client[d].dead
    BY DEF MasterKnown
  <2>1. (client[d].is_timebase <=> ctl.master = d) /\ (ctl.master = d => ~client[d].dead)
    BY WhatIsKept DEF MasterKnown
  <2>2. CASE d = c
    BY <1>1, <1>4, <2>1, <2>2
  <2>3. CASE d # c
    BY <1>1, <1>4, <2>1, <2>3
  <2> QED
    BY <2>2, <2>3
<1>7. b.old = answer.old /\ b.raced = answer.raced
      /\ b.timed_out = answer.timed_out /\ b.ready = answer.ready
  BY AnswersWithoutPoll, WhatIsKept
<1>8. SamePosition(u, Now)
  BY <1>1, <1>4 DEF SamePosition
<1> HIDE DEF b
<1>9. Kept(u, b)
  <2>1. CASE client[c].active_slowsync
    <3>1. u.ctl.state = ctl.state /\ (ctl.aborted => u.ctl.aborted)
           /\ u.ctl.sync_clients = ctl.sync_clients - 1
           /\ u.ctl.sync_remain = IF client[c].sync_poll THEN ctl.sync_remain - 1
                                                         ELSE ctl.sync_remain
      BY <1>1, <1>2, <1>4, <2>1
    <3> QED
      BY <1>4, <1>5, <1>6, <1>7, <1>8, <2>1, <3>1, WhatIsKept, LeavingKeeps
  <2>2. CASE ~client[c].active_slowsync
    <3>1. \A d \in Callers : /\ u.client[d].sync_poll <=> client[d].sync_poll
                             /\ u.client[d].active_slowsync <=> client[d].active_slowsync
      BY <1>4, <2>2, WhatIsKept DEF FlagsOK
    <3>2. u.ctl = ctl
      BY <1>2, <1>4, <2>2
    <3> QED
      BY <1>4, <1>5, <1>6, <1>7, <1>8, <2>2, <3>1, <3>2, WhatIsKept, QuietWriteKeeps
  <2> QED
    BY <2>1, <2>2
<1> QED
  BY <1>3, <1>8, <1>9, WhatIsKept, WritesKeep DEF b, SamePosition

------------------------------------------------------------------------------
(* The clients' own steps.                                                   *)

LEMMA RestIsKept ==
    ASSUME TransportIInv, Kept([ctl |-> ctl', client |-> client'], answer'),
           answer' \in Answers, thread' \in [Callers -> Threads],
           left' \in SUBSET Callers, cycling' \in BOOLEAN, failed' \in SUBSET Callers,
           asks' \in 0 .. MaxAsks, StoringIsPolled'
    PROVE  TransportIInv'
<1>1. ctl' \in Control /\ client' \in [Callers -> ClientControl]
  BY DEF Kept
<1>2. TransportTypeOK'
  BY <1>1 DEF TransportTypeOK
<1> QED
  BY <1>2 DEF TransportIInv, Now

\* A step of the clients' that leaves the polls alone.
LEMMA QuietStepKeeps ==
    ASSUME TransportIInv, ctl' \in Control, client' \in [Callers -> ClientControl],
           answer' \in Answers,
           \E f, g : ctl' = [ctl EXCEPT !.cmd = f, !.request = g],
           \A c \in Callers : /\ SamePolls(client'[c], client[c])
                              /\ client'[c].dead <=> client[c].dead
                              /\ client'[c].is_timebase <=> client[c].is_timebase,
           answer'.old = answer.old, answer'.raced = answer.raced,
           answer'.timed_out = answer.timed_out, answer'.ready = answer.ready
    PROVE  Kept([ctl |-> ctl', client |-> client'], answer')
<1> DEFINE n == [ctl |-> ctl', client |-> client']
<1>1. n.ctl = ctl' /\ n.client = client' /\ Typed(n)
  BY DEF Typed
<1>2. /\ ctl'.state = ctl.state /\ ctl'.aborted = ctl.aborted
      /\ ctl'.sync_clients = ctl.sync_clients
      /\ ctl'.sync_remain = ctl.sync_remain /\ ctl'.master = ctl.master
      /\ ctl'.current = ctl.current /\ ctl'.pending = ctl.pending
      /\ ctl'.pending_pos = ctl.pending_pos /\ ctl'.new_pos = ctl.new_pos
  BY WhatIsKept DEF Control
<1> HIDE DEF n
<1>3. FlagsOK(n.client)
  BY <1>1, WhatIsKept DEF FlagsOK, SamePolls
<1>4. MasterKnown(n)
  BY <1>1, <1>2, WhatIsKept DEF MasterKnown
<1>5. SamePosition(n, Now)
  BY <1>1, <1>2, WhatIsKept DEF SamePosition
<1>6. \A c \in Callers : /\ n.client[c].sync_poll <=> client[c].sync_poll
                         /\ n.client[c].active_slowsync <=> client[c].active_slowsync
                         /\ n.client[c].active_slowsync /\ c \in answer.ready
                              => c \in answer'.ready
  BY <1>1 DEF SamePolls
<1>8. /\ n.ctl.state = Now.ctl.state /\ n.ctl.aborted = Now.ctl.aborted
      /\ n.ctl.sync_clients = Now.ctl.sync_clients
      /\ n.ctl.sync_remain = Now.ctl.sync_remain
  BY <1>1, <1>2, WhatIsKept
<1>7. Kept(n, answer')
  BY <1>1, <1>3, <1>4, <1>5, <1>6, <1>8, WhatIsKept, QuietWriteKeeps
<1> QED
  BY <1>7 DEF n

LEMMA NothingWritten ==
    ASSUME TransportIInv, UNCHANGED <<ctl, client>>, answer' \in Answers,
           answer'.old = answer.old, answer'.raced = answer.raced,
           answer'.timed_out = answer.timed_out, answer'.ready = answer.ready
    PROVE  Kept([ctl |-> ctl', client |-> client'], answer')
<1> DEFINE n == [ctl |-> ctl', client |-> client']
<1>1. n.ctl = ctl /\ n.client = client
  OBVIOUS
<1> HIDE DEF n
<1>2. Kept(n, answer')
  BY <1>1, WhatIsKept, NotedRaceKeeps
<1> QED
  BY <1>2 DEF n

LEMMA OthersTyped ==
    ASSUME TransportIInv
    PROVE  /\ thread \in [Callers -> Threads] /\ left \in SUBSET Callers
           /\ cycling \in BOOLEAN /\ failed \in SUBSET Callers /\ asks \in 0 .. MaxAsks
BY DEF TransportIInv, TransportTypeOK

LEMMA RenewKeeps ==
    ASSUME TransportIInv, NEW c \in Callers, Renew(c), asks' \in 0 .. MaxAsks
    PROVE  TransportIInv' /\ ctl'.current = ctl.current
<1> DEFINE n == [ctl |-> ctl', client |-> client']
<1>1. /\ n.ctl = ctl /\ client' = [client EXCEPT ![c] = NewClient] /\ n.client = client'
      /\ client[c].dead /\ thread' = [thread EXCEPT ![c] = "waiting"]
      /\ UNCHANGED <<ctl, left, cycling, failed>>
      /\ answer' = [answer EXCEPT !.stale = @ \ {c}, !.ready = @ \ {c}]
  BY DEF Renew
<1>2. NewClient \in ClientControl /\ ~NewClient.sync_poll /\ ~NewClient.active_slowsync
      /\ ~NewClient.dead /\ ~NewClient.is_timebase /\ ~NewClient.is_slowsync
  BY DEF NewClient, ClientControl
<1>3. client' \in [Callers -> ClientControl] /\ client'[c] = NewClient
      /\ \A d \in Callers \ {c} : client'[d] = client[d]
  BY <1>1, <1>2, WhatIsKept
<1>4. ~client[c].active_slowsync /\ ~client[c].sync_poll
  BY <1>1, WhatIsKept DEF FlagsOK
<1>5. answer' \in Answers /\ answer'.old = answer.old /\ answer'.raced = answer.raced
      /\ answer'.timed_out = answer.timed_out /\ answer'.ready = answer.ready \ {c}
  BY <1>1, WhatIsKept DEF Answers
<1>6. n.ctl = ctl /\ n.client = client' /\ Typed(n) /\ SamePosition(n, Now)
  BY <1>1, <1>3, WhatIsKept DEF Typed, SamePosition
<1> HIDE DEF n
<1>7. FlagsOK(n.client)
  BY <1>2, <1>3, <1>6, WhatIsKept DEF FlagsOK
<1>8. MasterKnown(n)
  <2> SUFFICES ASSUME NEW d \in Callers
               PROVE  /\ n.client[d].is_timebase <=> n.ctl.master = d
                      /\ n.ctl.master = d => ~n.client[d].dead
    BY DEF MasterKnown
  <2>1. (client[d].is_timebase <=> ctl.master = d) /\ (ctl.master = d => ~client[d].dead)
    BY WhatIsKept DEF MasterKnown
  <2>2. CASE d = c
    BY <1>1, <1>2, <1>3, <1>6, <2>1, <2>2
  <2>3. CASE d # c
    BY <1>3, <1>6, <2>1, <2>3
  <2> QED
    BY <2>2, <2>3
<1>9. \A d \in Callers :
         /\ n.client[d].sync_poll <=> client[d].sync_poll
         /\ n.client[d].active_slowsync <=> client[d].active_slowsync
         /\ n.client[d].active_slowsync /\ d \in answer.ready => d \in answer'.ready
  BY <1>2, <1>3, <1>4, <1>5, <1>6
<1>10. Kept(n, answer')
  BY <1>5, <1>6, <1>7, <1>8, <1>9, WhatIsKept, QuietWriteKeeps
<1>11. thread' \in [Callers -> Threads]
  BY <1>1, OthersTyped DEF Threads
<1>12. StoringIsPolled'
  BY <1>1, <1>3, <1>5, OthersTyped DEF StoringIsPolled, TransportIInv
<1> QED
  BY <1>1, <1>5, <1>10, <1>11, <1>12, OthersTyped, RestIsKept DEF n

LEMMA CommandKeeps ==
    ASSUME TransportIInv, asks' \in 0 .. MaxAsks,
           \/ \E cmd \in {"Start", "Stop"} : Command(cmd)
           \/ \E frame \in Frames : Locate(frame)
    PROVE  TransportIInv' /\ ctl'.current = ctl.current
<1>1. ctl' \in Control /\ \E f, g : ctl' = [ctl EXCEPT !.cmd = f, !.request = g]
  <2>0. ctl \in Control
    BY WhatIsKept
  <2>1. CASE \E cmd \in {"Start", "Stop"} : Command(cmd)
    <3>1. PICK cmd \in {"Start", "Stop"} : ctl' = [ctl EXCEPT !.cmd = cmd]
      BY <2>1 DEF Command
    <3>2. ctl' \in Control
      BY <2>0, <3>1 DEF Control
    <3>3. ctl' = [ctl EXCEPT !.cmd = cmd, !.request = ctl.request]
      BY <2>0, <3>1 DEF Control
    <3> QED
      BY <3>2, <3>3
  <2>2. CASE \E frame \in Frames : Locate(frame)
    <3>1. PICK frame \in Frames : ctl' = [ctl EXCEPT !.request = frame]
      BY <2>2 DEF Locate
    <3>2. ctl' \in Control
      BY <2>0, <3>1 DEF Control
    <3>3. ctl' = [ctl EXCEPT !.cmd = ctl.cmd, !.request = frame]
      BY <2>0, <3>1 DEF Control
    <3> QED
      BY <3>2, <3>3
  <2> QED
    BY <2>1, <2>2
<1>2. UNCHANGED <<client, thread, left, cycling, failed, answer>>
  BY DEF Command, Locate
<1>3. Kept([ctl |-> ctl', client |-> client'], answer')
  BY <1>1, <1>2, WhatIsKept, QuietStepKeeps DEF SamePolls
<1>4. StoringIsPolled'
  BY <1>2 DEF StoringIsPolled, TransportIInv
<1>5. ctl'.current = ctl.current
  BY <1>1, WhatIsKept DEF Control
<1> QED
  BY <1>2, <1>3, <1>4, <1>5, WhatIsKept, OthersTyped, RestIsKept

LEMMA CallsSyncKeeps ==
    ASSUME TransportIInv, NEW c \in Callers, CallsSync(c), asks' = asks
    PROVE  TransportIInv' /\ ctl'.current = ctl.current
<1>1. /\ UNCHANGED <<ctl, client, left, cycling, failed>>
      /\ answer' = [answer EXCEPT !.stale = @ \ {c}]
      /\ thread' \in [Callers -> Threads] /\ thread'[c] # "storing"
      /\ \A d \in Callers \ {c} : thread'[d] = thread[d]
  BY OthersTyped DEF CallsSync, Threads
<1>2. answer' \in Answers /\ answer'.old = answer.old /\ answer'.raced = answer.raced
      /\ answer'.timed_out = answer.timed_out /\ answer'.ready = answer.ready
  BY <1>1, WhatIsKept DEF Answers
<1>3. Kept([ctl |-> ctl', client |-> client'], answer')
  BY <1>1, <1>2, NothingWritten
<1>4. StoringIsPolled'
  BY <1>1, <1>2 DEF StoringIsPolled, TransportIInv
<1> QED
  BY <1>1, <1>2, <1>3, <1>4, OthersTyped, RestIsKept

LEMMA SyncAnswersKeeps ==
    ASSUME TransportIInv, NEW c \in Callers, NEW ready \in BOOLEAN,
           SyncAnswers(c, ready), asks' = asks
    PROVE  TransportIInv' /\ ctl'.current = ctl.current
<1>1. UNCHANGED <<ctl, left, cycling, failed, answer>>
  BY DEF SyncAnswers
<1>2. thread' \in [Callers -> Threads]
      /\ (thread'[c] = "storing" => client[c].sync_poll)
      /\ \A d \in Callers \ {c} : thread'[d] = thread[d]
  BY OthersTyped DEF SyncAnswers, Threads
<1>3. client' \in [Callers -> ClientControl]
      /\ \A d \in Callers : /\ SamePolls(client'[d], client[d])
                            /\ client'[d].dead <=> client[d].dead
                            /\ client'[d].is_timebase <=> client[d].is_timebase
  <2>1. CASE client' = client
    BY <2>1, WhatIsKept DEF SamePolls
  <2>2. CASE client' = [client EXCEPT ![c].sync_new = FALSE]
    BY <2>2, WhatIsKept DEF SamePolls, ClientControl
  <2> QED
    BY <2>1, <2>2 DEF SyncAnswers
<1>4. \E f, g : ctl' = [ctl EXCEPT !.cmd = f, !.request = g]
  <2>1. ctl' = [ctl EXCEPT !.cmd = ctl.cmd, !.request = ctl.request]
    BY <1>1, WhatIsKept DEF Control
  <2> QED
    BY <2>1
<1>5. Kept([ctl |-> ctl', client |-> client'], answer')
  BY <1>1, <1>3, <1>4, WhatIsKept, QuietStepKeeps
<1>6. StoringIsPolled'
  BY <1>1, <1>2, <1>3 DEF StoringIsPolled, TransportIInv, SamePolls
<1> QED
  BY <1>1, <1>2, <1>5, <1>6, WhatIsKept, OthersTyped, RestIsKept

LEMMA FinishesKeeps ==
    ASSUME TransportIInv, NEW c \in Callers, Finishes(c), asks' = asks
    PROVE  TransportIInv' /\ ctl'.current = ctl.current
<1>1. UNCHANGED <<ctl, cycling, failed, answer>> /\ left' = left \ {c}
  BY DEF Finishes
<1>2. thread' \in [Callers -> Threads] /\ thread'[c] # "storing"
      /\ \A d \in Callers \ {c} : thread'[d] = thread[d]
  BY OthersTyped DEF Finishes, Threads
<1>3. client' \in [Callers -> ClientControl]
      /\ \A d \in Callers : /\ SamePolls(client'[d], client[d])
                            /\ client'[d].dead <=> client[d].dead
                            /\ client'[d].is_timebase <=> client[d].is_timebase
  <2> DEFINE new == client[c].timebase_new /\ ~client[c].is_timebase
             q == [client[c] EXCEPT !.timebase_new = new]
  <2>1. client \in [Callers -> ClientControl] /\ client[c] \in ClientControl
    BY WhatIsKept
  <2>2. client' = [client EXCEPT ![c] = q]
    BY <2>1 DEF Finishes
  <2>3. new \in BOOLEAN
    BY <2>1 DEF ClientControl
  <2>4. q \in ClientControl /\ SamePolls(q, client[c]) /\ (q.dead <=> client[c].dead)
        /\ (q.is_timebase <=> client[c].is_timebase)
    <3> HIDE DEF new
    <3> QED
      BY <2>1, <2>3 DEF ClientControl, SamePolls
  <2> HIDE DEF q
  <2> QED
    BY <2>1, <2>2, <2>4 DEF SamePolls
<1>4. \E f, g : ctl' = [ctl EXCEPT !.cmd = f, !.request = g]
  <2>1. ctl' = [ctl EXCEPT !.cmd = ctl.cmd, !.request = ctl.request]
    BY <1>1, WhatIsKept DEF Control
  <2> QED
    BY <2>1
<1>5. Kept([ctl |-> ctl', client |-> client'], answer')
  BY <1>1, <1>3, <1>4, WhatIsKept, QuietStepKeeps
<1>6. StoringIsPolled'
  BY <1>1, <1>2, <1>3 DEF StoringIsPolled, TransportIInv, SamePolls
<1> QED
  BY <1>1, <1>2, <1>5, <1>6, WhatIsKept, OthersTyped, RestIsKept

LEMMA CycleStepsKeep ==
    ASSUME TransportIInv, asks' = asks,
           CycleStarts \/ GivesUp \/ \E c \in Callers : WakesClient(c)
    PROVE  TransportIInv' /\ ctl'.current = ctl.current
<1>1. UNCHANGED <<ctl, client, answer>>
  BY DEF CycleStarts, GivesUp, WakesClient
<1>2. /\ left' \in SUBSET Callers /\ cycling' \in BOOLEAN /\ failed' \in SUBSET Callers
      /\ thread' \in [Callers -> Threads]
      /\ \A c \in Callers : thread'[c] = "storing" => thread[c] = "storing"
  BY OthersTyped DEF CycleStarts, GivesUp, WakesClient, Threads
<1>3. Kept([ctl |-> ctl', client |-> client'], answer')
  BY <1>1, WhatIsKept, NothingWritten
<1>4. StoringIsPolled'
  BY <1>1, <1>2 DEF StoringIsPolled, TransportIInv
<1> QED
  BY <1>1, <1>2, <1>3, <1>4, WhatIsKept, OthersTyped, RestIsKept

LEMMA StoresReadyKeeps ==
    ASSUME TransportIInv, NEW c \in Callers, StoresReady(c), asks' = asks
    PROVE  TransportIInv' /\ ctl'.current = ctl.current
<1> DEFINE n == [ctl |-> ctl', client |-> client']
           q == [client[c] EXCEPT !.sync_poll = FALSE, !.sync_new = FALSE]
<1>1. /\ thread[c] = "storing" /\ UNCHANGED <<left, cycling, failed>>
      /\ ctl' = [ctl EXCEPT !.sync_remain = @ - 1]
      /\ answer' = [answer EXCEPT !.ready = @ \cup {c}, !.old = @ \/ c \in answer.stale]
      /\ thread' = [thread EXCEPT ![c] = "processing"]
  BY DEF StoresReady
<1>2. client[c] \in ClientControl /\ client' = [client EXCEPT ![c] = q]
  BY WhatIsKept DEF StoresReady
<1>3. q \in ClientControl /\ ~q.sync_poll
      /\ (q.active_slowsync <=> client[c].active_slowsync)
      /\ (q.is_slowsync <=> client[c].is_slowsync) /\ (q.dead <=> client[c].dead)
      /\ (q.is_timebase <=> client[c].is_timebase)
  BY <1>2 DEF ClientControl
<1> HIDE DEF q
<1>4. client' \in [Callers -> ClientControl] /\ client'[c] = q
      /\ \A d \in Callers \ {c} : client'[d] = client[d]
  BY <1>2, <1>3, WhatIsKept
<1>5. /\ ctl' \in Control /\ ctl'.sync_remain = ctl.sync_remain - 1
      /\ ctl'.state = ctl.state /\ ctl'.aborted = ctl.aborted
      /\ ctl'.sync_clients = ctl.sync_clients /\ ctl'.master = ctl.master
      /\ ctl'.current = ctl.current /\ ctl'.pending = ctl.pending
      /\ ctl'.pending_pos = ctl.pending_pos /\ ctl'.new_pos = ctl.new_pos
  BY <1>1, WhatIsKept DEF Control
<1>6. answer' \in Answers /\ answer'.ready = answer.ready \cup {c}
      /\ (answer.old => answer'.old) /\ answer'.raced = answer.raced
      /\ answer'.timed_out = answer.timed_out
  <2> DEFINE o == answer.old \/ c \in answer.stale
  <2>1. answer \in Answers /\ o \in BOOLEAN /\ (answer.old => o)
    BY WhatIsKept DEF Answers
  <2>2. answer' = [answer EXCEPT !.ready = @ \cup {c}, !.old = o]
    BY <1>1, <2>1 DEF Answers
  <2> HIDE DEF o
  <2> QED
    BY <2>1, <2>2 DEF Answers
<1>7. n.ctl = ctl' /\ n.client = client'
  OBVIOUS
<1> HIDE DEF n
<1>8. FlagsOK(n.client)
  BY <1>3, <1>4, <1>7, WhatIsKept DEF FlagsOK
<1>9. MasterKnown(n)
  <2> SUFFICES ASSUME NEW d \in Callers
               PROVE  /\ n.client[d].is_timebase <=> n.ctl.master = d
                      /\ n.ctl.master = d => ~n.client[d].dead
    BY DEF MasterKnown
  <2>1. (client[d].is_timebase <=> ctl.master = d) /\ (ctl.master = d => ~client[d].dead)
    BY WhatIsKept DEF MasterKnown
  <2>2. CASE d = c
    BY <1>3, <1>4, <1>5, <1>7, <2>1, <2>2
  <2>3. CASE d # c
    BY <1>4, <1>5, <1>7, <2>1, <2>3
  <2> QED
    BY <2>2, <2>3
<1>10. SlowOf(n.client) = SlowOf(client)
  BY <1>3, <1>4, <1>7 DEF SlowOf
<1>11. SlowCounted(n)
  BY <1>5, <1>7, <1>10, WhatIsKept DEF Kept, SlowCounted
<1>12. ~answer.raced => client[c].sync_poll /\ client[c].active_slowsync
  BY <1>1, WhatIsKept DEF TransportIInv, StoringIsPolled, FlagsOK
<1>13. ~answer'.raced => PollsCounted(n)
  <2> SUFFICES ASSUME ~answer.raced PROVE PollsCounted(n)
    BY <1>6
  <2>1. Polled(n.client) = Polled(client) \ {c} /\ c \in Polled(client)
    BY <1>3, <1>4, <1>7, <1>12 DEF Polled
  <2>2. Cardinality(Polled(n.client)) = Cardinality(Polled(client)) - 1
    BY <2>1, OneFewer DEF Polled
  <2> QED
    BY <1>5, <1>7, <2>2, WhatIsKept DEF Kept, PollsCounted
<1>14. Heard(n, answer')
  BY <1>3, <1>4, <1>5, <1>6, <1>7, WhatIsKept DEF Kept, Heard
<1>15. NobodyPolled(n, answer')
  BY <1>3, <1>4, <1>5, <1>6, <1>7, WhatIsKept DEF Kept, NobodyPolled
<1>16. Synced(n) /\ Following(n.ctl)
  BY <1>3, <1>4, <1>5, <1>7, WhatIsKept DEF Kept, Synced, Following
<1>17. Kept(n, answer')
  BY <1>4, <1>5, <1>7, <1>8, <1>9, <1>11, <1>13, <1>14, <1>15, <1>16 DEF Kept
<1>18. thread' \in [Callers -> Threads]
  BY <1>1, OthersTyped DEF Threads
<1>19. StoringIsPolled'
  BY <1>1, <1>4, <1>6, OthersTyped DEF StoringIsPolled, TransportIInv
<1> QED
  BY <1>1, <1>5, <1>6, <1>17, <1>18, <1>19, OthersTyped, RestIsKept DEF n

------------------------------------------------------------------------------
(* The end of a cycle.                                                       *)

\* All flags of all clients but sync_poll.
SameButPolls(t, s) ==
    \A c \in Callers :
        /\ t.client[c].active_slowsync <=> s.client[c].active_slowsync
        /\ t.client[c].is_slowsync <=> s.client[c].is_slowsync
        /\ t.client[c].dead <=> s.client[c].dead
        /\ t.client[c].is_timebase <=> s.client[c].is_timebase

LEMMA PollStaysTyped ==
    ASSUME NEW x \in Control, NEW ab \in BOOLEAN, NEW m \in Int, NEW rest \in 0 .. SyncTimeout
    PROVE  [x EXCEPT !.aborted = ab, !.sync_remain = m, !.time_left = rest] \in Control
BY DEF Control

LEMMA PollStopWrites ==
    ASSUME NEW s, Typed(s), FlagsOK(s.client)
    PROVE  LET t == jack_sync_poll_stop(s)
           IN  /\ Typed(t) /\ SamePosition(t, s) /\ SameButPolls(t, s)
               /\ t.ctl.state = s.ctl.state /\ (s.ctl.aborted => t.ctl.aborted)
               /\ t.ctl.sync_clients = s.ctl.sync_clients /\ t.ctl.sync_remain = 0
               /\ t.ctl.master = s.ctl.master /\ t.ctl.request = s.ctl.request
               /\ \A c \in Callers : ~t.client[c].sync_poll
<1> DEFINE t == jack_sync_poll_stop(s)
           ab == s.ctl.aborted \/ Cardinality(Polled(s.client)) # s.ctl.sync_remain
           poll(c) == s.client[c].sync_poll /\ c \notin Polled(s.client)
           q(c) == [s.client[c] EXCEPT !.sync_poll = poll(c)]
<1>1. s.ctl \in Control /\ s.client \in [Callers -> ClientControl]
  BY DEF Typed
<1>2. t.ctl = [s.ctl EXCEPT !.aborted = ab, !.sync_remain = 0, !.time_left = 0]
  BY DEF jack_sync_poll_stop
<1>3. t.client = [c \in Callers |-> q(c)]
  BY <1>1 DEF jack_sync_poll_stop
<1>4. t = [ctl |-> t.ctl, client |-> t.client]
  BY DEF jack_sync_poll_stop
<1>5. ASSUME NEW c \in Callers
      PROVE  /\ q(c) \in ClientControl /\ ~q(c).sync_poll
             /\ (q(c).active_slowsync <=> s.client[c].active_slowsync)
             /\ (q(c).is_slowsync <=> s.client[c].is_slowsync)
             /\ (q(c).dead <=> s.client[c].dead)
             /\ (q(c).is_timebase <=> s.client[c].is_timebase)
  <2>1. s.client[c] \in ClientControl
    BY <1>1
  <2>2. poll(c) = FALSE
    BY DEF Polled, FlagsOK
  <2> HIDE DEF poll
  <2> QED
    BY <2>1, <2>2 DEF ClientControl
<1> HIDE DEF q, t
<1>6. t.client \in [Callers -> ClientControl]
  BY <1>3, <1>5
<1>7. SameButPolls(t, s) /\ \A c \in Callers : ~t.client[c].sync_poll
  BY <1>3, <1>5 DEF SameButPolls
<1>8. ab \in BOOLEAN /\ (s.ctl.aborted => ab) /\ 0 \in 0 .. SyncTimeout
  BY <1>1, TransportAssumption DEF Control
<1> HIDE DEF ab
<1>9. t.ctl \in Control
  <2> DEFINE none == 0
  <2>1. t.ctl = [s.ctl EXCEPT !.aborted = ab, !.sync_remain = none, !.time_left = none]
    BY <1>2
  <2>2. none \in Int /\ none \in 0 .. SyncTimeout
    BY <1>8
  <2> HIDE DEF none
  <2>3. [s.ctl EXCEPT !.aborted = ab, !.sync_remain = none, !.time_left = none] \in Control
    BY <1>1, <1>8, <2>2, PollStaysTyped
  <2> QED
    BY <2>1, <2>3
<1>10. /\ (t.ctl.aborted <=> ab) /\ t.ctl.sync_clients = s.ctl.sync_clients
       /\ t.ctl.sync_remain = 0 /\ t.ctl.state = s.ctl.state /\ t.ctl.master = s.ctl.master
       /\ t.ctl.request = s.ctl.request /\ SamePosition(t, s)
  BY <1>1, <1>2, <1>8 DEF Control, SamePosition
<1>11. Typed(t)
  BY <1>4, <1>6, <1>9 DEF Typed
<1> QED
  BY <1>7, <1>8, <1>10, <1>11 DEF t

LEMMA PollStartWrites ==
    ASSUME NEW s, Typed(s), FlagsOK(s.client)
    PROVE  LET t == jack_sync_poll_start(s)
           IN  /\ Typed(t) /\ SamePosition(t, s) /\ SameButPolls(t, s)
               /\ t.ctl.state = s.ctl.state /\ (s.ctl.aborted => t.ctl.aborted)
               /\ t.ctl.sync_clients = s.ctl.sync_clients
               /\ t.ctl.sync_remain = Cardinality(SlowOf(s.client))
               /\ t.ctl.master = s.ctl.master /\ t.ctl.request = s.ctl.request
               /\ \A c \in Callers : t.client[c].sync_poll <=> s.client[c].active_slowsync
<1> DEFINE t == jack_sync_poll_start(s)
           slow == SlowOf(s.client)
           n == Cardinality(slow)
           ab == s.ctl.aborted \/ n # s.ctl.sync_clients
           poll(c) == s.client[c].sync_poll \/ c \in slow
           q(c) == [s.client[c] EXCEPT !.sync_poll = poll(c)]
<1>1. s.ctl \in Control /\ s.client \in [Callers -> ClientControl]
  BY DEF Typed
<1>2. t.ctl = [s.ctl EXCEPT !.aborted = ab, !.sync_remain = n, !.time_left = SyncTimeout]
  BY DEF jack_sync_poll_start, SlowOf
<1>3. t.client = [c \in Callers |-> q(c)]
  BY <1>1 DEF jack_sync_poll_start, SlowOf
<1>4. t = [ctl |-> t.ctl, client |-> t.client]
  BY DEF jack_sync_poll_start
<1>5. ASSUME NEW c \in Callers
      PROVE  /\ q(c) \in ClientControl /\ (q(c).sync_poll <=> s.client[c].active_slowsync)
             /\ (q(c).active_slowsync <=> s.client[c].active_slowsync)
             /\ (q(c).is_slowsync <=> s.client[c].is_slowsync)
             /\ (q(c).dead <=> s.client[c].dead)
             /\ (q(c).is_timebase <=> s.client[c].is_timebase)
  <2>1. s.client[c] \in ClientControl
    BY <1>1
  <2>2. poll(c) \in BOOLEAN /\ (poll(c) <=> s.client[c].active_slowsync)
    BY <2>1 DEF SlowOf, FlagsOK, ClientControl
  <2> HIDE DEF poll
  <2> QED
    BY <2>1, <2>2 DEF ClientControl
<1> HIDE DEF q, t
<1>6. t.client \in [Callers -> ClientControl]
  BY <1>3, <1>5
<1>7. SameButPolls(t, s)
      /\ \A c \in Callers : t.client[c].sync_poll <=> s.client[c].active_slowsync
  BY <1>3, <1>5 DEF SameButPolls
<1>8. ab \in BOOLEAN /\ (s.ctl.aborted => ab) /\ SyncTimeout \in 0 .. SyncTimeout
      /\ n \in Int
  BY <1>1, TransportAssumption, SomeCallersAreFinite DEF Control, SlowOf
<1> HIDE DEF ab, n
<1>9. t.ctl \in Control
  <2>1. [s.ctl EXCEPT !.aborted = ab, !.sync_remain = n, !.time_left = SyncTimeout] \in Control
    BY <1>1, <1>8, PollStaysTyped
  <2> QED
    BY <1>2, <2>1
<1>10. /\ (t.ctl.aborted <=> ab) /\ t.ctl.sync_clients = s.ctl.sync_clients
       /\ t.ctl.sync_remain = n /\ t.ctl.state = s.ctl.state /\ t.ctl.master = s.ctl.master
       /\ t.ctl.request = s.ctl.request /\ SamePosition(t, s)
  BY <1>1, <1>2, <1>8 DEF Control, SamePosition
<1>11. Typed(t)
  BY <1>4, <1>6, <1>9 DEF Typed
<1> QED
  BY <1>7, <1>8, <1>10, <1>11 DEF t, n

\* What Promoted and CheckSync make of the engine's structure, up to the switch.
LEMMA CheckSyncWrites ==
    ASSUME NEW x \in Control
    PROVE  LET y == CheckSync(Promoted(x))
           IN  /\ y \in Control
               /\ y.current = x.pending /\ y.pending = x.pending
               /\ y.new_pos = x.pending_pos
               /\ y.aborted = x.aborted /\ y.master = x.master
               /\ y.sync_clients = x.sync_clients /\ y.sync_remain = x.sync_remain
               /\ y.state = (IF x.state = "Starting" /\ (x.sync_remain = 0 \/ TimedOut(x))
                             THEN "Rolling" ELSE x.state)
<1> DEFINE p == Promoted(x)
           y == CheckSync(p)
           rest == IF TimedOut(p) THEN 0 ELSE p.time_left - 1
           st == IF TimedOut(p) THEN "Rolling" ELSE p.state
<1>1. p = [x EXCEPT !.current = x.pending, !.new_pos = x.pending_pos]
  BY DEF Promoted
<1> HIDE DEF p
<1>2. /\ p \in Control /\ p.current = x.pending /\ p.pending = x.pending
      /\ p.new_pos = x.pending_pos
      /\ p.aborted = x.aborted /\ p.master = x.master
      /\ p.sync_clients = x.sync_clients /\ p.sync_remain = x.sync_remain
      /\ p.state = x.state /\ p.time_left = x.time_left
  BY <1>1 DEF Control
<1>3. CASE p.state # "Starting"
  BY <1>2, <1>3 DEF CheckSync, p
<1>4. CASE p.state = "Starting" /\ p.sync_remain = 0
  <2>1. y = [p EXCEPT !.state = "Rolling"]
    BY <1>4 DEF CheckSync
  <2> HIDE DEF y
  <2>2. y \in Control /\ y.current = p.current /\ y.pending = p.pending
        /\ y.new_pos = p.new_pos /\ y.aborted = p.aborted /\ y.master = p.master
        /\ y.sync_clients = p.sync_clients /\ y.sync_remain = p.sync_remain
        /\ y.state = "Rolling"
    BY <1>2, <2>1 DEF Control, States
  <2> QED
    BY <1>2, <1>4, <2>2 DEF y, p
<1>5. CASE p.state = "Starting" /\ p.sync_remain # 0
  <2>1. y = [p EXCEPT !.time_left = rest, !.state = st]
    BY <1>2, <1>5 DEF CheckSync, jack_sync_timeout, Control
  <2>2. rest \in 0 .. SyncTimeout /\ st \in States
    BY <1>2, TransportAssumption DEF Control, States, TimedOut
  <2> HIDE DEF y, rest, st
  <2>3. y \in Control /\ y.current = p.current /\ y.pending = p.pending
        /\ y.new_pos = p.new_pos /\ y.aborted = p.aborted /\ y.master = p.master
        /\ y.sync_clients = p.sync_clients /\ y.sync_remain = p.sync_remain
        /\ y.state = st
    BY <1>2, <2>1, <2>2 DEF Control
  <2>4. TimedOut(p) <=> TimedOut(x)
    BY <1>2 DEF TimedOut
  <2> QED
    BY <1>2, <1>5, <2>3, <2>4 DEF y, p, st
<1> QED
  BY <1>3, <1>4, <1>5

\* The last step of jack_transport_cycle_end: what is pending.
LEMMA RequestedWrites ==
    ASSUME NEW x \in Control
    PROVE  LET moved == IF x.state = "Rolling" THEN (x.current + 1) % FrameCount ELSE x.pending
               y == Requested([x EXCEPT !.pending = moved])
           IN  /\ y \in Control /\ (y.pending_pos \/ y.pending = moved)
               /\ y.current = x.current /\ y.new_pos = x.new_pos
               /\ y.aborted = x.aborted /\ y.master = x.master
               /\ y.sync_clients = x.sync_clients /\ y.sync_remain = x.sync_remain
               /\ y.state = x.state
<1> DEFINE moved == IF x.state = "Rolling" THEN (x.current + 1) % FrameCount ELSE x.pending
           z == [x EXCEPT !.pending = moved]
           y == Requested(z)
<1>1. (x.current + 1) % FrameCount \in Frames
  BY TransportAssumption DEF Control, Frames
<1>2. moved \in Frames
  BY <1>1 DEF Control
<1> HIDE DEF moved
<1>3. z \in Control /\ z.pending = moved /\ z.current = x.current /\ z.new_pos = x.new_pos
      /\ z.aborted = x.aborted /\ z.master = x.master
      /\ z.sync_clients = x.sync_clients /\ z.sync_remain = x.sync_remain
      /\ z.state = x.state
  BY <1>2 DEF Control
<1> HIDE DEF z
<1>4. CASE z.request = -1
  <2>1. y = [z EXCEPT !.pending_pos = FALSE]
    BY <1>4 DEF Requested
  <2> HIDE DEF y
  <2>2. y \in Control /\ y.pending = z.pending /\ y.current = z.current
        /\ y.new_pos = z.new_pos /\ y.aborted = z.aborted /\ y.master = z.master
        /\ y.sync_clients = z.sync_clients /\ y.sync_remain = z.sync_remain
        /\ y.state = z.state
    BY <1>3, <2>1 DEF Control
  <2> QED
    BY <1>3, <2>2 DEF y, z, moved
<1>5. CASE z.request # -1
  <2> DEFINE none == -1
  <2>1. y = [z EXCEPT !.pending = z.request, !.request = none, !.pending_pos = TRUE]
    BY <1>5 DEF Requested
  <2>2. z.request \in Frames /\ none \in Frames \cup {-1}
    BY <1>3, <1>5 DEF Control
  <2> HIDE DEF y, none
  <2>3. y \in Control /\ y.pending_pos /\ y.current = z.current
        /\ y.new_pos = z.new_pos /\ y.aborted = z.aborted /\ y.master = z.master
        /\ y.sync_clients = z.sync_clients /\ y.sync_remain = z.sync_remain
        /\ y.state = z.state
    BY <1>3, <2>1, <2>2 DEF Control
  <2> QED
    BY <1>3, <2>3 DEF y, z, moved
<1> QED
  BY <1>4, <1>5

\* The conditions of the transition switch, and what each of its branches writes.
Stops(x, cmd) == cmd = "Stop" /\ x.state # "Stopped"
GoesAway(x, cmd) ==
    (x.state = "Stopped" /\ cmd = "Start") \/ (x.state # "Stopped" /\ x.new_pos)

LEMMA TransitionWrites ==
    ASSUME NEW g, NEW cmd, Typed(g), FlagsOK(g.client)
    PROVE  LET t == Transition(g, cmd)
           IN  /\ Typed(t) /\ SamePosition(t, g) /\ SameButPolls(t, g)
               /\ g.ctl.aborted => t.ctl.aborted
               /\ t.ctl.sync_clients = g.ctl.sync_clients
               /\ t.ctl.master = g.ctl.master
               /\ \/ /\ Stops(g.ctl, cmd)
                     /\ t.ctl.state = "Stopped" /\ t.ctl.sync_remain = 0
                     /\ IF g.ctl.sync_remain # 0
                        THEN \A c \in Callers : ~t.client[c].sync_poll
                        ELSE t.client = g.client
                  \/ /\ ~Stops(g.ctl, cmd) /\ GoesAway(g.ctl, cmd) /\ g.ctl.sync_clients # 0
                     /\ t.ctl.state = "Starting"
                     /\ t.ctl.sync_remain = Cardinality(SlowOf(g.client))
                     /\ \A c \in Callers : t.client[c].sync_poll <=> g.client[c].active_slowsync
                  \/ /\ ~Stops(g.ctl, cmd) /\ GoesAway(g.ctl, cmd) /\ g.ctl.sync_clients = 0
                     /\ t.ctl.state = "Rolling" /\ t.client = g.client
                     /\ t.ctl.sync_remain = g.ctl.sync_remain
                  \/ ~Stops(g.ctl, cmd) /\ ~GoesAway(g.ctl, cmd) /\ t = g
<1> DEFINE t == Transition(g, cmd)
           Turns(state) == [g EXCEPT !.ctl.state = state]
<1>1. g \in [ctl : Control, client : [Callers -> ClientControl]]
  BY DEF Typed
<1>2. ASSUME NEW st \in States
      PROVE  LET v == Turns(st)
             IN  /\ Typed(v) /\ SamePosition(v, g) /\ SameButPolls(v, g) /\ FlagsOK(v.client)
                 /\ v.client = g.client /\ v.ctl.aborted = g.ctl.aborted
                 /\ v.ctl.sync_clients = g.ctl.sync_clients
                 /\ v.ctl.sync_remain = g.ctl.sync_remain
                 /\ v.ctl.master = g.ctl.master /\ v.ctl.state = st
  <2> DEFINE v == Turns(st)
             x == [g.ctl EXCEPT !.state = st]
  <2>1. v.ctl = x /\ v.client = g.client
    BY <1>1
  <2>2. v = [ctl |-> v.ctl, client |-> v.client]
    <3>1. v = [g EXCEPT !.ctl = x]
      OBVIOUS
    <3> HIDE DEF v, x
    <3> QED
      BY <1>1, <3>1
  <2>3. x \in Control /\ x.aborted = g.ctl.aborted /\ x.sync_clients = g.ctl.sync_clients
        /\ x.sync_remain = g.ctl.sync_remain /\ x.master = g.ctl.master /\ x.state = st
        /\ x.current = g.ctl.current /\ x.pending = g.ctl.pending
        /\ x.pending_pos = g.ctl.pending_pos /\ x.new_pos = g.ctl.new_pos
    BY <1>1 DEF Control
  <2> HIDE DEF v, x
  <2>4. Typed(v) /\ SamePosition(v, g) /\ SameButPolls(v, g)
    BY <1>1, <2>1, <2>2, <2>3 DEF Typed, SamePosition, SameButPolls
  <2> QED
    BY <2>1, <2>3, <2>4 DEF v
<1>3. "Stopped" \in States /\ "Starting" \in States /\ "Rolling" \in States
  BY DEF States
<1>4. CASE Stops(g.ctl, cmd) /\ g.ctl.sync_remain # 0
  <2> DEFINE v == Turns("Stopped")
  <2>1. t = jack_sync_poll_stop(v)
    BY <1>4 DEF Transition, Stops
  <2>2. /\ Typed(v) /\ SamePosition(v, g) /\ SameButPolls(v, g) /\ FlagsOK(v.client)
        /\ v.ctl.aborted = g.ctl.aborted /\ v.ctl.sync_clients = g.ctl.sync_clients
        /\ v.ctl.master = g.ctl.master /\ v.ctl.state = "Stopped"
    BY <1>2, <1>3
  <2> HIDE DEF v, t
  <2>3. /\ Typed(t) /\ SamePosition(t, v) /\ SameButPolls(t, v)
        /\ t.ctl.state = v.ctl.state /\ (v.ctl.aborted => t.ctl.aborted)
        /\ t.ctl.sync_clients = v.ctl.sync_clients /\ t.ctl.sync_remain = 0
        /\ t.ctl.master = v.ctl.master
        /\ \A c \in Callers : ~t.client[c].sync_poll
    BY <2>1, <2>2, PollStopWrites
  <2>4. SamePosition(t, g) /\ SameButPolls(t, g)
    BY <2>2, <2>3 DEF SamePosition, SameButPolls
  <2> QED
    BY <1>4, <2>2, <2>3, <2>4 DEF t
<1>5. CASE Stops(g.ctl, cmd) /\ g.ctl.sync_remain = 0
  <2> DEFINE v == Turns("Stopped")
  <2>1. t = v
    BY <1>5 DEF Transition, Stops
  <2>2. /\ Typed(v) /\ SamePosition(v, g) /\ SameButPolls(v, g) /\ v.client = g.client
        /\ v.ctl.aborted = g.ctl.aborted /\ v.ctl.sync_clients = g.ctl.sync_clients
        /\ v.ctl.sync_remain = g.ctl.sync_remain
        /\ v.ctl.master = g.ctl.master /\ v.ctl.state = "Stopped"
    BY <1>2, <1>3
  <2> HIDE DEF v, t
  <2> QED
    BY <1>5, <2>1, <2>2 DEF t
<1>6. CASE ~Stops(g.ctl, cmd) /\ GoesAway(g.ctl, cmd) /\ g.ctl.sync_clients # 0
  <2> DEFINE v == Turns("Starting")
  <2>1. t = jack_sync_poll_start(v)
    BY <1>6 DEF Transition, Stops, GoesAway
  <2>2. /\ Typed(v) /\ SamePosition(v, g) /\ SameButPolls(v, g) /\ FlagsOK(v.client)
        /\ v.client = g.client /\ v.ctl.aborted = g.ctl.aborted
        /\ v.ctl.sync_clients = g.ctl.sync_clients
        /\ v.ctl.master = g.ctl.master /\ v.ctl.state = "Starting"
    BY <1>2, <1>3
  <2> HIDE DEF v, t
  <2>3. /\ Typed(t) /\ SamePosition(t, v) /\ SameButPolls(t, v)
        /\ t.ctl.state = v.ctl.state /\ (v.ctl.aborted => t.ctl.aborted)
        /\ t.ctl.sync_clients = v.ctl.sync_clients
        /\ t.ctl.sync_remain = Cardinality(SlowOf(v.client))
        /\ t.ctl.master = v.ctl.master
        /\ \A c \in Callers : t.client[c].sync_poll <=> v.client[c].active_slowsync
    BY <2>1, <2>2, PollStartWrites
  <2>4. SamePosition(t, g) /\ SameButPolls(t, g)
    BY <2>2, <2>3 DEF SamePosition, SameButPolls
  <2> QED
    BY <1>6, <2>2, <2>3, <2>4 DEF t
<1>7. CASE ~Stops(g.ctl, cmd) /\ GoesAway(g.ctl, cmd) /\ g.ctl.sync_clients = 0
  <2> DEFINE v == Turns("Rolling")
  <2>1. t = v
    BY <1>7 DEF Transition, Stops, GoesAway
  <2>2. /\ Typed(v) /\ SamePosition(v, g) /\ SameButPolls(v, g) /\ v.client = g.client
        /\ v.ctl.aborted = g.ctl.aborted /\ v.ctl.sync_clients = g.ctl.sync_clients
        /\ v.ctl.sync_remain = g.ctl.sync_remain
        /\ v.ctl.master = g.ctl.master /\ v.ctl.state = "Rolling"
    BY <1>2, <1>3
  <2> HIDE DEF v, t
  <2> QED
    BY <1>7, <2>1, <2>2 DEF t
<1>8. CASE ~Stops(g.ctl, cmd) /\ ~GoesAway(g.ctl, cmd)
  <2>1. t = g
    BY <1>8 DEF Transition, Stops, GoesAway
  <2>2. SamePosition(g, g) /\ SameButPolls(g, g)
    BY DEF SamePosition, SameButPolls
  <2> HIDE DEF t
  <2> QED
    BY <1>8, <2>1, <2>2 DEF t
<1> HIDE DEF t
<1> QED
  BY <1>4, <1>5, <1>6, <1>7, <1>8 DEF t

LEMMA CycleEndsKeeps ==
    ASSUME TransportIInv, CycleEnds, asks' = asks
    PROVE  /\ TransportIInv'
           /\ \/ ctl'.current \in {ctl.current, (ctl.current + 1) % FrameCount}
              \/ ctl'.new_pos
<1> DEFINE before == CheckSync(Promoted(ctl))
           cmd == IF before.cmd # before.previous THEN before.cmd ELSE "None"
           y == [before EXCEPT !.previous = before.cmd]
           g == [Now EXCEPT !.ctl = y]
           t == Transition(g, cmd)
           moved == IF t.ctl.state = "Rolling" THEN (t.ctl.current + 1) % FrameCount
                                               ELSE t.ctl.pending
           w == [t EXCEPT !.ctl = Requested([t.ctl EXCEPT !.pending = moved])]
           polls == /\ w.ctl.state = "Starting"
                    /\ w.ctl.new_pos \/ ctl.state = "Stopped"
           out == /\ ctl.state = "Starting"
                  /\ ctl.sync_remain # 0
                  /\ w.ctl.state = "Rolling"
           a == [answer EXCEPT !.timed_out = @ \/ out]
           b == IF polls THEN NewPoll(a, Callers) ELSE a
           n == [ctl |-> ctl', client |-> client']
<1>1. jack_transport_cycle_end(Now) = w
  BY DEF jack_transport_cycle_end, Now
<1>2. /\ ctl' = w.ctl /\ client' = w.client
      /\ answer' = [b EXCEPT !.raced = @ \/ Overtakes(w.client)]
      /\ cycling' = FALSE /\ UNCHANGED <<thread, left, failed>>
  <2>1. LET s == jack_transport_cycle_end(Now)
            ps == /\ s.ctl.state = "Starting"
                  /\ s.ctl.new_pos \/ ctl.state = "Stopped"
            os == /\ ctl.state = "Starting"
                  /\ ctl.sync_remain # 0
                  /\ s.ctl.state = "Rolling"
            as == [answer EXCEPT !.timed_out = @ \/ os]
        IN  /\ ctl' = s.ctl
            /\ client' = s.client
            /\ answer' =
                [(IF ps THEN NewPoll(as, Callers) ELSE as) EXCEPT
                   !.raced = @ \/ Overtakes(s.client)]
    BY DEF CycleEnds
  <2>2. cycling' = FALSE /\ UNCHANGED <<thread, left, failed>>
    BY DEF CycleEnds
  <2> HIDE DEF w
  <2> QED
    BY <1>1, <2>1, <2>2
<1>3. /\ y \in Control
      /\ y.current = ctl.pending /\ y.pending = ctl.pending
      /\ y.new_pos = ctl.pending_pos
      /\ y.aborted = ctl.aborted /\ y.master = ctl.master
      /\ y.sync_clients = ctl.sync_clients /\ y.sync_remain = ctl.sync_remain
      /\ y.state = (IF ctl.state = "Starting" /\ (ctl.sync_remain = 0 \/ TimedOut(ctl))
                    THEN "Rolling" ELSE ctl.state)
  <2>1. /\ before \in Control
        /\ before.current = ctl.pending /\ before.pending = ctl.pending
        /\ before.new_pos = ctl.pending_pos
        /\ before.aborted = ctl.aborted /\ before.master = ctl.master
        /\ before.sync_clients = ctl.sync_clients /\ before.sync_remain = ctl.sync_remain
        /\ before.state = (IF ctl.state = "Starting" /\ (ctl.sync_remain = 0 \/ TimedOut(ctl))
                           THEN "Rolling" ELSE ctl.state)
    BY WhatIsKept, CheckSyncWrites
  <2> HIDE DEF before
  <2>2. /\ y \in Control /\ y.current = before.current /\ y.pending = before.pending
        /\ y.new_pos = before.new_pos /\ y.aborted = before.aborted
        /\ y.master = before.master /\ y.sync_clients = before.sync_clients
        /\ y.sync_remain = before.sync_remain /\ y.state = before.state
    BY <2>1 DEF Control
  <2> HIDE DEF y
  <2> QED
    BY <2>1, <2>2
<1> HIDE DEF before, cmd, y
<1>4. Typed(g) /\ g.ctl = y /\ g.client = client
  <2>1. Now = [ctl |-> ctl, client |-> client]
    BY DEF Now
  <2>2. g = [ctl |-> y, client |-> client]
    BY <2>1
  <2> QED
    BY <1>3, <2>2, WhatIsKept DEF Typed
<1> HIDE DEF g
<1>5. /\ Typed(t) /\ SamePosition(t, g) /\ SameButPolls(t, g)
      /\ y.aborted => t.ctl.aborted
      /\ t.ctl.sync_clients = y.sync_clients
      /\ t.ctl.master = y.master
      /\ \/ /\ Stops(y, cmd)
            /\ t.ctl.state = "Stopped" /\ t.ctl.sync_remain = 0
            /\ IF y.sync_remain # 0
               THEN \A c \in Callers : ~t.client[c].sync_poll
               ELSE t.client = client
         \/ /\ ~Stops(y, cmd) /\ GoesAway(y, cmd) /\ y.sync_clients # 0
            /\ t.ctl.state = "Starting"
            /\ t.ctl.sync_remain = Cardinality(SlowOf(client))
            /\ \A c \in Callers : t.client[c].sync_poll <=> client[c].active_slowsync
         \/ /\ ~Stops(y, cmd) /\ GoesAway(y, cmd) /\ y.sync_clients = 0
            /\ t.ctl.state = "Rolling" /\ t.client = client
            /\ t.ctl.sync_remain = y.sync_remain
         \/ ~Stops(y, cmd) /\ ~GoesAway(y, cmd) /\ t = g
  BY <1>4, WhatIsKept, TransitionWrites
<1> HIDE DEF t
<1>6. /\ w.client = t.client /\ w.ctl \in Control
      /\ (w.ctl.pending_pos \/ w.ctl.pending = moved)
      /\ w.ctl.current = t.ctl.current /\ w.ctl.new_pos = t.ctl.new_pos
      /\ w.ctl.aborted = t.ctl.aborted /\ w.ctl.master = t.ctl.master
      /\ w.ctl.sync_clients = t.ctl.sync_clients /\ w.ctl.sync_remain = t.ctl.sync_remain
      /\ w.ctl.state = t.ctl.state
  <2>1. t \in [ctl : Control, client : [Callers -> ClientControl]]
    BY <1>5 DEF Typed
  <2>2. w.client = t.client /\ w.ctl = Requested([t.ctl EXCEPT !.pending = moved])
    BY <2>1
  <2>3. t.ctl \in Control
    BY <2>1
  <2> HIDE DEF w
  <2> QED
    BY <2>2, <2>3, RequestedWrites
<1> HIDE DEF w
<1>7. b \in Answers /\ b.old = answer.old /\ b.raced = answer.raced
      /\ (~polls => b.ready = answer.ready /\ (b.timed_out <=> answer.timed_out \/ out))
  <2>1. answer \in Answers /\ out \in BOOLEAN
    BY WhatIsKept
  <2> HIDE DEF out
  <2>2. a \in Answers /\ a.old = answer.old /\ a.raced = answer.raced
        /\ a.ready = answer.ready /\ (a.timed_out <=> answer.timed_out \/ out)
    <3> DEFINE late == answer.timed_out \/ out
    <3>1. late \in BOOLEAN /\ a = [answer EXCEPT !.timed_out = late]
      BY <2>1 DEF Answers
    <3> HIDE DEF late, a
    <3>2. a \in Answers /\ a.old = answer.old /\ a.raced = answer.raced
          /\ a.ready = answer.ready /\ a.timed_out = late
      BY <2>1, <3>1 DEF Answers
    <3> QED
      BY <3>2 DEF late
  <2> HIDE DEF a
  <2>3. NewPoll(a, Callers) \in Answers /\ NewPoll(a, Callers).old = a.old
        /\ NewPoll(a, Callers).raced = a.raced
    BY <2>2 DEF NewPoll, Answers
  <2> QED
    BY <2>2, <2>3
<1>8. SamePosition(t, g) /\ t.ctl.current = ctl.pending /\ t.ctl.pending = ctl.pending
      /\ t.ctl.new_pos = y.new_pos
  BY <1>3, <1>4, <1>5 DEF SamePosition
<1>9. \A c \in Callers :
         /\ w.client[c].active_slowsync <=> client[c].active_slowsync
         /\ w.client[c].is_slowsync <=> client[c].is_slowsync
         /\ w.client[c].dead <=> client[c].dead
         /\ w.client[c].is_timebase <=> client[c].is_timebase
  BY <1>4, <1>5, <1>6 DEF SameButPolls
<1>10. \A c \in Callers : w.client[c].sync_poll => client[c].active_slowsync
  BY <1>4, <1>5, <1>6, WhatIsKept DEF FlagsOK
<1>11. FlagsOK(w.client)
  BY <1>9, <1>10, WhatIsKept DEF FlagsOK
<1>12. MasterKnown(w)
  BY <1>3, <1>5, <1>6, <1>9, WhatIsKept DEF MasterKnown
<1>13. SlowOf(w.client) = SlowOf(client)
  BY <1>9 DEF SlowOf
<1>14. ~w.ctl.aborted => ctl.sync_clients = Cardinality(SlowOf(client)) /\ ~ctl.aborted
  BY <1>3, <1>5, <1>6, WhatIsKept DEF Kept, SlowCounted
<1>15. SlowCounted(w)
  BY <1>3, <1>5, <1>6, <1>13, <1>14 DEF SlowCounted
<1>16. ~w.ctl.aborted /\ ~answer.raced => ctl.sync_remain = Cardinality(Polled(client))
  BY <1>14, WhatIsKept DEF Kept, PollsCounted
<1>17. (\A c \in Callers : w.client[c].sync_poll <=> client[c].sync_poll)
          => Polled(w.client) = Polled(client)
  BY <1>9 DEF Polled
<1>18. ~b.raced => PollsCounted(w)
  <2> SUFFICES ASSUME ~answer.raced, ~w.ctl.aborted
               PROVE  w.ctl.sync_remain = Cardinality(Polled(w.client))
    BY <1>7 DEF PollsCounted
  <2>1. CASE \A c \in Callers : ~w.client[c].sync_poll
    <3>1. Polled(w.client) = {}
      BY <2>1 DEF Polled
    <3>2. Cardinality(Polled(w.client)) = 0
      BY <3>1, FS_EmptySet
    <3>3. Polled(client) \in SUBSET Callers
      BY DEF Polled
    <3>4. (\A c \in Callers : ~client[c].sync_poll) => ctl.sync_remain = 0
      <4> SUFFICES ASSUME \A c \in Callers : ~client[c].sync_poll PROVE ctl.sync_remain = 0
        OBVIOUS
      <4>1. Polled(client) = {}
        BY DEF Polled
      <4> QED
        BY <1>16, <4>1, FS_EmptySet
    <3>5. (\A c \in Callers : ~client[c].active_slowsync) => Cardinality(SlowOf(client)) = 0
      <4> SUFFICES ASSUME \A c \in Callers : ~client[c].active_slowsync
                   PROVE  Cardinality(SlowOf(client)) = 0
        OBVIOUS
      <4>1. SlowOf(client) = {}
        BY DEF SlowOf
      <4> QED
        BY <4>1, FS_EmptySet
    <3> QED
      BY <1>3, <1>4, <1>5, <1>6, <2>1, <3>2, <3>4, <3>5
  <2>2. CASE t.client = client /\ t.ctl.sync_remain = ctl.sync_remain
    BY <1>6, <1>16, <1>17, <2>2
  <2>3. CASE /\ t.ctl.sync_remain = Cardinality(SlowOf(client))
             /\ \A c \in Callers : t.client[c].sync_poll <=> client[c].active_slowsync
    <3>1. Polled(w.client) = SlowOf(client)
      BY <1>6, <1>9, <2>3 DEF Polled, SlowOf
    <3> QED
      BY <1>6, <2>3, <3>1
  <2> QED
    BY <1>3, <1>4, <1>5, <1>6, <2>1, <2>2, <2>3
<1>19. SlowOf(client) \in SUBSET Callers /\ Polled(client) \in SUBSET Callers
  BY DEF SlowOf, Polled
<1>20. ~w.ctl.aborted /\ y.sync_clients = 0 => \A c \in Callers : ~client[c].active_slowsync
  <2> SUFFICES ASSUME ~w.ctl.aborted, y.sync_clients = 0
               PROVE  \A c \in Callers : ~client[c].active_slowsync
    OBVIOUS
  <2>1. SlowOf(client) = {}
    BY <1>3, <1>14, <1>19, NoneIsZero
  <2> QED
    BY <2>1 DEF SlowOf
<1>21. ~w.ctl.aborted /\ ~answer.raced /\ ctl.sync_remain = 0
          => \A c \in Callers : ~client[c].sync_poll
  <2> SUFFICES ASSUME ~w.ctl.aborted, ~answer.raced, ctl.sync_remain = 0
               PROVE  \A c \in Callers : ~client[c].sync_poll
    OBVIOUS
  <2>1. Polled(client) = {}
    BY <1>16, <1>19, NoneIsZero
  <2> QED
    BY <2>1, WhatIsKept DEF Polled, FlagsOK
<1>22. t = g => ~polls \/ GoesAway(y, cmd)
  BY <1>3, <1>4, <1>6, <1>8 DEF GoesAway
<1>23. Heard(w, b)
  <2> SUFFICES ASSUME w.ctl.state # "Stopped", ~w.ctl.aborted, ~b.old, ~b.raced,
                      NEW c \in Callers, w.client[c].active_slowsync
               PROVE  w.client[c].sync_poll \/ c \in b.ready
    BY DEF Heard
  <2>1. CASE t = g /\ ~GoesAway(y, cmd)
    <3>1. b.ready = answer.ready
      BY <1>7, <1>22, <2>1
    <3>2. ctl.state # "Stopped"
      BY <1>3, <1>4, <1>6, <2>1
    <3> QED
      BY <1>4, <1>6, <1>7, <1>9, <1>14, <2>1, <3>1, <3>2, WhatIsKept DEF Kept, Heard
  <2> QED
    BY <1>5, <1>6, <1>9, <1>20, <2>1
<1>24. NobodyPolled(w, b)
  <2> SUFFICES ASSUME w.ctl.state = "Rolling", ~w.ctl.aborted, ~b.timed_out, ~b.raced,
                      NEW c \in Callers
               PROVE  ~w.client[c].sync_poll
    BY DEF NobodyPolled
  <2>1. ~polls
    OBVIOUS
  <2>2. ~answer.timed_out /\ ~out /\ ~answer.raced
    BY <1>7, <2>1
  <2>3. CASE t = g
    <3>1. CASE ctl.state = "Starting"
      BY <1>4, <1>6, <1>21, <2>2, <2>3, <3>1
    <3>2. CASE ctl.state # "Starting"
      BY <1>3, <1>4, <1>6, <1>14, <2>2, <2>3, <3>2, WhatIsKept DEF Kept, NobodyPolled
    <3> QED
      BY <3>1, <3>2
  <2> QED
    BY <1>5, <1>6, <1>10, <1>20, <2>3
<1>25. Synced(w)
  BY <1>4, <1>5, <1>6, <1>8, <1>9, <1>20 DEF Synced, GoesAway
<1>26. Following(w.ctl)
  BY <1>6, <1>8 DEF Following
<1>27. Kept(w, b)
  BY <1>5, <1>6, <1>11, <1>12, <1>15, <1>18, <1>23, <1>24, <1>25, <1>26 DEF Kept, Typed
<1> HIDE DEF b, polls, out
<1>28. answer' \in Answers /\ answer'.old = b.old /\ answer'.ready = b.ready
       /\ answer'.timed_out = b.timed_out
       /\ (~answer'.raced => ~b.raced /\ ~Overtakes(w.client))
  <2> DEFINE r == b.raced \/ Overtakes(w.client)
  <2>1. r \in BOOLEAN /\ answer' = [b EXCEPT !.raced = r]
    BY <1>2, <1>7 DEF Answers, Overtakes
  <2> HIDE DEF r
  <2>2. answer' \in Answers /\ answer'.old = b.old /\ answer'.ready = b.ready
        /\ answer'.timed_out = b.timed_out /\ answer'.raced = r
    BY <1>7, <2>1 DEF Answers
  <2> QED
    BY <2>2 DEF r
<1>29. n.ctl = w.ctl /\ n.client = w.client
  BY <1>2
<1> HIDE DEF n
<1>30. Kept(n, answer')
  BY <1>27, <1>28, <1>29, NotedRaceKeeps
<1>31. StoringIsPolled'
  BY <1>2, <1>28 DEF StoringIsPolled, Overtakes
<1>32. ctl'.current \in {ctl.current, (ctl.current + 1) % FrameCount} \/ ctl'.new_pos
  BY <1>2, <1>3, <1>6, <1>8, WhatIsKept DEF Kept, Following
<1> QED
  BY <1>2, <1>28, <1>30, <1>31, <1>32, OthersTyped, RestIsKept DEF n

------------------------------------------------------------------------------
(* Every behaviour.                                                          *)

LEMMA TransportStarts == TransportInit => TransportIInv
<1> SUFFICES ASSUME TransportInit PROVE TransportIInv
  OBVIOUS
<1>1. ctl \in Control /\ ctl.state = "Stopped" /\ ~ctl.aborted
      /\ ctl.sync_clients = 0 /\ ctl.sync_remain = 0 /\ ctl.master = NoClient
      /\ ctl.current = 0 /\ ctl.pending = 0
  BY TransportAssumption DEF TransportInit, Control, States, Frames
<1>2. NewClient \in ClientControl /\ ~NewClient.sync_poll /\ ~NewClient.active_slowsync
      /\ ~NewClient.dead /\ ~NewClient.is_timebase /\ ~NewClient.is_slowsync
  BY DEF NewClient, ClientControl
<1>3. client \in [Callers -> ClientControl] /\ \A c \in Callers : client[c] = NewClient
  BY <1>2 DEF TransportInit
<1>4. answer \in Answers
  BY DEF TransportInit, Answers
<1>5. TransportTypeOK
  <2>1. thread \in [Callers -> Threads]
    BY DEF TransportInit, Threads
  <2>2. left \in SUBSET Callers /\ cycling \in BOOLEAN /\ failed \in SUBSET Callers
    BY DEF TransportInit
  <2>3. asks \in 0 .. MaxAsks
    BY TransportAssumption DEF TransportInit
  <2> QED
    BY <1>1, <1>3, <1>4, <2>1, <2>2, <2>3 DEF TransportTypeOK
<1>6. StoringIsPolled
  BY DEF TransportInit, StoringIsPolled
<1>7. Now.ctl = ctl /\ Now.client = client
  BY DEF Now
<1>8. Polled(client) = {} /\ SlowOf(client) = {}
  BY <1>2, <1>3 DEF Polled, SlowOf
<1>9. SlowCounted(Now) /\ PollsCounted(Now)
  BY <1>1, <1>7, <1>8, FS_EmptySet DEF SlowCounted, PollsCounted
<1>10. FlagsOK(client) /\ MasterKnown(Now)
  BY <1>1, <1>2, <1>3, <1>7, TransportAssumption DEF FlagsOK, MasterKnown
<1>11. Heard(Now, answer) /\ NobodyPolled(Now, answer) /\ Synced(Now) /\ Following(ctl)
  BY <1>1, <1>7 DEF Heard, NobodyPolled, Synced, Following
<1>12. Kept(Now, answer)
  BY <1>1, <1>3, <1>7, <1>9, <1>10, <1>11 DEF Kept
<1> QED
  BY <1>5, <1>6, <1>12 DEF TransportIInv

LEMMA TransportStepKeeps ==
    ASSUME TransportIInv, [TransportNext]_transportVars
    PROVE  /\ TransportIInv'
           /\ \/ ctl'.current \in {ctl.current, (ctl.current + 1) % FrameCount}
              \/ ctl'.new_pos
<1>1. CASE Asks
  <2>1. asks' \in 0 .. MaxAsks
    BY <1>1, OthersTyped, TransportAssumption DEF Asks
  <2>2. CASE \E c \in Callers :
               \/ SetSync(c) \/ ResetSync(c) \/ Activate(c) \/ Deactivate(c)
               \/ \E conditional \in BOOLEAN : SetTimebase(c, conditional)
               \/ Zombify(c) \/ Renew(c)
    BY <2>1, <2>2, SetSyncKeeps, ResetSyncKeeps, ActivateKeeps, DeactivateKeeps,
       SetTimebaseKeeps, ZombifyKeeps, RenewKeeps
  <2>3. CASE ReleaseTimebase
    BY <2>1, <2>3, ReleaseTimebaseKeeps
  <2>4. CASE \/ \E cmd \in {"Start", "Stop"} : Command(cmd)
             \/ \E frame \in Frames : Locate(frame)
    BY <2>1, <2>4, CommandKeeps
  <2> QED
    BY <1>1, <2>2, <2>3, <2>4 DEF Asks
<1>2. CASE Cycle
  BY <1>2, CycleStepsKeep, CycleEndsKeeps DEF Cycle
<1>3. CASE RemovesFailed
  <2>1. PICK c \in failed : Zombify(c) /\ asks' = asks
    BY <1>3 DEF RemovesFailed
  <2> QED
    BY <2>1, OthersTyped, ZombifyKeeps
<1>4. CASE Runs
  <2>1. PICK c \in Callers :
             /\ asks' = asks
             /\ \/ WakesClient(c) \/ CallsSync(c) \/ StoresReady(c) \/ Finishes(c)
                \/ \E ready \in BOOLEAN : SyncAnswers(c, ready)
    BY <1>4 DEF Runs
  <2> QED
    BY <2>1, CycleStepsKeep, CallsSyncKeeps, StoresReadyKeeps, FinishesKeeps,
       SyncAnswersKeeps
<1>5. CASE UNCHANGED transportVars
  <2>1. UNCHANGED <<ctl, client, thread, left, cycling, failed, asks, answer>>
    BY <1>5 DEF transportVars
  <2>2. Kept([ctl |-> ctl', client |-> client'], answer')
    BY <2>1, WhatIsKept, NothingWritten
  <2>3. StoringIsPolled'
    BY <2>1 DEF StoringIsPolled, TransportIInv
  <2> QED
    BY <2>1, <2>2, <2>3, WhatIsKept, OthersTyped, RestIsKept
<1> QED
  BY <1>1, <1>2, <1>3, <1>4, <1>5 DEF TransportNext

LEMMA TransportIsKept == TransportIInv => TransportInv
<1> SUFFICES ASSUME TransportIInv PROVE TransportInv
  OBVIOUS
<1>1. Kept(Now, answer) /\ TransportTypeOK /\ Now.ctl = ctl /\ Now.client = client
  BY WhatIsKept DEF TransportIInv
<1>2. Slow = SlowOf(client)
  BY DEF Slow, SlowOf
<1>3. SyncCountsMatch
  BY <1>1, <1>2 DEF SyncCountsMatch, Kept, SlowCounted, PollsCounted
<1>4. RollsWhenReady
  BY <1>1 DEF RollsWhenReady, Kept, Heard, NobodyPolled, Slow
<1>5. NewPositionIsSynced
  BY <1>1 DEF NewPositionIsSynced, Kept, Synced, Slow
<1>6. MasterIsAlive
  BY <1>1 DEF MasterIsAlive, Kept, MasterKnown
<1> QED
  BY <1>1, <1>3, <1>4, <1>5, <1>6 DEF TransportInv

\* transengine.c, with any number of clients, any sync_timeout and any interleaving
\* of the server, the cycle and the clients' threads: the counters of slow-sync
\* clients are those of their flags, nothing rolls before everybody answered or time
\* ran out, no position is played unasked, and the master is a living client.
THEOREM TransportStaysRight == TransportSpec => []TransportInv
<1>1. TransportInit => TransportIInv
  BY TransportStarts
<1>2. TransportIInv /\ [TransportNext]_transportVars => TransportIInv'
  BY TransportStepKeeps
<1>3. TransportIInv => TransportInv
  BY TransportIsKept
<1> QED
  BY <1>1, <1>2, <1>3, PTL DEF TransportSpec

\* jack_transport_cycle_end: from one cycle to the next the position moves on by a
\* period or is announced as new, however requests, clients and cycles interleave.
THEOREM PositionMovesAreAnnounced == TransportSpec => MovesAreAnnounced
<1>1. TransportInit => TransportIInv
  BY TransportStarts
<1>2. TransportIInv /\ [TransportNext]_transportVars => TransportIInv'
  BY TransportStepKeeps
<1>3. TransportIInv /\ [TransportNext]_transportVars
        => [ctl'.current \in {ctl.current, (ctl.current + 1) % FrameCount}
            \/ ctl'.new_pos]_transportVars
  BY TransportStepKeeps
<1> QED
  BY <1>1, <1>2, <1>3, PTL DEF TransportSpec, MovesAreAnnounced
==============================================================================
