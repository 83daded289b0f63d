------------------------------ MODULE JackOpen -------------------------------
(* Opening a client: finding the server or starting one, asking it for a       *)
(* place, attaching what it shares and connecting for its events               *)
(* (libjack/client.c), against servers that register, bind their sockets, load  *)
(* their driver, end with their last client or are killed (jackd/jackd.c,       *)
(* jackd/engine.c, jackd/clientengine.c). All use one server name.             *)
EXTENDS Naturals, FiniteSets

CONSTANTS
    Openers,            \* processes that open a client, once each
    User,               \* the server somebody starts by hand; others are started by the opener of their name
    NoStart,            \* openers with JackNoStartServer
    MaxTries,           \* attempts to connect to a server that was started; 5 in the source
    Nobody

Servers == Openers \cup {User}

ASSUME OpenAssumption ==
    User \notin Openers /\ NoStart \subseteq Openers /\ MaxTries \in Nat /\ Nobody \notin Servers

VARIABLES
    opAt,           \* "idle", "waiting", "requesting", "attaching", "acking", "open", "failed", "closed"
    opTries,        \* attempts that are left
    opServer,       \* the server at the other end of request_fd
    opStatus,       \* *status
    opHolds,        \* "request", "engine", "control", "events": descriptors and segments
    opControl,      \* the client whose control block is attached
    svAt,           \* "none", "forked", "registered", "listening", "engine", "running", "ending", "cleaned", "dead"
    svQuits,        \* new_clients_allowed is 0, and the main thread was told to end
    svClients,      \* server -> client -> "none", "listed", "acked"
    registered,     \* the server in the registry
    sockets         \* socket files: index -> the server that bound it

openVars == <<opAt, opTries, opServer, opStatus, opHolds, opControl, svAt, svQuits, svClients, registered, sockets>>
clientSide == <<opTries, opServer, opStatus, opHolds, opControl>>

Lives(s) == svAt[s] \notin {"none", "dead"}
Temporary(s) == s # User        \* _start_server puts -T in front of all arguments

OpenInit ==
    /\ opAt = [c \in Openers |-> "idle"] /\ opTries = [c \in Openers |-> MaxTries]
    /\ opServer = [c \in Openers |-> Nobody] /\ opControl = [c \in Openers |-> Nobody]
    /\ opStatus = [c \in Openers |-> {}] /\ opHolds = [c \in Openers |-> {}]
    /\ svAt \in [Servers -> {"none", "forked"}] /\ \A c \in Openers : svAt[c] = "none"
    /\ svQuits = [s \in Servers |-> FALSE]
    /\ svClients = [s \in Servers |-> [c \in Openers |-> "none"]]
    /\ registered = Nobody /\ sockets = [i \in {0, 1} |-> Nobody]

------------------------------------------------------------------------------
(* The client.                                                                 *)

\* server_connect, which always takes the first socket: a server listens to it.
\* After shutdown of the socket nobody does.
Answering == {s \in Servers : sockets[0] = s /\ svAt[s] \in {"listening", "engine", "running"}}

GetsThrough(c, status) ==
    \E s \in Answering :
        /\ opAt' = [opAt EXCEPT ![c] = "requesting"] /\ opServer' = [opServer EXCEPT ![c] = s]
        /\ opHolds' = [opHolds EXCEPT ![c] = {"request"}] /\ opStatus' = [opStatus EXCEPT ![c] = @ \cup status]

\* The fail labels: everything is given back. Once the server answered, *status
\* says nothing of the failure.
Fails(c, status) ==
    /\ opAt' = [opAt EXCEPT ![c] = "failed"] /\ opHolds' = [opHolds EXCEPT ![c] = {}]
    /\ opStatus' = [opStatus EXCEPT ![c] = @ \cup status]

\* jack_client_open_aux with options, a directory and names that will do;
\* jack_request_client, up to the first connection; start_server, which forks twice.
Starts(c) ==
    /\ opAt[c] = "idle"
    /\ \/ Fails(c, {"Failure"}) /\ UNCHANGED <<opServer, svAt>>
       \/ GetsThrough(c, {}) /\ UNCHANGED svAt
       \/ Answering = {} /\ Fails(c, {"Failure", "ServerFailed"}) /\ UNCHANGED <<opServer, svAt>>
       \/ /\ Answering = {} /\ c \notin NoStart
          /\ opAt' = [opAt EXCEPT ![c] = "waiting"]
          /\ svAt' \in {[svAt EXCEPT ![c] = at] : at \in {"forked", "dead"}}
          /\ UNCHANGED <<opServer, opStatus, opHolds>>
    /\ UNCHANGED <<opTries, opControl, svQuits, svClients, registered, sockets>>

\* The loop that waits for it, a second at a time.
Waits(c) ==
    /\ opAt[c] = "waiting"
    /\ \/ /\ opTries[c] > 0 /\ GetsThrough(c, {"ServerStarted"}) /\ UNCHANGED opTries
       \/ /\ opTries[c] > 0 /\ Answering = {} /\ opTries' = [opTries EXCEPT ![c] = @ - 1]
          /\ UNCHANGED <<opAt, opServer, opStatus, opHolds>>
       \/ /\ opTries[c] = 0 /\ Fails(c, {"Failure", "ServerFailed"}) /\ UNCHANGED <<opServer, opTries>>
    /\ UNCHANGED <<opControl, svAt, svQuits, svClients, registered, sockets>>

\* Instead of an answer the end of the connection.
SeesServerGone(c) ==
    /\ opAt[c] = "requesting" /\ ~Lives(opServer[c]) /\ Fails(c, {"Failure", "ServerError"})
    /\ UNCHANGED <<opTries, opServer, opControl, svAt, svQuits, svClients, registered, sockets>>

\* jack_client_open_aux attaches the segments by their indices in the registry.
\* When the server has gone since, they may be those of the next one: an index
\* then holds nothing, or the control block of another client.
Holders(c) ==
    IF registered = opServer[c] THEN {c}
    ELSE {d \in Openers : registered # Nobody /\ svClients[registered][d] # "none" /\ d # c}

Attaches(c) ==
    /\ opAt[c] = "attaching"
    /\ \/ Fails(c, {}) /\ UNCHANGED opControl
       \/ \E d \in Holders(c) :
            /\ opControl' = [opControl EXCEPT ![c] = d]
            /\ opAt' = [opAt EXCEPT ![c] = "acking"] /\ UNCHANGED opStatus
            /\ opHolds' = [opHolds EXCEPT ![c] = @ \cup {"engine", "control"}]
    /\ UNCHANGED <<opTries, opServer, svAt, svQuits, svClients, registered, sockets>>

\* server_event_connect, and handle_client_ack_connection of the server that has
\* the socket: the client of that UUID gets the connection.
Acknowledges(c) ==
    /\ opAt[c] = "acking"
    /\ \/ \E s \in Answering :
            /\ svAt[s] # "listening" /\ ~svQuits[s] /\ svClients[s][opControl[c]] # "none"
            /\ svClients' = [svClients EXCEPT ![s][opControl[c]] = "acked"]
            /\ opAt' = [opAt EXCEPT ![c] = "open"] /\ UNCHANGED opStatus
            /\ opHolds' = [opHolds EXCEPT ![c] = @ \cup {"events"}]
       \/ /\ \A s \in Answering : svClients[s][opControl[c]] = "none"
          /\ Fails(c, {}) /\ UNCHANGED svClients
    /\ UNCHANGED <<opTries, opServer, opControl, svAt, svQuits, registered, sockets>>

\* jack_client_close, or the end of the process at any time.
Closes(c) ==
    /\ opAt[c] \notin {"idle", "failed", "closed"}
    /\ opAt' = [opAt EXCEPT ![c] = "closed"] /\ opHolds' = [opHolds EXCEPT ![c] = {}]
    /\ UNCHANGED <<opTries, opServer, opStatus, opControl, svAt, svQuits, svClients, registered, sockets>>

------------------------------------------------------------------------------
(* The server.                                                                 *)

Moves(s, from, to) == svAt[s] = from /\ svAt' = [svAt EXCEPT ![s] = to]

\* Mutant: the files of a server that was killed stay.
Registers_NoCleanup(s) ==
    /\ IF registered # Nobody /\ Lives(registered) THEN Moves(s, "forked", "dead") /\ UNCHANGED <<registered, sockets>>
       ELSE Moves(s, "forked", "registered") /\ registered' = s /\ UNCHANGED sockets
    /\ UNCHANGED <<opAt, clientSide, svQuits, svClients>>

\* jack_register_server refuses a name whose server lives. Then what one before
\* has left is removed: jack_cleanup_shm, jack_cleanup_files.
Registers(s) ==
    /\ IF registered # Nobody /\ Lives(registered) THEN Moves(s, "forked", "dead") /\ UNCHANGED <<registered, sockets>>
       ELSE Moves(s, "forked", "registered") /\ registered' = s /\ sockets' = [i \in {0, 1} |-> Nobody]
    /\ UNCHANGED <<opAt, clientSide, svQuits, svClients>>

\* make_sockets takes the first name no file has; the clients wait in the queue
\* of the socket until jack_engine_new starts the server thread.
MakesSockets(s) ==
    /\ Moves(s, "registered", "listening")
    /\ sockets' = IF sockets[0] = Nobody THEN [sockets EXCEPT ![0] = s] ELSE [sockets EXCEPT ![1] = s]
    /\ UNCHANGED <<opAt, clientSide, svQuits, svClients, registered>>

\* The rest of jack_engine_new; jack_main, whose driver may not load or start.
Goes(s) ==
    /\ \/ Moves(s, "listening", "engine")
       \/ Moves(s, "engine", "running")
       \/ Moves(s, "engine", "ending")
    /\ UNCHANGED <<opAt, clientSide, svQuits, svClients, registered, sockets>>

\* The server thread accepts a connection while new clients are allowed, and
\* creates the client or refuses it.
Accepts(s, c) ==
    /\ svAt[s] \in {"engine", "running"} /\ ~svQuits[s] /\ opAt[c] = "requesting" /\ opServer[c] = s
    /\ \/ /\ svClients' = [svClients EXCEPT ![s][c] = "listed"]
          /\ opAt' = [opAt EXCEPT ![c] = "attaching"] /\ UNCHANGED <<opStatus, opHolds>>
       \/ Fails(c, {"Failure", "ServerError"}) /\ UNCHANGED svClients
    /\ UNCHANGED <<opTries, opServer, opControl, svAt, svQuits, registered, sockets>>

\* jack_remove_client, of one whose descriptors were closed. The last client of a
\* temporary server ends it: nobody is let in, and the main thread is told.
RemovesLeft(s, c) ==
    /\ svAt[s] \in {"engine", "running"} /\ ~svQuits[s]
    /\ svClients[s][c] # "none" /\ opAt[c] \in {"failed", "closed"}
    /\ svClients' = [svClients EXCEPT ![s][c] = "none"]
    /\ svQuits' = [svQuits EXCEPT ![s] = Temporary(s) /\ \A d \in Openers : svClients'[s][d] = "none"]
    /\ UNCHANGED <<opAt, clientSide, svAt, registered, sockets>>

\* The main thread, once the driver runs, or somebody ends the server by hand.
Signals(s) ==
    /\ svQuits[s] \/ s = User
    /\ Moves(s, "running", "ending")
    /\ UNCHANGED <<opAt, clientSide, svQuits, svClients, registered, sockets>>

\* The end of main: its files, then its place in the registry.
Unregisters(s) ==
    /\ \/ Moves(s, "ending", "cleaned") /\ sockets' = [i \in {0, 1} |-> Nobody] /\ UNCHANGED registered
       \/ Moves(s, "cleaned", "dead") /\ registered' = Nobody /\ UNCHANGED sockets
    /\ UNCHANGED <<opAt, clientSide, svQuits, svClients>>

\* A server that is killed leaves its files and its place.
IsKilled(s) ==
    /\ Lives(s) /\ svAt' = [svAt EXCEPT ![s] = "dead"]
    /\ UNCHANGED <<opAt, clientSide, svQuits, svClients, registered, sockets>>

OpenNext ==
    \/ \E c \in Openers : Starts(c) \/ Waits(c) \/ SeesServerGone(c) \/ Attaches(c) \/ Acknowledges(c) \/ Closes(c)
    \/ \E s \in Servers : Registers(s) \/ MakesSockets(s) \/ Goes(s) \/ Signals(s) \/ Unregisters(s) \/ IsKilled(s)
    \/ \E s \in Servers, c \in Openers : Accepts(s, c) \/ RemovesLeft(s, c)

OpenSpec == OpenInit /\ [][OpenNext]_openVars

------------------------------------------------------------------------------
(* What OpeningInv puts together.                                              *)

InCharge(s) == svAt[s] \in {"registered", "listening", "engine", "running", "ending", "cleaned"}

\* However many clients start one, one server has the name.
OneServer == Cardinality({s \in Servers : InCharge(s)}) <= 1

\* A server in charge is the one of the registry, and clients find it: its socket
\* is the first.
ServerIsFound ==
    \A s \in Servers :
        /\ InCharge(s) => registered = s
        /\ svAt[s] \in {"listening", "engine", "running"} => sockets[0] = s

\* A client that is open has its events at its server, and its own control block,
\* unless the server has gone since it answered.
OpenIsConnected ==
    \A c \in Openers : opAt[c] = "open" /\ svAt[opServer[c]] \in {"engine", "running"} =>
        opControl[c] = c /\ svClients[opServer[c]][c] = "acked" /\ opHolds[c] = {"request", "engine", "control", "events"}

\* A server that ends because its last client left cuts nobody off.
NobodyIsCutOff == \A s \in Servers : svQuits[s] => \A c \in Openers : svClients[s][c] = "none"

\* A client that was not opened keeps nothing, and is told why unless the server
\* had already taken it.
FailureIsTold ==
    \A c \in Openers : opAt[c] = "failed" =>
        opHolds[c] = {} /\ ("Failure" \in opStatus[c] \/ opServer[c] # Nobody)

OpeningInv == OneServer /\ ServerIsFound /\ OpenIsConnected /\ NobodyIsCutOff /\ FailureIsTold
==============================================================================
