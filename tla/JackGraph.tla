------------------------------ MODULE JackGraph ------------------------------
(* The graph of jackd: its client list, the connections between their ports,  *)
(* the two "feeds" relations it keeps beside them and the order in which the  *)
(* process cycle runs the clients (jackd/engine.c, jackd/clientengine.c).     *)
(*                                                                            *)
(* Every request is served under the request lock and changes the graph under *)
(* the graph lock, so each is one step, except a connection asked for by an   *)
(* internal client: its checks are made before the graph lock is taken, and   *)
(* the server thread removes failed clients without the request lock.         *)
EXTENDS Integers, Sequences, FiniteSets, SequencesExt

CONSTANTS
    Clients,        \* every client that may ever connect to the server
    Drivers,        \* those of type ClientDriver ...
    Internals,      \* ... and ClientInternal; the others are external
    Ports,          \* ports registered by a client as long as it exists
    Owner,          \* the client a port belongs to
    Outputs,        \* the ports with JackPortIsOutput
    NoZombies,      \* the server's -Z option
    FreshFed,       \* what malloc may leave in the fedcount of a new client
    MaxConns,       \* bound: connections at a time
    MaxUncounted,   \* bound: how far below 0 the fedcount of a driver falls
    None

\* Drivers and internal clients run in the server; any Clients and Ports.
ASSUME GraphAssumption ==
    /\ Drivers \subseteq Clients /\ IsFiniteSet(Drivers)
    /\ Internals \subseteq Clients \ Drivers
    /\ IsFiniteSet(Ports) /\ Outputs \subseteq Ports
    /\ \A p \in Ports : Owner[p] \in Clients
    /\ FreshFed \subseteq Int

VARIABLES
    g,              \* the graph: see Graph
    pending,        \* the checked connection of an internal client, or None
    undefined       \* a connection was made with a client that is gone

vars == <<g, pending, undefined>>

Dirs == {-1, 0, 1}  \* feedback, to itself, forward (or to a driver)
Connections == [source : Ports, destination : Ports, dir : Dirs]
Errors == {"none", "late", "socket"}
NoFeeds == [c \in Clients |-> 0]
HasConnections(gr, p) ==
    \E x \in ToSet(gr.connections) : p \in {x.source, x.destination}

Graph ==
    [clients : Seq(Clients), active : SUBSET Clients, dead : SUBSET Clients,
     error : [Clients -> Errors], connections : Seq(Connections),
     sortfeeds : [Clients -> [Clients -> Nat]],
     truefeeds : [Clients -> [Clients -> Nat]],
     fedcount : [Clients -> Int], feedbackcount : Int]

------------------------------------------------------------------------------
(* Sorting. feeds[c][d] counts the times d is on the list of c.               *)

\* Everything c feeds, directly or through others: what every set has that has
\* the clients c feeds and those its members feed.
Closed(feeds, S) ==
    \A c \in S, d \in Clients : feeds[c][d] > 0 => d \in S

Fed(feeds, c) ==
    LET direct == {d \in Clients : feeds[c][d] > 0}
    IN  {d \in Clients : \A S \in SUBSET Clients :
            direct \subseteq S /\ Closed(feeds, S) => d \in S}

jack_client_feeds_transitive(gr, source, dest) ==
    dest \in Fed(gr.sortfeeds, source)

\* The pairs for which jack_client_sort is negative; drivers come first.
ComesFirst(gr) ==
    LET here == ToSet(gr.clients)
    IN  UNION {{c} \X Fed(gr.sortfeeds, c) : c \in here}
        \cup (here \cap Drivers) \X (here \ Drivers)

\* jack_slist_sort_merge: the head of the second list unless the first is less;
\* i and j count what is taken of each.
Merge(first, l1, l2) ==
    LET merged[n \in 0 .. Len(l1) + Len(l2)] ==
          IF n = 0 THEN [i |-> 0, j |-> 0, out |-> <<>>]
          ELSE LET m == merged[n - 1]
               IN  IF m.i < Len(l1)
                      /\ (m.j = Len(l2) \/ <<l1[m.i + 1], l2[m.j + 1]>> \in first)
                   THEN [i |-> m.i + 1, j |-> m.j, out |-> Append(m.out, l1[m.i + 1])]
                   ELSE [i |-> m.i, j |-> m.j + 1, out |-> Append(m.out, l2[m.j + 1])]
    IN  merged[Len(l1) + Len(l2)].out

\* jack_slist_sort: sorted[n][i] is the sorted part of n clients after the
\* first i, made of its two sorted halves.
MergeSort(first, l) ==
    LET sorted[n \in 0 .. Len(l)] ==
          [i \in 0 .. Len(l) - n |->
             IF n < 2 THEN SubSeq(l, i + 1, i + n)
             ELSE Merge(first, sorted[n \div 2][i],
                               sorted[n - n \div 2][i + n \div 2])]
    IN  sorted[Len(l)][0]

jack_sort_graph(gr) ==
    LET first == ComesFirst(gr)
    IN  [gr EXCEPT !.clients = MergeSort(first, @)]

------------------------------------------------------------------------------
(* Has the graph become acyclic? One pass takes every client nobody unsorted  *)
(* feeds; a pass that takes none is stuck.                                    *)

TakeSource(gr, st, c) ==
    IF st.tfed[c] # 0 THEN st
    ELSE [tfed |-> [d \in Clients |->
                      (IF d = c THEN -1 ELSE st.tfed[d]) - gr.truefeeds[c][d]],
          unsorted |-> st.unsorted - 1]

OnePass(gr, st) ==
    LET taken[i \in 0 .. Len(gr.clients)] ==
          IF i = 0 THEN st ELSE TakeSource(gr, taken[i - 1], gr.clients[i])
    IN  taken[Len(gr.clients)]

\* As many passes as there are clients: one that takes none changes nothing.
SortsWithoutFeedback(gr) ==
    LET passed[n \in 0 .. Len(gr.clients)] ==
          IF n = 0 THEN [tfed |-> gr.fedcount, unsorted |-> Len(gr.clients)]
                   ELSE OnePass(gr, passed[n - 1])
    IN  passed[Len(gr.clients)].unsorted = 0

\* No two connections are alike: see ConnectedOnce.
Backwards(gr, src, dst) ==
    Cardinality({x \in ToSet(gr.connections) :
        x.dir = -1 /\ Owner[x.source] = src /\ Owner[x.destination] = dst})

Turned(x) == [x EXCEPT !.dir = IF @ = -1 THEN 1 ELSE @]

\* Mutant: the connections are turned, the sortfeeds lists are not.
jack_check_acyclic_NotTurned(gr) ==
    IF ~SortsWithoutFeedback(gr) THEN gr
    ELSE [gr EXCEPT
            !.connections = [i \in DOMAIN gr.connections |-> Turned(gr.connections[i])],
            !.feedbackcount = 0]

jack_check_acyclic(gr) ==
    IF ~SortsWithoutFeedback(gr) THEN gr
    ELSE [gr EXCEPT
            !.sortfeeds = [c \in Clients |-> [d \in Clients |->
                gr.sortfeeds[c][d] - Backwards(gr, d, c) + Backwards(gr, c, d)]],
            !.connections = [i \in DOMAIN gr.connections |-> Turned(gr.connections[i])],
            !.feedbackcount = 0]

------------------------------------------------------------------------------
(* Connections.                                                               *)

\* jack_slist_remove takes one occurrence out, if there is one.
Removed(feeds, c, d) == [feeds EXCEPT ![c][d] = IF @ = 0 THEN 0 ELSE @ - 1]
Added(feeds, c, d) == [feeds EXCEPT ![c][d] = @ + 1]

Connected(gr, s, d) ==
    \E x \in ToSet(gr.connections) : x.source = s /\ x.destination = d

\* What jack_port_do_connect checks before it takes the graph lock.
MayConnect(gr, s, d) ==
    /\ d \notin Outputs
    /\ s \in Outputs
    /\ \A p \in {s, d} : Owner[p] \in ToSet(gr.clients) \cap gr.active
    /\ ~Connected(gr, s, d)

\* What it does under the lock.
jack_port_do_connect(gr, s, d) ==
    LET src == Owner[s]
        dst == Owner[d]
        feedback == jack_client_feeds_transitive(gr, dst, src)
        dir == IF dst \in Drivers THEN 1
               ELSE IF src = dst THEN 0
               ELSE IF feedback THEN -1 ELSE 1
        connected == [gr EXCEPT
            !.connections =
                <<[source |-> s, destination |-> d, dir |-> dir]>> \o @]
    IN  jack_sort_graph(
          IF dst \in Drivers \/ src = dst THEN connected
          ELSE [connected EXCEPT
            !.truefeeds = Added(@, src, dst),
            !.fedcount[dst] = @ + 1,
            !.sortfeeds = IF feedback THEN Added(@, dst, src)
                                      ELSE Added(@, src, dst),
            !.feedbackcount = IF feedback THEN @ + 1 ELSE @])

\* The connection is taken off both lists, and off the feeds it stood for.
Unlinked(gr, x) ==
    LET src == Owner[x.source]
        dst == Owner[x.destination]
        cut == [gr EXCEPT !.connections = RemoveFirst(@, x)]
    IN  IF x.dir = 0 THEN cut
        ELSE [cut EXCEPT
            !.truefeeds = Removed(@, src, dst),
            !.fedcount[dst] = @ - 1,
            !.sortfeeds = IF x.dir = 1 THEN Removed(@, src, dst)
                                       ELSE Removed(@, dst, src),
            !.feedbackcount = IF x.dir = 1 THEN @ ELSE @ - 1]

TheConnection(gr, s, d) ==
    CHOOSE x \in ToSet(gr.connections) : x.source = s /\ x.destination = d

jack_port_disconnect_internal(gr, s, d) ==
    LET cut == IF Connected(gr, s, d) THEN Unlinked(gr, TheConnection(gr, s, d))
                                      ELSE gr
    IN  jack_sort_graph(IF gr.feedbackcount # 0 THEN jack_check_acyclic(cut)
                                                ELSE cut)

\* The port's connections, the newest first.
jack_port_clear_connections(gr, p) ==
    LET cut[i \in 0 .. Len(gr.connections)] ==
          IF i = 0 THEN gr
          ELSE LET x == gr.connections[i]
               IN  IF p \in {x.source, x.destination}
                   THEN jack_port_disconnect_internal(cut[i - 1], x.source, x.destination)
                   ELSE cut[i - 1]
    IN  cut[Len(gr.connections)]

------------------------------------------------------------------------------
(* Clients.                                                                   *)

ClearPorts(gr, c) ==
    LET ports == SetToSeq({p \in Ports : Owner[p] = c})
        cleared[i \in 0 .. Len(ports)] ==
          IF i = 0 THEN gr ELSE jack_port_clear_connections(cleared[i - 1], ports[i])
    IN  cleared[Len(ports)]

jack_client_disconnect_ports(gr, c) ==
    [ClearPorts(gr, c) EXCEPT !.sortfeeds[c] = NoFeeds, !.truefeeds[c] = NoFeeds]

jack_client_do_deactivate(gr, c, sort) ==
    LET idle == [gr EXCEPT !.active = @ \ {c}]
    IN  IF sort THEN jack_sort_graph(idle) ELSE idle

jack_zombify_client(gr, c) ==
    jack_client_do_deactivate(
        jack_client_disconnect_ports([gr EXCEPT !.dead = @ \cup {c}], c),
        c, FALSE)

jack_remove_client(gr, c) ==
    LET zombie == IF c \in gr.dead THEN gr ELSE jack_zombify_client(gr, c)
    IN  [zombie EXCEPT !.clients = RemoveFirst(@, c), !.dead = @ \ {c},
                       !.error[c] = "none"]

\* jack_remove_clients: the client of a broken socket goes; a late one stays
\* in the list as a zombie, or untouched under -Z.
RemoveFailed(gr, c) ==
    CASE gr.error[c] = "none" -> gr
      [] gr.error[c] = "socket" -> jack_remove_client(gr, c)
      [] gr.error[c] = "late" ->
            IF NoZombies THEN gr
            ELSE [jack_zombify_client(gr, c) EXCEPT !.error[c] = "none"]

jack_remove_clients(gr) ==
    LET left[i \in 0 .. Len(gr.clients)] ==
          IF i = 0 THEN gr ELSE RemoveFailed(left[i - 1], gr.clients[i])
    IN  jack_sort_graph(left[Len(gr.clients)])

------------------------------------------------------------------------------
(* The requests of clients, their failures and the server thread.             *)

Exists(c) == c \in ToSet(g.clients)
Requests(c) == Exists(c) /\ c \notin g.dead /\ g.error[c] # "socket"
\* The request lock is free: it is held from the checks to the connection.
Unlocked == pending = None /\ ~undefined

\* The server from the moment its drivers are loaded.
Init ==
    /\ g = [clients |-> SetToSeq(Drivers), active |-> {}, dead |-> {},
            error |-> [c \in Clients |-> "none"], connections |-> <<>>,
            sortfeeds |-> [c \in Clients |-> NoFeeds],
            truefeeds |-> [c \in Clients |-> NoFeeds],
            fedcount |-> NoFeeds, feedbackcount |-> 0]
    /\ pending = None
    /\ undefined = FALSE

\* setup_client: the new client is prepended; its fedcount is never set.
SetupClient(c) ==
    /\ Unlocked
    /\ ~Exists(c)
    /\ \E garbage \in FreshFed :
         g' = [g EXCEPT !.clients = <<c>> \o @, !.fedcount[c] = garbage,
                        !.sortfeeds[c] = NoFeeds, !.truefeeds[c] = NoFeeds]
    /\ UNCHANGED <<pending, undefined>>

ActivateClient(c) ==
    /\ Unlocked
    /\ Requests(c)
    /\ g' = jack_sort_graph([g EXCEPT !.active = @ \cup {c}])
    /\ UNCHANGED <<pending, undefined>>

DeactivateClient(c) ==
    /\ Unlocked
    /\ Requests(c)
    /\ c \in g.active
    /\ g' = jack_client_do_deactivate(ClearPorts(g, c), c, TRUE)
    /\ UNCHANGED <<pending, undefined>>

\* The bounds on connections.
Bounded(d) ==
    /\ Len(g.connections) < MaxConns
    /\ g.fedcount[Owner[d]] + MaxUncounted > 0

\* A request of an external client runs in the server thread: nothing removes
\* a client between its checks and its effect.
ConnectPorts(s, d) ==
    /\ Unlocked
    /\ MayConnect(g, s, d)
    /\ Bounded(d)
    /\ g' = jack_port_do_connect(g, s, d)
    /\ UNCHANGED <<pending, undefined>>

\* An internal client calls the same code in a thread of its own: first the
\* checks, with the request lock ...
CheckConnect(s, d) ==
    /\ Unlocked
    /\ Internals \cap ToSet(g.clients) # {}
    /\ MayConnect(g, s, d)
    /\ Bounded(d)
    /\ pending' = <<s, d>>
    /\ UNCHANGED <<g, undefined>>

\* ... then the graph lock and the connection.
FinishConnect ==
    /\ pending # None
    /\ MayConnect(g, pending[1], pending[2])
    /\ g' = jack_port_do_connect(g, pending[1], pending[2])
    /\ pending' = None
    /\ UNCHANGED undefined

\* The server thread took a client away in between: the connection is made
\* with a freed client or a released port, and nothing is modelled after it.
ConnectStale ==
    /\ pending # None
    /\ ~MayConnect(g, pending[1], pending[2])
    /\ undefined' = TRUE
    /\ pending' = None
    /\ UNCHANGED g

DisconnectPorts(s, d) ==
    /\ Unlocked
    /\ Connected(g, s, d)
    /\ g' = jack_port_disconnect_internal(g, s, d)
    /\ UNCHANGED <<pending, undefined>>

Living == {p \in Ports : Exists(Owner[p]) /\ Owner[p] \notin g.dead}

\* Two ports that are not connected: the graph is checked and sorted again.
DisconnectNothing ==
    /\ Unlocked
    /\ {x \in Living \X Living : ~Connected(g, x[1], x[2])} # {}
    /\ g' = jack_sort_graph(IF g.feedbackcount # 0 THEN jack_check_acyclic(g)
                                                   ELSE g)
    /\ UNCHANGED <<pending, undefined>>

DisconnectPort(p) ==
    /\ Unlocked
    /\ HasConnections(g, p)
    /\ g' = jack_sort_graph(jack_port_clear_connections(g, p))
    /\ UNCHANGED <<pending, undefined>>

\* jack_check_clients finds that an external client woke up and did not finish.
ClientIsLate(c) ==
    /\ ~undefined
    /\ c \in g.active \ (Drivers \cup Internals)
    /\ g.error[c] = "none"
    /\ g' = [g EXCEPT !.error[c] = "late"]
    /\ UNCHANGED <<pending, undefined>>

\* The socket of an external client breaks, at any time in its life.
ClientIsLost(c) ==
    /\ ~undefined
    /\ Exists(c)
    /\ c \notin Drivers \cup Internals
    /\ g.error[c] # "socket"
    /\ g' = [g EXCEPT !.error[c] = "socket"]
    /\ UNCHANGED <<pending, undefined>>

\* The server thread has problems to clear: it takes the graph lock only.
ServerRemovesClients ==
    /\ ~undefined
    /\ \E c \in ToSet(g.clients) : g.error[c] # "none"
    /\ g' = jack_remove_clients(g)
    /\ UNCHANGED <<pending, undefined>>

\* handle_unload_client: no sort after it.
UnloadClient(c) ==
    /\ ~undefined
    /\ Exists(c)
    /\ c \in Internals
    /\ g' = jack_remove_client(g, c)
    /\ UNCHANGED <<pending, undefined>>

Next ==
    \/ \E c \in Clients :
         \/ SetupClient(c) \/ ActivateClient(c) \/ DeactivateClient(c)
         \/ ClientIsLate(c) \/ ClientIsLost(c) \/ UnloadClient(c)
    \/ \E s, d \in Ports :
         ConnectPorts(s, d) \/ CheckConnect(s, d) \/ DisconnectPorts(s, d)
    \/ FinishConnect \/ ConnectStale \/ DisconnectNothing
    \/ \E p \in Ports : DisconnectPort(p)
    \/ ServerRemovesClients

Spec == Init /\ [][Next]_vars

------------------------------------------------------------------------------
(* What keeps the graph right.                                                *)

\* The graph and the connection in flight are well formed.
GraphTypeOK ==
    /\ g \in Graph
    /\ pending \in {None} \cup Ports \X Ports
    /\ undefined \in BOOLEAN

Count(Test(_)) == Cardinality({x \in ToSet(g.connections) : Test(x)})
ToDriver(x) == Owner[x.destination] \in Drivers

\* jack_port_do_connect, jack_port_disconnect_internal and jack_check_acyclic
\* keep three lists beside the connections: after any history, each client is
\* on a sortfeeds list once per forward connection and on the reversed one
\* once per feedback connection, and the feedback count is the number of those.
FeedsMatchConnections ==
    /\ \A c, d \in Clients :
         LET Forward(x) == x.dir = 1 /\ ~ToDriver(x) /\ Owner[x.source] = c
                           /\ Owner[x.destination] = d
             Back(x) == x.dir = -1 /\ Owner[x.source] = d
                        /\ Owner[x.destination] = c
             True(x) == x.dir # 0 /\ ~ToDriver(x) /\ Owner[x.source] = c
                        /\ Owner[x.destination] = d
         IN  /\ g.sortfeeds[c][d] = Count(Forward) + Count(Back)
             /\ g.truefeeds[c][d] = Count(True)
    /\ g.feedbackcount = Count(LAMBDA x : x.dir = -1)

Cyclic(feeds) ==
    \E c \in Clients : c \in Fed(feeds, c)

\* engine.c: "The above 3 rules ensure that the sortfeeds relation is always
\* acyclic". jack_client_feeds_transitive would not return otherwise.
SortfeedsAcyclic == ~Cyclic(g.sortfeeds)

\* A feedback connection, which costs a period of latency, is left only while
\* the true graph has a cycle; or a connection to a driver was broken: it was
\* not counted as feeding the driver when it was made but is taken off the
\* driver's fedcount, and jack_check_acyclic finds the graph cyclic for ever.
FeedbackOnlyInCycles ==
    g.feedbackcount > 0 =>
        Cyclic(g.truefeeds) \/ \E d \in Drivers : g.fedcount[d] < 0

\* No two connections have the same ports: one is looked for before it is made,
\* so the one that is taken off is the one there is.
ConnectedOnce ==
    \A i, j \in DOMAIN g.connections :
        (/\ g.connections[i].source = g.connections[j].source
         /\ g.connections[i].destination = g.connections[j].destination) => i = j

\* Only ports of active clients in the list are connected: what deactivation,
\* zombification, removal and unloading leave behind has no connections.
ConnectedAreActive ==
    \A x \in ToSet(g.connections) :
        \A p \in {x.source, x.destination} :
            /\ Owner[p] \in ToSet(g.clients) \cap g.active
            /\ Owner[p] \notin g.dead

\* engine.c: "If client A is on client B's sortfeeds list, client A must come
\* after client B in the execution order ... so that all ordering constraints
\* can actually be met." The list is sorted by a merge sort that takes clients
\* without a path between them for equal, which is not transitive.
ExecutionOrder ==
    \A i, j \in DOMAIN g.clients :
        i < j => g.sortfeeds[g.clients[j]][g.clients[i]] = 0

\* The graph is kept: the feeds lists are those of the connections, the sort is
\* over an acyclic relation, feedback is counted only where there is a cycle, and
\* only active clients are connected.
GraphInv ==
    /\ GraphTypeOK
    /\ FeedsMatchConnections
    /\ SortfeedsAcyclic
    /\ FeedbackOnlyInCycles
    /\ ConnectedOnce
    /\ ConnectedAreActive
==============================================================================
