------------------------------ MODULE JackPorts ------------------------------
(* The ports of jackd: the table in shared memory, the buffers of one port    *)
(* type, and the connections (jackd/engine.c), with the copy of its own ports *)
(* and their connections each client keeps in libjack (libjack/port.c,        *)
(* libjack/client.c). The server changes its side under the graph lock and    *)
(* tells the clients before it lets go, so that is one step; a client learns  *)
(* what became of its request in a later one.                                 *)
EXTENDS Integers, Sequences, FiniteSets, SequencesExt

CONSTANTS
    Apps,           \* the clients
    PortMax,        \* port_max, the ports and the buffers there are
    Names,          \* what follows the client's name in that of a port
    Sizes,          \* sizes of a buffer
    MaxRequests     \* bound: requests and failures

ASSUME PortsAssumption == PortMax \in Nat \ {0} /\ Sizes \subseteq Nat \ {0}

VARIABLES
    port,           \* the table: control->ports and internal_ports
    freelist,       \* buffers nobody has; one is silent for ever
    conns,          \* the connections, from output to input
    ports,          \* client->ports of the server
    active, dead,   \* control->active, control->dead
    buffer_size,
    lib,            \* client->ports of libjack, newest first
    asking,         \* registered, but the client does not know yet
    lost,           \* a port was connected before its client knew of it
    torn,           \* the last change of the size stopped half way
    renamed,        \* a port got the name of another one
    requests

portVars == <<port, freelist, conns, ports, active, dead, buffer_size, lib,
              asking, lost, torn, renamed, requests>>

Slots == 0 .. PortMax - 1
Buffers == 0 .. PortMax - 1
NoSlot == -1
zero_buffer == 0
Port == [in_use : BOOLEAN, owner : Apps, name : Names, input : BOOLEAN,
         buffer : Buffers \cup {NoSlot}]
\* jack_port_t; mix_buffer is its size, 0 when there is none.
LibPort == [id : Slots, connections : SUBSET Slots, mix_buffer : Sizes \cup {0}]

\* The name of a port is its client's and one of its own.
jack_get_port_by_name(pt, c, n) ==
    LET found == {p \in Slots : pt[p].in_use /\ pt[p].owner = c /\ pt[p].name = n}
    IN  IF found = {} THEN NoSlot ELSE CHOOSE p \in found : \A q \in found : p <= q

jack_get_free_port ==
    LET free == {p \in Slots : ~port[p].in_use}
    IN  IF free = {} THEN NoSlot ELSE CHOOSE p \in free : \A q \in free : p <= q

------------------------------------------------------------------------------
(* libjack: what a client does with an event.                                 *)

\* jack_port_new: as the client sees the port.
jack_port_new(p) == [id |-> p, connections |-> {}, mix_buffer |-> 0]

\* The newest entry for p, of those that were never taken off the list.
jack_port_by_id_int(l, p) ==
    LET found == {i \in DOMAIN l : l[i].id = p}
    IN  IF found = {} THEN 0 ELSE CHOOSE i \in found : \A j \in found : i <= j

\* A port that is not on the list gets a structure that nobody finds again.
PortConnected(l, p, other, input) ==
    LET i == jack_port_by_id_int(l, p)
        mixes == input /\ l[i].connections # {}
        entry == [l[i] EXCEPT !.connections = @ \cup {other},
                              !.mix_buffer = IF mixes /\ @ = 0 THEN buffer_size ELSE @]
    IN  IF i = 0 THEN l ELSE [l EXCEPT ![i] = entry]

jack_client_fix_port_buffers(l, size) ==
    [i \in DOMAIN l |->
        [l[i] EXCEPT !.mix_buffer =
            IF @ # 0 /\ Cardinality(l[i].connections) > 1 THEN size ELSE 0]]

\* Whom jack_deliver_event reaches with a change of their ports.
Listens(c) == c \in active \ dead

------------------------------------------------------------------------------
(* The server.                                                                *)

\* jack_port_assign_buffer
Assigned(input) == IF input THEN NoSlot ELSE Head(freelist)

\* The ports that p has a connection with among those of xs.
Others(p, xs) == {q \in Slots : <<p, q>> \in xs \/ <<q, p>> \in xs}

\* A client's list after an event for each end of each connection in gone that
\* is a port of the client.
PortsDisconnected(c, gone) ==
    [i \in DOMAIN lib[c] |->
        IF port[lib[c][i].id].owner = c /\ i = jack_port_by_id_int(lib[c], lib[c][i].id)
        THEN [lib[c][i] EXCEPT !.connections = @ \ Others(lib[c][i].id, gone)]
        ELSE lib[c][i]]

\* The connections gone, in the list of each client that can still be told.
ToldGone(gone) == [c \in Apps |-> IF Listens(c) THEN PortsDisconnected(c, gone) ELSE lib[c]]

Touching(S) == {x \in conns : x[1] \in S \/ x[2] \in S}

\* Mutant: the buffer is given back, and kept.
jack_port_release_Keeps(S) ==
    /\ port' = [p \in Slots |-> IF p \in S THEN [port[p] EXCEPT !.in_use = FALSE]
                                           ELSE port[p]]
    /\ freelist' = SetToSeq({port[p].buffer : p \in S} \ {NoSlot}) \o freelist

\* jack_port_release of every port in S; a buffer is the next to be given out.
jack_port_release(S) ==
    /\ port' = [p \in Slots |->
                  IF p \in S THEN [port[p] EXCEPT !.in_use = FALSE, !.buffer = NoSlot]
                             ELSE port[p]]
    /\ freelist' = SetToSeq({port[p].buffer : p \in S} \ {NoSlot}) \o freelist

\* A server that has just started.
PortsIdle ==
    /\ \E c \in Apps, n \in Names :
         port = [p \in Slots |-> [in_use |-> FALSE, owner |-> c, name |-> n,
                                  input |-> FALSE, buffer |-> NoSlot]]
    /\ freelist = [i \in 1 .. PortMax - 1 |-> i]
    /\ conns = {}
    /\ ports = [c \in Apps |-> {}]
    /\ active = {}
    /\ dead = {}
    /\ buffer_size \in Sizes
    /\ lib = [c \in Apps |-> <<>>]
    /\ asking = [c \in Apps |-> NoSlot]
    /\ lost = {}
    /\ torn = FALSE
    /\ renamed = FALSE
    /\ requests = 0

\* A server whose last port mixes all the others, which belong to one client.
PortsBusy ==
    /\ buffer_size \in Sizes
    /\ \E c, d \in Apps, f \in [Slots -> Names] :
         LET last == PortMax - 1
             first == Slots \ {last}
         IN  /\ c # d
             /\ \A p, q \in first : p # q => f[p] # f[q]
             /\ port = [p \in Slots |->
                          [in_use |-> TRUE, owner |-> IF p = last THEN d ELSE c,
                           name |-> f[p], input |-> p = last,
                           buffer |-> IF p = last THEN NoSlot ELSE p + 1]]
             /\ conns = first \X {last}
             /\ ports = [a \in Apps |-> IF a = c THEN first
                                       ELSE IF a = d THEN {last} ELSE {}]
             /\ active = {c, d}
             /\ lib = [a \in Apps |->
                  IF a = c THEN [i \in 1 .. last |->
                                   [jack_port_new(last - i) EXCEPT
                                      !.connections = {last}]]
                  ELSE IF a = d THEN <<[jack_port_new(last) EXCEPT
                                          !.connections = first,
                                          !.mix_buffer = buffer_size]>>
                  ELSE <<>>]
    /\ freelist = <<>>
    /\ dead = {}
    /\ asking = [c \in Apps |-> NoSlot]
    /\ lost = {}
    /\ torn = FALSE
    /\ renamed = FALSE
    /\ requests = 0

PortsInit == PortsIdle \/ PortsBusy

\* jack_port_do_register; a port without a buffer is released again.
jack_port_do_register(c, n, input) ==
    /\ c \notin dead
    /\ asking[c] = NoSlot
    /\ jack_get_port_by_name(port, c, n) = NoSlot
    /\ jack_get_free_port # NoSlot
    /\ LET p == jack_get_free_port
           fails == ~input /\ freelist = <<>>
       IN  IF fails
           THEN /\ port' = [port EXCEPT ![p] = [@ EXCEPT !.owner = c, !.name = n,
                                                !.input = input, !.buffer = NoSlot]]
                /\ UNCHANGED <<freelist, ports, asking>>
           ELSE /\ port' = [port EXCEPT ![p] =
                              [in_use |-> TRUE, owner |-> c, name |-> n,
                               input |-> input, buffer |-> Assigned(input)]]
                /\ freelist' = IF input THEN freelist ELSE Tail(freelist)
                /\ ports' = [ports EXCEPT ![c] = @ \cup {p}]
                /\ asking' = [asking EXCEPT ![c] = p]
    /\ UNCHANGED <<conns, active, dead, buffer_size, lib, lost, torn, renamed>>

\* The end of jack_port_register, in the thread that asked.
Registered(c) ==
    /\ asking[c] # NoSlot
    /\ lib' = [lib EXCEPT ![c] = <<jack_port_new(asking[c])>> \o @]
    /\ asking' = [asking EXCEPT ![c] = NoSlot]
    /\ UNCHANGED <<port, freelist, conns, ports, active, dead, buffer_size, lost,
                   torn, renamed, requests>>

\* A jack_port_t outlives its port; any client may hold one for any port.
Known(c, p) == port[p].in_use \/ jack_port_by_id_int(lib[c], p) # 0

MayUnregister(c, p) == Known(c, p) /\ port[p].owner = c

jack_port_do_unregister(c, p) ==
    /\ c \notin dead
    /\ asking[c] = NoSlot
    /\ MayUnregister(c, p)
    /\ conns' = conns \ Touching({p})
    /\ lib' = ToldGone(Touching({p}))
    /\ jack_port_release({p})
    /\ ports' = [ports EXCEPT ![c] = @ \ {p}]
    /\ UNCHANGED <<active, dead, buffer_size, asking, lost, torn, renamed>>

\* jack_port_do_connect, asked by anyone with names; JackGraph has the order it makes.
PortsConnected(c, n, d, m) ==
    LET src == jack_get_port_by_name(port, c, n)
        dst == jack_get_port_by_name(port, d, m)
    IN  /\ NoSlot \notin {src, dst}
        /\ port[dst].input /\ ~port[src].input
        /\ {c, d} \subseteq active
        /\ <<src, dst>> \notin conns
        /\ conns' = conns \cup {<<src, dst>>}
        /\ lib' = [a \in Apps |->
                     IF ~Listens(a) THEN lib[a]
                     ELSE LET l == IF a = c THEN PortConnected(lib[a], src, dst, FALSE)
                                            ELSE lib[a]
                          IN  IF a = d THEN PortConnected(l, dst, src, TRUE) ELSE l]
        /\ lost' = lost \cup {p \in {src, dst} :
                                jack_port_by_id_int(lib[port[p].owner], p) = 0
                                \/ asking[port[p].owner] = p}
        /\ UNCHANGED <<port, freelist, ports, active, dead, buffer_size, asking,
                       torn, renamed>>

jack_port_do_disconnect(c, n, d, m) ==
    LET x == <<jack_get_port_by_name(port, c, n), jack_get_port_by_name(port, d, m)>>
    IN  /\ x \in conns
        /\ conns' = conns \ {x}
        /\ lib' = ToldGone({x})
        /\ UNCHANGED <<port, freelist, ports, active, dead, buffer_size, asking,
                       lost, torn, renamed>>

jack_port_do_disconnect_all(p) ==
    /\ port[p].in_use
    /\ conns' = conns \ Touching({p})
    /\ lib' = ToldGone(Touching({p}))
    /\ UNCHANGED <<port, freelist, ports, active, dead, buffer_size, asking, lost,
                   torn, renamed>>

\* jack_client_activate, as far as it is about ports.
Activates(c) ==
    /\ c \notin active \cup dead
    /\ asking[c] = NoSlot
    /\ active' = active \cup {c}
    /\ lib' = [lib EXCEPT ![c] = jack_client_fix_port_buffers(@, buffer_size)]
    /\ UNCHANGED <<port, freelist, conns, ports, dead, buffer_size, asking, lost,
                   torn, renamed>>

\* jack_client_deactivate
Deactivates(c) ==
    /\ c \in active
    /\ asking[c] = NoSlot
    /\ active' = active \ {c}
    /\ conns' = conns \ Touching(ports[c])
    /\ lib' = ToldGone(Touching(ports[c]))
    /\ UNCHANGED <<port, freelist, ports, dead, buffer_size, asking, lost, torn,
                   renamed>>

\* jack_zombify_client; jack_client_disconnect_ports comes after dead is set.
Zombifies(c) ==
    /\ c \notin dead
    /\ dead' = dead \cup {c}
    /\ active' = active \ {c}
    /\ conns' = conns \ Touching(ports[c])
    /\ lib' = [ToldGone(Touching(ports[c])) EXCEPT ![c] = lib[c]]
    /\ jack_port_release(ports[c])
    /\ ports' = [ports EXCEPT ![c] = {}]
    /\ UNCHANGED <<buffer_size, asking, lost, torn, renamed>>

\* The process is gone, a new client takes its place.
Reopens(c) ==
    /\ c \in dead
    /\ dead' = dead \ {c}
    /\ lib' = [lib EXCEPT ![c] = <<>>]
    /\ asking' = [asking EXCEPT ![c] = NoSlot]
    /\ UNCHANGED <<port, freelist, conns, ports, active, buffer_size, lost, torn,
                   renamed>>

\* jack_driver_buffer_size; a segment that cannot be resized ends it there.
Resizes(size, ok) ==
    /\ size # buffer_size
    /\ buffer_size' = size
    /\ torn' = ~ok
    /\ lib' = [c \in Apps |-> IF ok /\ Listens(c)
                              THEN jack_client_fix_port_buffers(lib[c], size)
                              ELSE lib[c]]
    /\ UNCHANGED <<port, freelist, conns, ports, active, dead, asking, lost,
                   renamed>>

\* jack_port_set_name writes the table without a lock and does not look first.
Renames(p, n) ==
    /\ port[p].in_use
    /\ port[p].name # n
    /\ port' = [port EXCEPT ![p].name = n]
    /\ renamed' = (renamed \/ jack_get_port_by_name(port, port[p].owner, n) # NoSlot)
    /\ UNCHANGED <<freelist, conns, ports, active, dead, buffer_size, lib, asking,
                   lost, torn>>

PortRequests ==
    /\ requests < MaxRequests
    /\ requests' = requests + 1
    /\ \/ \E c \in Apps, n \in Names, input \in BOOLEAN :
            jack_port_do_register(c, n, input)
       \/ \E c \in Apps, p \in Slots : jack_port_do_unregister(c, p)
       \/ \E c, d \in Apps, n, m \in Names :
            \/ PortsConnected(c, n, d, m)
            \/ jack_port_do_disconnect(c, n, d, m)
       \/ \E p \in Slots : jack_port_do_disconnect_all(p)
       \/ \E c \in Apps : Activates(c) \/ Deactivates(c) \/ Zombifies(c) \/ Reopens(c)
       \/ \E size \in Sizes, ok \in BOOLEAN : Resizes(size, ok)
       \/ \E p \in Slots, n \in Names : Renames(p, n)

PortsNext == PortRequests \/ \E c \in Apps : Registered(c)

PortsSpec == PortsInit /\ [][PortsNext]_portVars

------------------------------------------------------------------------------
(* What clients may rely on.                                                  *)

\* The tables are well formed.
PortsTypeOK ==
    /\ port \in [Slots -> Port]
    /\ freelist \in Seq(Buffers)
    /\ conns \subseteq Slots \X Slots
    /\ ports \in [Apps -> SUBSET Slots]
    /\ active \subseteq Apps /\ dead \subseteq Apps
    /\ buffer_size \in Sizes
    /\ lib \in [Apps -> Seq(LibPort)]
    /\ asking \in [Apps -> Slots \cup {NoSlot}]

OutputSlots == {p \in Slots : port[p].in_use /\ ~port[p].input}

\* jack_port_assign_buffer and jack_port_release: through all registrations,
\* failures and closes, every buffer but the silent one is free once or belongs
\* to one output port. None leaks, none is written by two clients.
BuffersAreApart ==
    /\ \A b \in Buffers \ {zero_buffer} :
         Cardinality({i \in DOMAIN freelist : freelist[i] = b})
           + Cardinality({p \in OutputSlots : port[p].buffer = b}) = 1
    /\ zero_buffer \notin ToSet(freelist) \cup {port[p].buffer : p \in OutputSlots}

\* The port table and the lists of the clients agree, and connections are
\* between ports of active clients: a port id that a client kept after its port
\* was released cannot take anything from the next owner of the slot.
PortsHaveOwners ==
    /\ \A p \in Slots, c \in Apps :
         p \in ports[c] <=> port[p].in_use /\ port[p].owner = c
    /\ \A x \in conns : \A i \in {1, 2} :
         port[x[i]].in_use /\ port[x[i]].owner \in active \ dead

\* A port is found by its name as long as nobody renamed another to that.
NamesFindTheirPort ==
    ~renamed => \A p \in Slots : port[p].in_use =>
        jack_get_port_by_name(port, port[p].owner, port[p].name) = p

\* What a client thinks its port p is connected to.
Seen(c, p) ==
    LET i == jack_port_by_id_int(lib[c], p)
    IN  IF i = 0 THEN {} ELSE lib[c][i].connections

\* jack_port_get_buffer walks the client's own list, in its process callback,
\* without a lock: at every moment it is the server's, whatever slots were
\* reused, except for a port that was connected before its client knew of it.
ViewsMatch ==
    \A c \in active \ dead : \A p \in ports[c] \ lost :
        Seen(c, p) = Others(p, conns)

\* port.c, in jack_port_get_buffer, of several connections: "We have already
\* established the existence of a mixdown function during the connection
\* process". There is a buffer to mix into as well, of the present size unless
\* the last change of the size failed.
MixersFit ==
    \A c \in active \ dead : \A p \in ports[c] :
        port[p].input /\ Cardinality(Seen(c, p)) > 1 =>
            LET mix == lib[c][jack_port_by_id_int(lib[c], p)].mix_buffer
            IN  IF torn THEN mix # 0 ELSE mix = buffer_size

\* client.c, where a client is told of a connection: "jack_port_by_id_int()
\* always returns an internal port that does not need to be deallocated".
PortsAreKnown == lost = {}

\* The ports are kept: no two write into one buffer, the table, the clients'
\* lists and the names agree, and each client sees the connections there are and
\* has a buffer to mix them in.
PortsInv ==
    /\ PortsTypeOK
    /\ BuffersAreApart
    /\ PortsHaveOwners
    /\ NamesFindTheirPort
    /\ ViewsMatch
    /\ MixersFit
==============================================================================
