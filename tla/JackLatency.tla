----------------------------- MODULE JackLatency -----------------------------
(* The latencies of ports: how the engine asks every client, in the order of   *)
(* the graph and then backwards, to work out those of its ports from those     *)
(* they are connected to (jackd/engine.c, libjack/client.c), and the total      *)
(* latencies it computes itself. One event is delivered and answered at a time, *)
(* under the graph lock.                                                       *)
EXTENDS Naturals, Sequences, FiniteSets, FiniteSetsExt, SequencesExt

CONSTANTS
    LatencyClients,     \* clients, without the driver's
    InPorts, OutPorts,  \* client or Driver -> its ports of that direction
    Driver,
    Delay,              \* client -> frames its callback adds; 0 for one that has none
    DriverKinds,        \* "callback": the driver has one (ALSA); "plain"
    Periods,            \* sizes of a period
    MaxSorts,           \* bound on changes of the graph
    MaxAsked            \* bound on changes of the period, and on recomputations: with a
                        \* circle the latencies grow each time

Owners == LatencyClients \cup {Driver}
Ins == UNION {InPorts[c] : c \in Owners}
Outs == UNION {OutPorts[c] : c \in Owners}

ASSUME LatencyAssumption ==
    /\ IsFiniteSet(LatencyClients) /\ Driver \notin LatencyClients
    /\ DOMAIN InPorts = Owners /\ DOMAIN OutPorts = Owners
    /\ IsFiniteSet(Ins \cup Outs) /\ Ins \cap Outs = {}
    /\ \A a, b \in Owners : a # b => InPorts[a] \cap InPorts[b] = {} /\ OutPorts[a] \cap OutPorts[b] = {}
    /\ Delay \in [LatencyClients -> Nat]
    /\ DriverKinds \subseteq {"callback", "plain"} /\ Periods \subseteq Nat \ {0}

VARIABLES
    ltKind,         \* fixed: the kind of the driver
    ltConns,        \* connections, <<output, input>>
    ltOrder,        \* engine->clients
    ltRange,        \* capture_latency and playback_latency of every port
    ltLatency,      \* the shared latency of the driver's ports, which the totals are made of
    ltTotal,        \* total_latency
    ltEvents,       \* events still to be delivered, <<client, mode>>
    ltFrames,       \* frames_per_cycle of the driver
    ltChanges,      \* changes of the graph and of the period so far
    ltStale         \* the period changed since the totals were computed

latencyVars == <<ltKind, ltConns, ltOrder, ltRange, ltLatency, ltTotal, ltEvents, ltFrames, ltChanges, ltStale>>

Ports == Ins \cup Outs
ClientOf(p) == CHOOSE c \in Owners : p \in InPorts[c] \cup OutPorts[c]
Exactly(n) == [min |-> n, max |-> n]
Feeds(a, b) == \E o \in OutPorts[a], i \in InPorts[b] : <<o, i>> \in ltConns

Terminal == InPorts[Driver] \cup OutPorts[Driver]

\* The ports that take over what they are connected to, and those that depend on them.
Modes == {"capture", "playback"}
Taking(c, mode) == IF mode = "capture" THEN InPorts[c] ELSE OutPorts[c]
Depending(c, mode) == IF mode = "capture" THEN OutPorts[c] ELSE InPorts[c]

\* The connections between clients, and whether one of them closes a circle.
Feeding == {e \in LatencyClients \X LatencyClients : Feeds(e[1], e[2])}
Reaches == {r \in UNION {[1 .. n -> LatencyClients] : n \in 2 .. Cardinality(LatencyClients) + 1} :
                \A i \in 1 .. Len(r) - 1 : <<r[i], r[i + 1]>> \in Feeding}
Circular(e) == \E r \in Reaches : r[1] = e[2] /\ r[Len(r)] = e[1]
OnCircle(e) == e[1] = e[2] \/ Circular(e)

\* Orders that jack_sort_graph leaves: only a connection on a circle may go
\* backwards. Which one does is the matter of JackGraph.
Position(order, c) == CHOOSE i \in DOMAIN order : order[i] = c
Sorted == {order \in SetToSeqs(LatencyClients) :
            \A e \in Feeding : OnCircle(e) \/ Position(order, e[1]) < Position(order, e[2])}

LatencyInit ==
    /\ ltKind \in DriverKinds /\ ltConns = {} /\ ltEvents = <<>> /\ ltStale = FALSE
    /\ ltOrder \in SetToSeqs(LatencyClients) /\ ltFrames \in Periods
    /\ ltRange = [mode \in Modes |->
            [p \in Ports |-> Exactly(IF p \in Depending(Driver, mode) THEN ltFrames ELSE 0)]]
    /\ ltLatency = [p \in Ports |-> IF p \in Terminal THEN ltFrames ELSE 0]
    /\ ltTotal = ltLatency /\ ltChanges = [sorts |-> 0, sizes |-> 0, recomputes |-> 0]

------------------------------------------------------------------------------
(* What a client does with the event (jack_client_handle_latency_callback).    *)

\* From the highest of some ranges to the lowest; nothing is 0 to 0.
Spread(ranges) ==
    IF ranges = {} THEN Exactly(0)
    ELSE [min |-> Min({r.min : r \in ranges}), max |-> Max({r.max : r \in ranges})]
Plus(r, n) == [min |-> r.min + n, max |-> r.max + n]

ConnectedTo(p) == {q \in Ports : <<p, q>> \in ltConns \/ <<q, p>> \in ltConns}

\* jack_port_recalculate_latency
jack_port_recalculate_latency(p, mode) == Spread({ltRange[mode][q] : q \in ConnectedTo(p)})

Recalculated(c, mode) ==
    [p \in Ports |-> IF p \in Taking(c, mode) THEN jack_port_recalculate_latency(p, mode) ELSE ltRange[mode][p]]

\* A client's own callback, as jack.h has it written, and the default, which adds
\* nothing: every port depends on every other.
ClientHandles(c, mode) ==
    LET now == Recalculated(c, mode)
        through == Plus(Spread({now[p] : p \in Taking(c, mode)}), Delay[c])
    IN  ltRange' = [ltRange EXCEPT ![mode] =
                        [p \in Ports |-> IF p \in Depending(c, mode) THEN through ELSE now[p]]]

\* alsa_driver_latency_callback sets all ports of the driver, those that were
\* just worked out as well. jack_port_set_latency_range keeps the latency of
\* the driver's own direction for the totals.
alsa_driver_latency_callback(mode) ==
    [p \in Ports |-> IF p \in Terminal THEN Exactly(ltFrames) ELSE Recalculated(Driver, mode)[p]]

DriverHandles(mode) ==
    /\ ltRange' = [ltRange EXCEPT ![mode] =
            IF ltKind = "callback" THEN alsa_driver_latency_callback(mode) ELSE Recalculated(Driver, mode)]
    /\ ltLatency' = [p \in Ports |->
            IF ltKind = "callback" /\ p \in Depending(Driver, mode) THEN ltFrames ELSE ltLatency[p]]

------------------------------------------------------------------------------
(* What the engine does.                                                       *)

\* jack_compute_new_latency: the driver, the first of the list, is asked again
\* when all clients were, in both directions.
Asks(order, mode) == [i \in DOMAIN order |-> <<order[i], mode>>]

\* Mutant: playback is worked out in the order of the graph as well.
jack_compute_new_latency_Forward(order) ==
    LET list == <<Driver>> \o order
    IN  Asks(Append(list, Driver), "capture") \o Asks(Append(list, Driver), "playback")

jack_compute_new_latency(order) ==
    LET list == <<Driver>> \o order
    IN  Asks(Append(list, Driver), "capture") \o Asks(Append(Reverse(list), Driver), "playback")

\* jack_get_port_total_latency. It goes on at the other port of a connection and
\* stays in its direction, where that port has nothing further: the bound of
\* eight steps is never met.
AtOtherEnd(p, conns) == IF p \in Ins THEN {q \in Outs : <<q, p>> \in conns} ELSE {q \in Ins : <<p, q>> \in conns}
jack_get_port_total_latency(p, conns) == ltLatency[p] + Max({0} \cup {ltLatency[q] : q \in AtOtherEnd(p, conns)})

jack_compute_all_port_total_latencies(conns) ==
    ltTotal' = [p \in Ports |-> jack_get_port_total_latency(p, conns)]

\* A port is connected or disconnected, and the graph is sorted: the totals are
\* computed before the latencies they are made of.
Sorts ==
    /\ ltEvents = <<>> /\ ltChanges.sorts < MaxSorts
    /\ \E e \in Outs \X Ins : ltConns' = (ltConns \cup {e}) \ (ltConns \cap {e})
    /\ ltOrder' \in Sorted'
    /\ jack_compute_all_port_total_latencies(ltConns')
    /\ ltEvents' = jack_compute_new_latency(ltOrder') /\ ltStale' = FALSE
    /\ ltChanges' = [ltChanges EXCEPT !.sorts = @ + 1]
    /\ UNCHANGED <<ltKind, ltRange, ltLatency, ltFrames>>

\* jack_recompute_total_latencies
Recomputes ==
    /\ ltEvents = <<>> /\ ltChanges.recomputes < MaxAsked
    /\ jack_compute_all_port_total_latencies(ltConns)
    /\ ltChanges' = [ltChanges EXCEPT !.recomputes = @ + 1]
    /\ ltEvents' = jack_compute_new_latency(ltOrder) /\ ltStale' = FALSE
    /\ UNCHANGED <<ltKind, ltConns, ltOrder, ltRange, ltLatency, ltFrames>>

\* jack_recompute_total_latency, of one port
RecomputesOne ==
    /\ ltEvents = <<>>
    /\ \E p \in Ports : ltTotal' = [ltTotal EXCEPT ![p] = jack_get_port_total_latency(p, ltConns)]
    /\ UNCHANGED <<ltKind, ltConns, ltOrder, ltRange, ltLatency, ltEvents, ltFrames, ltChanges, ltStale>>

\* A new size of the period: the latencies are worked out, the totals are not.
SizeChanges ==
    /\ ltEvents = <<>> /\ ltChanges.sizes < MaxAsked
    /\ ltFrames' \in Periods \ {ltFrames} /\ ltEvents' = jack_compute_new_latency(ltOrder)
    /\ ltStale' = TRUE /\ ltChanges' = [ltChanges EXCEPT !.sizes = @ + 1]
    /\ UNCHANGED <<ltKind, ltConns, ltOrder, ltRange, ltLatency, ltTotal>>

\* jack_deliver_event, and its answer
Delivers ==
    /\ ltEvents # <<>> /\ ltEvents' = Tail(ltEvents)
    /\ LET c == Head(ltEvents)[1] mode == Head(ltEvents)[2]
       IN  IF c = Driver THEN DriverHandles(mode) ELSE ClientHandles(c, mode) /\ UNCHANGED ltLatency
    /\ UNCHANGED <<ltKind, ltConns, ltOrder, ltTotal, ltFrames, ltChanges, ltStale>>

LatencyNext == Sorts \/ Recomputes \/ RecomputesOne \/ SizeChanges \/ Delivers
LatencySpec == LatencyInit /\ [][LatencyNext]_latencyVars

------------------------------------------------------------------------------
(* What LatencyInv puts together, of graphs without circles, once all events    *)
(* are answered. A route is the clients that sound goes through.               *)

Settled == ltEvents = <<>> /\ ltChanges.sorts > 0 /\ \A e \in Feeding : ~OnCircle(e)

Routes == {r \in UNION {[1 .. n -> LatencyClients] : n \in 1 .. Cardinality(LatencyClients)} :
                \A i \in 1 .. Len(r) - 1 : <<r[i], r[i + 1]>> \in Feeding}

\* The ends of a route, seen from the client whose latencies it makes.
Near(r, mode) == IF mode = "capture" THEN r[Len(r)] ELSE r[1]
Far(r, mode) == IF mode = "capture" THEN r[1] ELSE r[Len(r)]

\* What a client's far side takes over from the driver; 0 from a port that is not
\* connected, or when it has none.
Outside(c, mode) ==
    {ltRange[mode][q].max : q \in Terminal \cap UNION {ConnectedTo(p) : p \in Taking(c, mode)}}
        \cup (IF Taking(c, mode) # {} /\ \A p \in Taking(c, mode) : ConnectedTo(p) # {} THEN {} ELSE {0})

\* What the clients of a route add.
Along(r) ==
    LET added[i \in 0 .. Len(r)] == IF i = 0 THEN 0 ELSE added[i - 1] + Delay[r[i]]
    IN  added[Len(r)]

\* All sums along the routes that end, or begin, at c.
Through(c, mode) ==
    UNION {{n + Along(r) : n \in Outside(Far(r, mode), mode)} :
              r \in {r \in Routes : Near(r, mode) = c}}

AlongRoutes(p, mode) ==
    {ltRange[mode][q].max : q \in ConnectedTo(p) \cap Terminal}
        \cup UNION {Through(ClientOf(q), mode) : q \in ConnectedTo(p) \ Terminal}

RangeOf(sums) == Spread({Exactly(n) : n \in sums})

\* The driver has the playback latency of its period: as it is asked for it after
\* all clients, they are a change of the period behind when it has a callback.
UpToDate(mode) == mode = "capture" \/ ltKind = "plain" \/ ~ltStale

\* The latencies of a client's ports are the shortest and the longest way to, and
\* from, the driver, whatever was connected before.
RangesAreOfRoutes ==
    Settled => \A c \in LatencyClients, mode \in {m \in Modes : UpToDate(m)} :
        /\ \A p \in Taking(c, mode) : ltRange[mode][p] = RangeOf(AlongRoutes(p, mode))
        /\ \A p \in Depending(c, mode) : ltRange[mode][p] = RangeOf(Through(c, mode))

\* So are those of the driver's other direction, unless its callback sets them.
DriverKnowsItsRoutes ==
    Settled /\ ltKind = "plain" => \A mode \in Modes :
        \A p \in Taking(Driver, mode) : ltRange[mode][p] = RangeOf(AlongRoutes(p, mode))

\* Totals are right until the period changes.
TotalsAreFresh ==
    ltEvents = <<>> /\ ~ltStale => \A p \in Ports : ltTotal[p] = jack_get_port_total_latency(p, ltConns)

LatencyInv == RangesAreOfRoutes /\ DriverKnowsItsRoutes /\ TotalsAreFresh
==============================================================================
