------------------------------ MODULE JackCycle ------------------------------
(* The process cycle of jackd. jack_rechain_graph cuts the client list into   *)
(* subgraphs of external clients that wake each other through numbered FIFOs, *)
(* with the internal clients, which the server calls itself, between them;    *)
(* jack_engine_process starts a subgraph with a byte in its first FIFO and    *)
(* waits for one in its last (jackd/engine.c, jackd/clientengine.c,           *)
(* libjack/client.c). Three threads meet here: the driver thread in the       *)
(* cycle, the server thread that removes failed clients and upsets, and the *)
(* process thread of each client, which may be late at any step.              *)
EXTENDS Integers, Sequences, FiniteSets, SequencesExt

CONSTANTS
    Processors,     \* clients with a process callback
    InProcess,      \* those of them that are internal
    MaxBytes,       \* bound: bytes in a FIFO, the extent of jack_clear_fifos
    MaxUpsets       \* bound: requests that reorder, deaths and late clients

ASSUME CycleAssumption ==
    /\ IsFiniteSet(Processors)
    /\ InProcess \subseteq Processors
    /\ MaxBytes \in Nat \ {0}
    /\ MaxUpsets \in Nat

VARIABLES
    clients,        \* the active clients in list order
    chain,          \* what jack_rechain_graph made of them, by client
    fifo,           \* bytes in each FIFO
    worker,         \* the process thread of each external client
    order,          \* the FIFO it waits on, as it was last told
    errors,         \* client->error: 0, 1 for late, 2 for a broken socket
    problems,       \* engine->problems
    driver,         \* where the driver thread is in its cycle
    server,         \* where the server thread is
    ran,            \* how often each client ran in this cycle
    clean,          \* nobody has been late since the chain was made
    upsets          \* how many of those there were

cycleVars == <<clients, chain, fifo, worker, order, errors, problems, driver,
               server, ran, clean, upsets>>

None == -1
External == Processors \ InProcess
Fifos == 0 .. 2 * Cardinality(Processors)
Active == ToSet(clients)
\* "woke": the next one is woken, the client's own byte is not read yet.
Workers == {"polling", "processing", "woke", "gone"}
Unchained == [start |-> None, wait |-> None, order |-> None]

------------------------------------------------------------------------------
(* The chain.                                                                 *)

\* One client after another: n is the next FIFO, head the subgraph's first.
ChainInternal(st, c) ==
    IF st.head = {} THEN [st EXCEPT !.chain[c].order = st.n]
    ELSE [n |-> st.n + 1, head |-> {},
          chain |-> [d \in Processors |->
            IF d \in st.head THEN [st.chain[d] EXCEPT !.wait = st.n]
            ELSE IF d = c THEN [st.chain[d] EXCEPT !.order = st.n]
            ELSE st.chain[d]]]

ChainExternal(st, c) ==
    [n |-> st.n + 1,
     head |-> IF st.head = {} THEN {c} ELSE st.head,
     chain |-> [st.chain EXCEPT
        ![c] = [start |-> IF st.head = {} THEN st.n ELSE None,
                wait |-> None, order |-> st.n]]]

\* walk[i]: after i clients.
jack_rechain_graph(l) ==
    LET walk[i \in 0 .. Len(l)] ==
            IF i = 0 THEN [n |-> 0, head |-> {}, chain |-> [c \in Processors |-> Unchained]]
            ELSE IF l[i] \in InProcess THEN ChainInternal(walk[i - 1], l[i])
            ELSE ChainExternal(walk[i - 1], l[i])
        end == walk[Len(l)]
    IN  [c \in Processors |->
            IF c \in end.head THEN [end.chain[c] EXCEPT !.wait = end.n]
                              ELSE end.chain[c]]

\* A list without the clients that are not in S, in its order.
Keeping(l, S) ==
    LET kept[i \in 0 .. Len(l)] ==
            IF i = 0 THEN <<>>
            ELSE IF l[i] \in S THEN Append(kept[i - 1], l[i])
            ELSE kept[i - 1]
    IN  kept[Len(l)]

\* Mutant: the bytes stay.
jack_clear_fifos_Not == fifo

\* Reading up to 16 bytes takes all the model can put there.
jack_clear_fifos == [f \in Fifos |-> 0]

Put(f) == [fifo EXCEPT ![f] = IF @ = MaxBytes THEN @ ELSE @ + 1]
Take(f) == [fifo EXCEPT ![f] = IF @ = 0 THEN 0 ELSE @ - 1]

------------------------------------------------------------------------------
(* The server thread, with the graph locked for writing.                      *)

Unlocked == server.doing = "polling" /\ driver.doing = "idle"

\* The list becomes l: it is chained, and each client told in list order.
Reorders(l, took) ==
    /\ clients' = l
    /\ chain' = jack_rechain_graph(l)
    /\ fifo' = jack_clear_fifos
    /\ server' = [doing |-> "telling", tell |-> Keeping(l, External), took |-> took]
    /\ clean' = \A c \in External : worker[c] # "processing"

Orders == {l \in [1 .. Cardinality(Processors) -> Processors] : ToSet(l) = Processors}

\* Every client has been activated, and its thread waits for the first cycle.
CycleInit ==
    /\ clients \in Orders
    /\ chain = jack_rechain_graph(clients)
    /\ fifo = [f \in Fifos |-> 0]
    /\ worker = [c \in External |-> "polling"]
    /\ order = [c \in External |-> chain[c].order]
    /\ errors = [c \in Processors |-> 0]
    /\ problems = 0
    /\ driver = [doing |-> "idle", at |-> 0]
    /\ server = [doing |-> "polling", tell |-> <<>>, took |-> 0]
    /\ ran = [c \in Processors |-> 0]
    /\ clean = TRUE
    /\ upsets = 0

\* A client is activated; an external one is a new process.
Joins(c) ==
    /\ Unlocked
    /\ upsets < MaxUpsets
    /\ c \notin Active
    /\ c \in External => worker[c] = "gone"
    /\ Reorders(<<c>> \o clients, 0)
    /\ worker' = IF c \in External THEN [worker EXCEPT ![c] = "polling"] ELSE worker
    /\ upsets' = upsets + 1
    /\ UNCHANGED <<order, errors, problems, driver, ran>>

\* A connection comes or goes: JackGraph shows which order results.
SortsAnew(l) ==
    /\ Unlocked
    /\ upsets < MaxUpsets
    /\ Reorders(l, 0)
    /\ upsets' = upsets + 1
    /\ UNCHANGED <<worker, order, errors, problems, driver, ran>>

\* handle_unload_client takes an internal client off the list and no more.
Unloads(c) ==
    /\ Unlocked
    /\ upsets < MaxUpsets
    /\ c \in Active \cap InProcess
    /\ clients' = Keeping(clients, Active \ {c})
    /\ clean' = FALSE
    /\ upsets' = upsets + 1
    /\ UNCHANGED <<chain, fifo, worker, order, errors, problems, driver, server, ran>>

\* jack_deliver_event: the client handles GraphReordered when it polls ...
Acknowledges ==
    /\ server.tell # <<>>
    /\ worker[Head(server.tell)] = "polling"
    /\ order' = [order EXCEPT ![Head(server.tell)] = chain[Head(server.tell)].order]
    /\ server' = [server EXCEPT !.tell = Tail(@)]
    /\ UNCHANGED <<clients, chain, fifo, worker, errors, problems, driver, ran,
                   clean, upsets>>

\* ... and is lost if it does not in time.
DoesNotAnswer ==
    /\ server.tell # <<>>
    /\ worker[Head(server.tell)] # "polling"
    /\ errors' = [errors EXCEPT ![Head(server.tell)] = 2]
    /\ problems' = problems + 1
    /\ server' = [server EXCEPT !.tell = Tail(@)]
    /\ UNCHANGED <<clients, chain, fifo, worker, order, driver, ran, clean, upsets>>

\* Everyone is told: the lock is released, the problems that were there when
\* the removal began are taken off.
Told ==
    /\ server.doing = "telling"
    /\ server.tell = <<>>
    /\ server' = [server EXCEPT !.doing = "polling"]
    /\ problems' = problems - server.took
    /\ UNCHANGED <<clients, chain, fifo, worker, order, errors, driver, ran,
                   clean, upsets>>

\* The server thread finds problems: jack_remove_clients.
RemovesClients ==
    /\ Unlocked
    /\ problems > 0
    /\ \E c \in Active : errors[c] # 0
    /\ Reorders(Keeping(clients, {c \in Active : errors[c] = 0}), problems)
    /\ errors' = [c \in Processors |-> 0]
    /\ UNCHANGED <<worker, order, problems, driver, ran, upsets>>

\* A broken socket is seen under the read lock, beside the cycle.
SeesBrokenSocket(c) ==
    /\ server.doing = "polling"
    /\ c \in Active \cap External
    /\ worker[c] = "gone"
    /\ errors[c] # 2
    /\ errors' = [errors EXCEPT ![c] = 2]
    /\ problems' = problems + 1
    /\ UNCHANGED <<clients, chain, fifo, worker, order, driver, server, ran,
                   clean, upsets>>

------------------------------------------------------------------------------
(* The driver thread.                                                         *)

\* jack_run_one_cycle, when it gets the lock and there are no problems; a null
\* cycle otherwise.
StartsCycle ==
    /\ Unlocked
    /\ problems = 0
    /\ driver' = [doing |-> "walking", at |-> 1]
    /\ ran' = [c \in Processors |-> 0]
    /\ UNCHANGED <<clients, chain, fifo, worker, order, errors, problems, server,
                   clean, upsets>>

\* jack_process_internal; a callback that fails ends the cycle.
CallsInternal(fails) ==
    /\ driver.doing = "walking"
    /\ driver.at <= Len(clients)
    /\ clients[driver.at] \in InProcess
    /\ ran' = [ran EXCEPT ![clients[driver.at]] = @ + 1]
    /\ driver' = IF fails THEN [driver EXCEPT !.doing = "cut"]
                          ELSE [driver EXCEPT !.at = @ + 1]
    /\ UNCHANGED <<clients, chain, fifo, worker, order, errors, problems, server,
                   clean, upsets>>

\* jack_process_external, up to the poll.
StartsSubgraph ==
    /\ driver.doing = "walking"
    /\ driver.at <= Len(clients)
    /\ clients[driver.at] \in External
    /\ fifo' = Put(chain[clients[driver.at]].start)
    /\ driver' = [driver EXCEPT !.doing = "waiting"]
    /\ UNCHANGED <<clients, chain, worker, order, errors, problems, server, ran,
                   clean, upsets>>

\* The internal client after the subgraph, or the end of the list.
NextInternal ==
    LET later == {i \in driver.at .. Len(clients) : clients[i] \in InProcess}
    IN  IF later = {} THEN Len(clients) + 1
        ELSE CHOOSE i \in later : \A j \in later : i <= j

SubgraphIsDone ==
    /\ driver.doing = "waiting"
    /\ fifo[chain[clients[driver.at]].wait] > 0
    /\ fifo' = Take(chain[clients[driver.at]].wait)
    /\ driver' = [doing |-> "walking", at |-> NextInternal]
    /\ UNCHANGED <<clients, chain, worker, order, errors, problems, server, ran,
                   clean, upsets>>

\* Some client may yet go on; else only the poll's timeout gets the cycle on.
Moving ==
    \E c \in External :
        \/ worker[c] \in {"processing", "woke"}
        \/ worker[c] = "polling" /\ fifo[order[c]] > 0

\* The poll times out. Clients that woke and did not finish even when given
\* more time are late; one that did not wake is not blamed. Either way there
\* is no byte to read and the cycle ends here.
TimesOut ==
    /\ driver.doing = "waiting"
    /\ Moving => upsets < MaxUpsets
    /\ upsets' = IF Moving THEN upsets + 1 ELSE upsets
    /\ fifo[chain[clients[driver.at]].wait] = 0
    /\ LET late == {c \in Active \cap External :
                      worker[c] = "processing" /\ errors[c] = 0}
       IN  /\ errors' = [c \in Processors |-> IF c \in late THEN 1 ELSE errors[c]]
           /\ problems' = IF \E c \in Active : errors'[c] # 0 THEN problems + 1
                                                              ELSE problems
    /\ driver' = [driver EXCEPT !.doing = "cut"]
    /\ clean' = FALSE
    /\ UNCHANGED <<clients, chain, fifo, worker, order, server, ran>>

\* jack_engine_post_process; jack_check_clients counts errors once more.
EndsCycle ==
    /\ \/ driver.doing = "cut"
       \/ driver.doing = "walking" /\ driver.at > Len(clients)
    /\ driver' = [doing |-> "idle", at |-> 0]
    /\ problems' = IF \E c \in Active : errors[c] # 0 THEN problems + 1 ELSE problems
    /\ UNCHANGED <<clients, chain, fifo, worker, order, errors, server, ran,
                   clean, upsets>>

------------------------------------------------------------------------------
(* The process thread of an external client.                                  *)

\* jack_client_core_wait: there is a byte in the FIFO it waits on. A zombie
\* sees that it is one.
Wakes(c) ==
    /\ worker[c] = "polling"
    /\ fifo[order[c]] > 0
    /\ worker' = [worker EXCEPT ![c] = IF c \in Active THEN "processing" ELSE "gone"]
    /\ ran' = IF c \in Active THEN [ran EXCEPT ![c] = @ + 1] ELSE ran
    /\ UNCHANGED <<clients, chain, fifo, order, errors, problems, driver, server,
                   clean, upsets>>

\* jack_wake_next_client: first the byte for the next one ...
WakesNext(c) ==
    /\ worker[c] = "processing"
    /\ worker' = [worker EXCEPT ![c] = "woke"]
    /\ fifo' = Put(order[c] + 1)
    /\ UNCHANGED <<clients, chain, order, errors, problems, driver, server, ran,
                   clean, upsets>>

\* ... then its own is read.
CleansUp(c) ==
    /\ worker[c] = "woke"
    /\ worker' = [worker EXCEPT ![c] = "polling"]
    /\ fifo' = Take(order[c])
    /\ UNCHANGED <<clients, chain, order, errors, problems, driver, server, ran,
                   clean, upsets>>

\* The process is killed.
Dies(c) ==
    /\ upsets < MaxUpsets
    /\ worker[c] # "gone"
    /\ worker' = [worker EXCEPT ![c] = "gone"]
    /\ clean' = FALSE
    /\ upsets' = upsets + 1
    /\ UNCHANGED <<clients, chain, fifo, order, errors, problems, driver, server,
                   ran>>

Permuted == {l \in [1 .. Len(clients) -> Active] : ToSet(l) = Active}

ServerThread == Acknowledges \/ DoesNotAnswer \/ Told \/ RemovesClients

DriverThread ==
    \/ StartsCycle \/ StartsSubgraph \/ SubgraphIsDone \/ TimesOut \/ EndsCycle
    \/ \E fails \in BOOLEAN : CallsInternal(fails)

Worker(c) == Wakes(c) \/ WakesNext(c) \/ CleansUp(c)

CycleNext ==
    \/ ServerThread
    \/ DriverThread
    \/ \E c \in External : Worker(c) \/ Dies(c) \/ SeesBrokenSocket(c)
    \/ \E c \in Processors : Joins(c) \/ Unloads(c)
    \/ \E l \in Permuted : SortsAnew(l)

CycleSpec == CycleInit /\ [][CycleNext]_cycleVars

------------------------------------------------------------------------------
(* What the chain promises.                                                   *)

\* The chain, the threads and the counters are well formed.
CycleTypeOK ==
    /\ clients \in Seq(Processors)
    /\ chain \in [Processors -> [start : Fifos \cup {None}, wait : Fifos \cup {None},
                                 order : Fifos \cup {None}]]
    /\ fifo \in [Fifos -> 0 .. MaxBytes]
    /\ worker \in [External -> Workers]
    /\ order \in [External -> Fifos]
    /\ errors \in [Processors -> 0 .. 2]
    /\ problems \in Nat
    /\ upsets \in 0 .. MaxUpsets

\* jack_rechain_graph: along the list, an external client is woken by the one
\* before it or, if that is internal, by the server, and the last of a subgraph
\* writes where the server waits: no two clients share a FIFO to wait on.
ChainIsWhole ==
    clean => \A i \in DOMAIN clients : clients[i] \in External =>
        LET c == clients[i]
            first == i = 1 \/ clients[i - 1] \in InProcess
            last == i = Len(clients) \/ clients[i + 1] \in InProcess
            head == CHOOSE h \in 1 .. i :
                      /\ \A j \in h .. i : clients[j] \in External
                      /\ h = 1 \/ clients[h - 1] \in InProcess
        IN  /\ first => chain[c].start = chain[c].order
            /\ ~first => chain[c].order = chain[clients[i - 1]].order + 1
            /\ last => chain[clients[head]].wait = chain[c].order + 1
            /\ \A j \in DOMAIN clients :
                 j # i /\ clients[j] \in External
                   => chain[clients[j]].order # chain[c].order
            /\ \A j \in DOMAIN clients :
                 chain[clients[j]].wait # chain[c].order

\* As long as no client has been late since the chain was made, each active
\* client runs once in a cycle, in list order, before the cycle goes on.
RunsOnceInOrder ==
    clean /\ driver.doing = "walking" =>
        \A i \in DOMAIN clients :
            ran[clients[i]] = IF i < driver.at THEN 1 ELSE 0

\* The clients of a chain run one at a time, each when all before it are done.
OneAtATime ==
    clean => \A i \in DOMAIN clients :
        clients[i] \in External /\ worker[clients[i]] = "processing" =>
            /\ driver.doing = "waiting" /\ driver.at <= i
            /\ \A j \in 1 .. i - 1 :
                 /\ ran[clients[j]] = 1
                 /\ clients[j] \in External => worker[clients[j]] # "processing"

\* Between subgraphs the FIFOs hold nothing but the bytes of clients that have
\* yet to read their own: after any reorder with nobody in the middle of a
\* process callback the next cycle starts from clean FIFOs.
FifosAreDrained ==
    clean /\ driver.doing \in {"idle", "walking"} /\ server.doing = "polling" =>
        \A f \in Fifos :
            fifo[f] <= Cardinality({c \in External : worker[c] = "woke" /\ order[c] = f})

\* While an active client has an error, problems is not 0, so that no cycle
\* starts with it: errors that arise while others are removed are counted on.
ErrorsAreCounted ==
    (\E c \in Active : errors[c] # 0) => problems > 0

\* engine.c, of the FIFOs: "there is only ever going to be 0, 1 or 2 bytes in
\* them". The server starts the subgraph anew each cycle, and does not blame a
\* client that has not woken yet.
FifosHoldFewBytes == \A f \in Fifos : fifo[f] <= 2

CycleFairness ==
    /\ WF_cycleVars(ServerThread)
    /\ WF_cycleVars(DriverThread)
    /\ \A c \in External : WF_cycleVars(Worker(c))
    /\ \A c \in External : WF_cycleVars(SeesBrokenSocket(c))

FairCycleSpec == CycleSpec /\ CycleFairness

\* The server gets rid of every client that failed, the ones that fail while it
\* does so too, and cycles start again.
ProblemsAreCleared == problems > 0 ~> problems = 0

\* The cycle is kept: the FIFOs form one chain, its clients run once each, in
\* order, one at a time, it starts from clean FIFOs, and no error is forgotten.
CycleInv ==
    /\ CycleTypeOK
    /\ ChainIsWhole
    /\ RunsOnceInOrder
    /\ OneAtATime
    /\ FifosAreDrained
    /\ ErrorsAreCounted
==============================================================================
