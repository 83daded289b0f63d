# A formal model of the to-do watch

The repository is a to-do list for a smart watch. It holds a Wear OS
application (`WearOS-GUI/`, Java), a REST API in front of Redis (`restful-api/`,
Node), a speech pipeline (`speech-interpreter/`, Python) and, for the pipeline's
sound, the sources of the JACK audio connection kit 0.126.0
(`speech-interpreter/deepspeech/jack-audio-connection-kit-0.126.0/`, C), which are
nine tenths of its code. This directory holds TLA+ models of the watch, the REST
API and JACK, the TLC runs that check them and proofs that TLAPS checks. Every
definition is translated from the source; `map` in `PROJECT.json` names the lines.

## The system

### Todo lists, pager and preference files

`MainActivity.onCreate` finds or creates the user (`UserData`), reads or seeds
two todo lists (`TodoDatabase` over the preference files `personalTodoTemp` and
`groupTodo`) and attaches a two-page pager. `TodoPageAdapter` builds a page from
the list and database it holds at that moment; `onPageSelected` changes them.
`FilteredTodoFragment` draws a page and, when a box is checked, marks the todo,
redraws and stores.

- State: three preference files, each in memory, on disk and in the queue of
  writes; the user; two list objects; the adapter; the pages.
- Operations: launch, `createUser`, `fetchPersonalTodos`/`fetchGroupTodos`,
  `insertTodo`, `createFragment`, `onPageSelected`, `updateLocationAndTime`, the
  check listener and `updateTodo`; stop, restart, finish, kill, write-behind.
- Hard: `apply()` writes behind, the process may die anywhere, pages are built
  in an order the user's finger decides, sorting may throw between two effects.
- Correct when: a page shows and writes the list of its tab; what is shown is
  what is stored; a list loses nothing but by a crash, which falls back to an
  earlier list; the user is created once and before any list.

### REST handlers and the Redis connection

`watchController` moves tasks from a user's set to the set `completed`,
`echoController` keeps todos as fields of two hashes. Handlers are async
functions: they interleave at every `await`, and an error nobody catches ends
the process. `initRedis.getConnection` returns the one client while a flag is up
and makes another client while it is down; every client's events set that flag.

- State: the values in Redis, each handler's position, one undeclared, hence
  global, loop variable; the flag and the clients.
- Hard: overlapping handlers, a move made of two commands, a kill and a retry,
  two routes that use one key space for different types; clients that are
  forgotten and go on setting the flag.
- Correct when: acknowledged work is done, only listed and named tasks move, a
  crash loses at most the task in flight, every request is answered; nobody waits
  forever for a connection and the flag comes back up.

### Notification service and context scoring

`TodoNotificationService`, started by every `onResume`, posts a `Runnable` that
checks the lists once a period, notifies the top todo and posts itself again.
Outside test mode it keeps a cache of what was notified in 24 hours and is silent
under high cognitive load (`ContextDetector`). It reads both lists through
`TodoDatabase.getInstance`, which knows one instance for all keys. `TimeMapper`
and `LocationMapper` turn a reading into the first matching entry of the user's
maps; `TodoSorter` orders open todos by a weighted score.

- Hard: loops of several visits and of stopped services, a cache that is written
  behind, a sticky restart in a process without user, permissions taken back;
  ranges across midnight, the order a map is iterated in, ties.
- Correct when: it reminds, not twice a day and not from a dead process; a minute
  has one context, higher scores come first, ties keep the list's order.

### JACK: the server

`jackd` keeps a list of clients, their ports and the connections between them,
sorts the clients so that each runs after those that feed it, and runs them all
once a period. Clients are processes with a thread of their own (external) or
libraries loaded into the server (internal). External clients wake each other
through numbered FIFOs. Requests come over sockets to the server thread; the
driver's thread runs the cycle; a freewheel thread takes its place on demand;
shared memory holds ports, the transport and the clients' control blocks.

- State: the client list with its two feeds relations (`JackGraph`), the port
  table, buffers and each client's copy of its ports (`JackPorts`), names and
  UUIDs (`JackClients`), the FIFOs and the clients' states in a cycle
  (`JackCycle`), the threads and locks (`JackEngine`), the transport
  (`JackTransport`), replies owed to a session manager (`JackSession`), the
  latencies of ports (`JackLatency`); the registered server, its socket files and
  the clients half-way through their opening (`JackOpen`).
- Hard: a request served between two cycles, a client that dies between the two
  steps of its opening, a client that is late and runs beside the next cycle, one
  lock tried from the cycle and held by a request, threads that end each other,
  clients that start a server each, a temporary server that ends as the next
  client queues.
- Correct when: what several places say of a client, a port or a connection
  agrees; the cycle runs every client once and in order and survives those that
  fail; the transport rolls when everybody is ready; a client hears what it asked.

### JACK: the library

A lock-free ring buffer (`RingBuffer`), MIDI buffers (`MidiPort`), the registry of
shared memory segments that servers and clients of a machine share
(`ShmRegistry`), the database of properties (`JackMetadata`). Hard: two threads
without a lock, a process killed while it holds the registry, two indices that
grow towards each other, four steps no lock joins.

### JACK: the drivers

A driver waits for a period of the device, runs the cycle, copies samples, and
starts anew after an xrun (`AlsaDriver`, `BsdDrivers`); the network
driver builds its periods from datagrams (`NetJack`, `NetPacket`). Hard: a device
that goes on while the driver is late, two threads that meet at a barrier, lost,
late and reordered datagrams, deadlines.

The FireWire drivers (`FirewireDrivers`, `FirewireMidi`) point the buffers of a
device's streams at ports and pack MIDI a byte to a slot; CoreAudio and PortAudio
(`CallbackDrivers`) call the driver. Options reach all of them by one table of
letters and defaults (`DriverOptions`, `ServerOptions`). Hard: each of a dozen steps
of an attach or a change of the period may fail and must leave what can be
detached; a MIDI message cut by the end of a period; defaults that are kept twice.

The parts meet in few places: the service and the pages share the preference
files and `UserManager` in one process; all handlers share one Redis and one
connection object; the watch and the REST API do not talk to each other yet
(`RedisHelper` is a stub); the parts of JACK meet in the engine and its two locks.

## Modules

| Module | What it is |
| --- | --- |
| `DurableTodos` | what one list promises: a write-behind list and crashes |
| `TodoApp` | lists, pager, preference files; implements `DurableTodos` twice |
| `TodoAppProofs` | theorems about `TodoApp` |
| `TaskLedger` | what completing tasks promises: one-step moves, losses only in a crash |
| `RestApi` | both controllers over Redis; one DELETE at a time implements `TaskLedger` |
| `RestApiProofs` | theorems about `RestApi` and `RedisConnection` |
| `RedisConnection` | the connection singleton and its clients |
| `ContextScore` | ranges, mappers, score and order, as operators |
| `NotificationService` | the service; extends `ContextScore` |
| `WatchProofs` | theorems about `MCContextScore` and `NotificationService` |
| `JackGraph` | connections, feeds, sorting, activation, zombies |
| `JackGraphProofs` | theorems about `JackGraph` |
| `JackPorts` | the port table, buffers, names, and the clients' copies |
| `JackClients` | opening in two steps, reserved names, UUIDs, removal |
| `JackCycle` | the chain of FIFOs, late and failing clients |
| `JackEngine` | driver, freewheel, server and main thread with every lock |
| `JackTransport` | commands, slow-sync clients, timebase master |
| `JackSession` | session notifications and their replies |
| `JackLatency` | latencies of ports, asked for forwards and backwards through the graph, and totals |
| `JackOpen` | clients that find or start a server, and servers from registration to death |
| `JackClientsProofs` | theorems about `JackOpen`, `JackClients`, `JackSession` and `JackTransport` |
| `JackPortsProofs` | theorems about `JackPorts` and `JackCycle` |
| `RingBuffer`, `MidiPort`, `ShmRegistry`, `JackMetadata` | the library |
| `JackSharedProofs` | theorems about `RingBuffer`, `MidiPort`, `JackMetadata` and `ShmRegistry` |
| `NetJack`, `NetPacket`, `AlsaDriver`, `BsdDrivers` | drivers that wait for a device; `BsdDrivers` are those of Sun, sndio and OSS |
| `FirewireDrivers`, `FirewireMidi` | the two FireWire drivers: ports, buffers, cycles; the bytes of MIDI |
| `CallbackDrivers` | CoreAudio and PortAudio, whose cycle is a callback |
| `DriverOptions`, `ServerOptions` | from a letter on the command line, or a parameter of the control API, to what is opened |
| `JackDriversProofs` | theorems about the drivers `BsdDrivers`, `AlsaDriver`, `CallbackDrivers`, `NetJack`, `FirewireDrivers`, and about `JackEngine`, whose threads call them |
| `MC...` | instances for TLC |

**How state corresponds.** In `TodoApp`, `mem`, `disk` and `writes` are a
preference file as the process sees it, as a new process would load it, and the
disk-write queue; `items` are the list objects, `frag[p]` a page with the list
and database it was built from and the boxes it drew; each access to a
preference file in `onCreate` is a step. In `RestApi`, `pc[r]` is the command
request `r` awaits and an action is what its handler does from one await to the
next; a command takes effect when it is issued (Redis executes them in order)
and its answer waits in `reply[r]`. In `RedisConnection`, `link[c]` is client
`c`'s socket, `waits` and `got` what a call awaits and returned. In
`NotificationService`, time is counted in loop periods, `Readings` says which
minute each is, and the ages of cache entries and notifications stop at a day, so
that the state space is finite without a bound on time.

In the JACK modules a request is one step where the server holds the graph lock
for all of it, and one step per lock, wait or device call where it does not.
Variables have the names of the C fields (`g.clients`, `g.sortfeeds`, `ctl.sync_remain`,
`shared`, `write_ptr`); a thread's position is a variable of its own (`bsdPc`,
`main`, `freewheel`). Pointers are model values or numbers of slots, samples are
numbered periods or "silence", times are what comes first. Where C's behaviour is
undefined (a field read through a freed pointer), the model takes any value or
goes to a state named `undefined`, which an invariant then excludes or, where the
code does reach it, an assumption of the instance does.

In `JackLatency`, `ltEvents` are the latency events still to be delivered and
answered, under the graph lock. In `JackOpen`, `opAt[c]` is the line a client's
`jack_client_open_aux` has reached and `svAt[s]` how far a server's `main` has; a
server has the name of the client that started it. In `FirewireDrivers` and
`CallbackDrivers` an action is one call of the engine (attach, start, read, write,
bufsize, ...) or of the sound system, and every call it makes may fail. In
`DriverOptions` a parameter is its letter and a value a number, and only the
conversions the drivers make (a flag that is set, a default that is overridden, a
channel count of 0) tell values apart.

**Operators named `..._Something` next to a definition** are mutated forms: each
is the definition with one plausible bug, and breaks a property of a run.

## Runs

The parts of JACK do not share state in the models, so a run takes several of
them: `part` names the one a behaviour runs, `Parts` in the cfg those that are
run, and a property such as `GraphInv` is the conjunction of what one part keeps.

| Run | Result | Question |
| --- | --- | --- |
| `TodoAppTabs` | holds | pages selected by tab only: own list, fresh boxes |
| `TodoAppCrash` | holds | durability, one user, unique titles, progress, with kills anywhere |
| `Watch` | holds | all 1440 minutes under all orders of the map; all lists of up to three todos in two places; the 24-hour cache with several loops |
| `RestApi` | holds | well-formed requests without faults; malformed and foreign ones without and with kills and refused commands; the connection through two outages |
| `NotifyReminders` | holds | test mode with all faults: reminders go on |
| `JackServer` | holds | transport, cycle, engine threads and session, each through every interleaving |
| `JackLive` | holds | the same, smaller, under fairness |
| `JackClients` | holds | graph, ports, clients, and openings with the servers they start (`OpeningInv`) |
| `JackLibrary` | holds | ring buffer, MIDI buffers, registry, properties, and latencies (`LatencyInv`) |
| `JackDrivers` | holds | network (`NetInv`), ALSA, OSS, Sun and sndio, FireWire (`FirewireInv`), CoreAudio and PortAudio drivers (`CallbackInv`); what passes a value on: options, packets, MIDI of a wire (`PassedOnInv`) |
| `JackOrder` | violated | with five clients the sort puts one before the client that feeds it |
| `ShmKilled` | violated | a server killed at the wrong line keeps JACK from starting |

The violated runs are disagreements between the code and its comments;
`findings` in `PROJECT.json` quotes the lines. More disagreements shape a model
without a run of their own:

- A page dragged into sight is built from the other tab's list: `TodoAppTabs`
  therefore selects pages by tab only (`Drags = FALSE`).
- Two overlapping DELETEs share the undeclared loop variable, so that one moves
  the other's task; GET never answers 404, although the test asks for it.
- `before_working` names no `Time` (the constant is `BEFORE_WORK`): from 7:00 to
  8:59 `mapTimeToContext` answers `Throws`, and every check or redraw that orders
  two todos ends the process.
- `sRem` and `sAdd` are two commands. Killed between them, a task is in neither
  set, and a retried DELETE is acknowledged all the same; `TaskLedger` allows
  this loss in `GoDown` and no other.
- Calls that find the flag of `initRedis` down get different clients, although
  the comment promises the same one.
- A check in the SLEEP range notifies like any other, and two loops (an old
  service's and a new one's) check in one period.
- A process killed before the cache is written notifies a todo again within the
  24 hours; the part "cache" of `Watch` therefore stops services but kills no process.
- Four more comments of JACK do not hold. They are stated as definitions no run
  checks: `ReservedNameIsGiven` (session.h: a client that opens with a reserved
  UUID gets the reserved name), `FifosHoldFewBytes` (engine.c: a FIFO never holds
  more than two bytes), `PortsAreKnown` (client.c: the port a client is told of a
  connection is always one of its own list) and `EventsKeepTheirHeaders`
  (midiport.h: an event of the announced largest size fits, which it does not when
  its data ends where its own header would be).
- Latencies. After a change of the buffer size only the new latencies are worked
  out (engine.c:1312), so totals stay old, and as a driver with a callback (ALSA)
  is asked last when the list is walked backwards, clients' playback latencies are
  one change behind: `UpToDate` and `ltStale` say until when. A total goes no further
  than one connection, although jack.h speaks of all paths. Circles make latencies
  grow with every recomputation; the property is about graphs without them.
- Openings. A client that fails after the server answered (its segments, its event
  connection) gets NULL without `JackFailure`; `FailureIsTold` allows just that. The
  indices a client got are looked up in the registry of the next server if its own
  has gone, and may be another client's (`Holders`). A client in the queue of a
  temporary server that ends waits for it and then fails, and starts no other;
  until a server that ends has unregistered, the next one finds its name taken.
- FireWire. A null cycle is said to write silence but sends the MIDI bytes of the
  period before again (ffado); `ffado_driver_write` says it stops at a full overflow
  buffer but goes on; midi_unpack.h says a large SysEx is dropped, but its first
  bytes are given out; freebob's detach stops at the first stream without a port.
- CoreAudio and PortAudio. Playback ports get the capture latency; a change of the
  period answers success and does nothing (CoreAudio), or works its period time out
  of the old size and opens the default devices (PortAudio); after an overload the
  callback leaves the device's buffer as it was.
- ALSA. When a wakeup finds more than one period a cycle runs for each, but the
  channels that get silence if no port writes them (alsa_driver.c:1243) are noted once
  a wakeup (line 1499): a channel written in the first cycle and not in the second
  plays old sound. `AlsaInv` excepts channels that were passed over;
  `PassedOverPlayOnce` states what is lost and no run checks it.
- Options. A parameter that is reset (control.h: "to its default value") keeps its
  value in the list the driver gets if it was set before; `ResetReachesDriver` states
  it and no run checks it. The words jackd.c describes for a client to load are
  refused, and the clock source of a server parameter is not used.

### Bounds

- `TodoApp`: two seeds in one list, one in the other, so a page orders zero, one
  or two open todos (only two are ever compared); two candidate users; a good
  and a bad clock reading. With the real seeds (three and two) the crash run
  passes as well, in 218,922 states.
- `RestApi`: two DELETEs that share a task, one that repeats a task and names one
  not listed, one for an unknown user, one without tasks, one for a key of the
  other route; POSTs to both keys; a GET. Whether faults come is chosen once (the
  fixed variable `faults`); the well-formed six run without, five with the malformed
  ones both ways. A listed task nobody names shows that nothing else moves. That types and acknowledged POSTs survive overlapping DELETEs
  as well is proved.
- `RedisConnection`: three calls and two outages: two clients at once, one of
  them forgotten, each losing and finding Redis.
- `ContextScore`: all of the day; lists of three are enough for an order to have
  a middle, and the twelve todos cover every score.
- `NotificationService`: a day of two or three periods (work, rest, night and
  the hours before work), two loops, two personal todos and a group one.
- `JackGraph`: an external and an internal client and a driver, each able to feed
  itself and the others, and four connections: enough for a cycle through two
  clients beside a path. `JackOrder` needs five clients for its two-half merge.
- `JackPorts`, `JackClients`: two processes and two names, three ports or client
  structures: one of each kind is left when two collide.
- `JackCycle`: three clients, of which one internal (two subgraphs), and two
  upsets. `JackTransport`: two slow clients, three positions and a timeout of two
  cycles. `JackEngine`: one fault of each kind at any step and four requests.
- `ShmRegistry`: three processes with two names and two slots, one of them killed
  at any line; two registries and two objects, so that one replaces another.
- `JackLatency`: every graph of an effect that delays, a mixer of two inputs that does
  not, and a driver, plain or with a callback; three sorts, a recomputation and a
  change of the period, so that each may come before and after the others.
- `JackOpen`: two openers, each of whom may start a server, beside a server somebody
  started, and one attempt of the five; more of them are covered by the proof.
- `FirewireMidi`: four slots a period, an overflow of two, three messages of which
  some do not fit what is left, or the four bytes that are unpacked.
- `FirewireDrivers`, `CallbackDrivers`: two periods, devices with and without inputs,
  outputs and MIDI, and any step of any call may fail.
- `DriverOptions`, `ServerOptions`: the tables of ten drivers, two options in any
  order, two values set by a program, and four calls of it.
- Other drivers: a ring of two or three periods, one channel in each direction, a
  packet of two datagrams and a cache of two packets.

### Fairness

- `TodoApp`: the disk-write thread and a main thread inside `onCreate` go on.
  Users, fixes and the system owe nothing.
- `RestApi`: some handler goes on as long as one can, because Redis answers or
  refuses each command and the event loop serves its replies. Nothing restarts the process
  (`docker-compose.yml` names no restart policy).
- `RedisConnection`: clients retry at most half a second apart, a dead socket is
  noticed, an outage ends. No call is owed.
- `NotificationService`: time passes, and the main looper runs what is due.
- JACK: the threads of jackd go on (the driver's is woken by the device, the
  server's by its sockets, every wait for a client has a timeout), a client's
  process thread that got its byte runs, a broken socket is seen. Clients owe
  no request and no particular speed.

Runs without deadlock checking are those where all requests, calls, minutes,
packets or upsets may be used up.

## Proofs

Every theorem is about the same specification that a run checks, for every value
of its constants; the `ASSUME`s of the modules are those TLC evaluates, and a
theorem that needs more says so. Most invariants are not inductive; the module
names the strengthening it proves (`...IInv`), and TLC was asked first whether
that holds.

**Lists and pages** (`TodoAppProofs`), for all seeds without duplicates, users and
clocks: types; the user on disk before any list and never replaced; unique titles;
list objects equal to files; both lists implement `DurableTodos`; and, if pages
are selected by tab only (`~Drags`), that pages show their tab's list with fresh
boxes. `UserInv` adds the order of the write queue (the user's write is before
every list's), since the disk only sees a prefix of it. `ListInv` adds, for a
launch half-way, how far the file has got: it is the first `next - 1` of the
seeds, so that a launch inserts no title twice and ends with the file equal to
the list object; and that the disk's list is one the memory's list continues,
which is what a crash needs. `TabInv` says that the adapter holds the current
page's tab, so that what is laid out next is right.

**Context and reminders** (`WatchProofs`). `isWithinRange` is membership around the
day for every range; the ranges of a user's day hold each minute once, so that the
iteration order of the map does not matter; context never lifts a LOW todo above a
HIGH one; the order of a page is a permutation sorted by the comparator, for lists
of every length (`OneIsFirst`: each set of open todos has exactly one that comes
first). Of the service: types and whose loops run; that a check notifies a todo
no other outscores; that what the cache holds back was shown
(`StampedTodosWereShown`, unless the user takes the permission back, because
`getTopTodoItem` stamps before `sendNotification` looks); that with the cache on
nothing is notified twice a day (`NothingIsNotifiedTwice`, the whole of
`NotificationInv`, if nothing ends the process between a stamp and its write). TLC has the counterexample for each of
these hypotheses.

**The REST API** (`RestApiProofs`), for all requests, users and lists, with kills
and refused commands. With overlap: types, and that an acknowledged POST stays
stored. The induction needs that the two keys of `postUsersTodos` never come to
hold a set (so that a DELETE naming them is refused rather than executed), and
that between `hSet` and the answer the field is there unless the command was
refused. One DELETE at a time (`~Overlap`; the loop variable is global): only
listed and named tasks move, and `RestApi` implements `TaskLedger` if nobody
deletes for the user "completed", whose list is the ledger itself
(`TasksAreAlwaysAccounted`, step by step: `sRem` followed by `sAdd` is one move
of the ledger at `sAdd`, with the task in flight counted on its list). Under the
same two hypotheses `ServerKeepsItsWord` proves, faults included, what an answer
means: the listed tasks that an acknowledged DELETE named have left their list, and
are completed unless another DELETE that named them was cut off by the end of the
process (`CutOff`). The induction follows a task from `sRem` on: a named, listed task
behind the loop is completed, in a handler's hands or cut off (`NoneLost`). Without
faults no well-formed request ends the process. `FlagAndWaiters` proves, for
any number of calls and outages (`ConnectionAssumption`), that the flag stands only
while a client believes itself connected and that a call waits only for a client
that has never been ready; the count `ClientsAreCounted` is needed to show that
there is a number for every client made.

**The graph** (`JackGraphProofs`), for any number of clients, ports and connections,
with clients that are late, lost and removed at any point. `FeedsMatchConnections`
is not inductive: that taking a connection off leaves the two feeds lists those of
the rest depends on its direction being the one its two clients call for and on
its being the only one between its ports (`ConnectedOnce`), which is promised
because `jack_port_do_connect` looks first. `Kept` says this and that a client's
`fedcount` is what it began with and the connections into it; `Alive`, that
only listed, active and living clients are connected, through the removal of
several in one sweep. `MergeSortKeeps` shows that the sort loses and doubles no
client, whatever relation it is given. `CheckKeeps` is the hard part:
`jack_check_acyclic` counts sources off as a topological sort does, so that all
clients can only be taken if there is no cycle (`SortedIsAcyclic`: whoever feeds a
client that was taken was taken before, `Passed`), and then the feedback connections
may be turned; if it gets stuck, each client that is left is fed by another one that
is left (`StuckIsCyclic`). `setup_client` never sets the `fedcount` of a new client
(`FreshFed`), and the theorems say what depends on it: nothing
(`GraphIsKept`), that it is not negative (`SortfeedsStayAcyclic`; with -1 TLC finds
a cycle that was taken for sorted), or that it is 0 (`GraphIsRight`; with 1 TLC
finds feedback that is never turned although the graph is acyclic).

**Openings** (`JackClientsProofs`, `OpeningIsSafe`), for any number of clients. That
one server is in charge follows from `NameIsHeld`, that clients find it from
`SocketsAreOfName` (no file is left between registration and sockets, so the first
name is free), and that an open client is connected from `ListedWhileServing`,
which carries through the steps of an opening that a server which still runs lists
the client and that its index is its own.

**Clients** (`ClientsKeepTheirNames`). `ClientsIInv` joins three places: the list of
clients, the structures it points at and the processes that hold one of them. As
the code gives no protection, everything that finds a client by its UUID is
promised as long as none was given twice.

**Sessions** (`SessionIsKept`). The engine's count is that of the flags, the flags
are those of the clients that owe an answer, and what a manager has not read is a
list of others with the end of the call last; all as long as no call of a manager
overlaps another, which overwrites the count.

**The transport** (`TransportStaysRight`, `PositionMovesAreAnnounced`). Nothing rolls
too early because the two counters of slow-sync clients are those of their flags,
which every request, answer and cycle has to keep (`Kept`), and because a client
that has answered and not yet said so is still polled (`StoringIsPolled`). When
such an answer races with the server's own count (no lock joins them), or a cycle
is aborted, the counters may be wrong, and the invariant says what is left.

**Ports** (`PortsAreKept`). `PortsIInv` says that a buffer has one place, on the free
list or at one output port (`BuffersKept`); that what a client's newest entry for a
slot says is what the server has, whatever older entries for the slot are left
(`ViewsKept`); that a port its client does not know of yet has no connections, or
is one of the `lost` ones (`AskingKept`); and that a mix buffer is there before it
is needed (`MixersKept`). `GoneKeeps` proves once what release, disconnection,
deactivation and death have in common.

**The process cycle** (`CycleIsKept`), for any number of clients in any order, any
mixture of internal and external ones, and any number of upsets. That
`jack_rechain_graph` makes a whole chain (`WholeChain`, lemma `RechainIsWhole`) is
proved of its loop: `Walked` says what has been chained after `i` clients, and the
least `i` at which that fails would follow one at which it holds. `ToldKept` says
that, since the chain was made, each living client that was told waits on the FIFO
of the chain, and that while anybody failed or is still to be told nothing is in
the FIFOs; `TurnKept` says whose turn it is in the subgraph the driver waits for
(`Turn`): those before ran and nobody else, and the one byte that nobody owes is in
that client's FIFO, or in the server's when all ran. A byte in a FIFO therefore
wakes only the right client (`WhoWakes`), and the poll returns only when the
subgraph is done. `FailuresKept` is stronger than what the run checks of errors:
more problems are counted than the removal in progress will take off.

**Shared memory and properties** (`JackSharedProofs`). `RingIInv` replaces the
remainders of `RingInv` by the distance of a cell from a pointer, in which a move of
either pointer is a subtraction, and adds the bytes that the writer has copied and
not counted yet; `MaskWraps` is what `& size_mask` does, and `SpaceIsDistance` shows
that both formulas for the space are that distance. `ListenerIsTold` says what the
listener will believe once it took the first `i` notices, if each subject is
described by its owner only (`OnlyOwnersDescribe`): two processes that describe one
make notices cross. `RegistryIsKept`: that no two live servers have one name
follows from the slots (`SlotsAreClaimed`), that a sweep leaves the living alone
from what the holder of the lock still knows of its entry (`WorkIsRight`,
`MappedIsNamed`), and that the semaphore comes back from where its holder is
(`LockIsHeld`); after a mishap the code allows (`Clean`: a replaced registry, or one
process that starts twice) only types, sweeps and semaphore are promised. Of a
MIDI mix, `MixKept` says what the loop has done after `i` events: those it has read
are the `i` that come first by time, then by connection (`Rank`), and they are in
the output in that order; `EarliestIs` then shows that the next one it picks
is the next in rank. `DataLies` adds where an event's data is: before that of the
event ahead of it, and behind the buffer's header (not behind the events' own: see
`EventsKeepTheirHeaders`). It needs a buffer that holds its own header
(`BufferSize >= InfoSize`), which `jackd -M 1` and `-M 2` do not give; the theorem of
order and merge (`MixesAreMerges`) does without.

**Latencies** (`JackSharedProofs`, `LatenciesAreOfRoutes`), for any clients, ports,
connections and delays, either kind of driver, and any changes of graph and period.
`LatencyInv` speaks of passes that are over; `LatencyIInv` follows one event by
event. What is still to be delivered is the rest of a pass (`PassInv`), so that a
client is asked at its `Turn`, after all those whose latencies its own are made of
(`BeforeIsEarlier`), as only a connection on a circle may go backwards in the order.
Whoever was asked is right (`AnswersAreRight`): the sums through a client are those
from outside and those through the clients before it, plus its delay (`ThroughIs`:
each route of a graph without circles visits nobody twice, `WaysAreShort`, so that one
that ends before a client can go on to it), and a spread of spreads is the spread of
all sums (`SpreadOfSpreads`). A right answer stays right because no later client
touches what it was made of, and the driver, which is asked twice, only sets again
what it set (`DriverIsFresh`): for playback this fails after a change of the period,
and `LatencyInv` promises nothing then. `TotalsAreKept` holds during a pass as well.

**Drivers and threads** (`JackDriversProofs`).
- Sun and sndio: what is in the driver's buffer was captured before all that is
  still in the device, and a period is asked for only when there is room for it.
- OSS: the barrier was passed as often as the engine's cycle ran or is about to; a
  thread's count is that, or one more while it waits (`JoinedInTurn`).
- ALSA: where the driver thinks silence lies (`SilenceLies`), that a period one
  stream gives up is one the other gains (`PeriodsAreKept`), and that the cycles a
  wakeup still runs have room (`RoomForCycles`).
- CoreAudio and PortAudio: an overload is noted before the callback leaves
  (`OverloadIsNoted`), what is open is what was asked (`OpenAsAsked`), the engine's
  size is the device's (`EngineAgrees`), and a stream that is closed is not used.
- Network: a slot of the cache holds pieces of one frame that was sent
  (`FrameIsReal`), the slot being read is whole and holds the expected frame
  (`BufferIsHeld`), and all others are ahead of what was read (`PacketsAhead`).
  Promised until the driver throws a packet out that it had found.
- FireWire: what the lists of an attached driver are (`ListsAreInPlace`), what is
  behind their end (`BehindTheList`), and which threads a phase has.
- Engine: `EngineIInv` says what each request knows when it has waited for a thread
  (`JoinedIsHalted`, `NewOneWaits`, `FreewheelsAlone`), and that a dying driver thread
  is announced (`DyingIsSaid`), which keeps the two threads apart whatever the main
  thread does meanwhile.

Only model-checked: everything under fairness (`LaunchAndChecksEnd`, `ServerAnswers`,
`RemindersGoOn`, `ServerGoesOn`; TLAPS cannot do liveness here, nor ENABLED); what a fold or a recursion
over data computes (`PassedOnInv`: the
contents of packets and option lists; only a loop written as a recursive function
can be reasoned about, by its least counterexample, as in `CycleIsKept`,
`GraphIsRight`, `MidiIsRight` and `LatenciesAreOfRoutes`). No module declares an
operator RECURSIVE.

## Not modelled

| Part | Why |
| --- | --- |
| Location and permission flow of `MainActivity` | planned: `PermissionFlow` |
| `TodoSerializer` | nothing calls it |
| `FilterFactory`, `FilterStrategy` | built, but the line that filters is commented out |
| `RedisHelper` | a stub; its empty answer is `getTodos` in `TodoApp` |
| Speech pipeline | three calls in a row, no state, its output is printed |
| Alexa skill | only a package manifest; its requests are the POSTs of `RestApi` |
| Tests, deployment files | read for what they expect and configure |
| JACK: finding a configuration of an ALSA or OSS device | planned; a long dialogue with the device before its first cycle |
| JACK: sample formats and mixing (`memops.c`, `simd.c`) | arithmetic on samples |
| JACK: mixers of particular cards | writes to registers, no state of their own |
| JACK: the System V half of `shm.c` | not the default build |
| JACK: `.pc/` | the originals of patched files, the same code twice |

- Two Redis clients in use at once: `RestApi`'s handlers share one, so commands
  keep one order. `RedisConnection` shows when there are two.
- `deleteTodo` and `removeTodoList`, which nothing calls.
- Doze and clock changes: loops may be late, time does not go back.
- The layout of pages and notifications, and the text of answers.
- Notifications are asked of the personal file only, read twice, because
  `getInstance` ignores its second key: the model does as the code does. If the
  permission is taken back and the activity opened before the system restarts
  the service, a todo is stamped though not shown; the part "cache" of `Watch`
  therefore takes no permission back.

## Plan

1. Done: the watch, the REST API, and JACK's server, library and drivers.
2. `PermissionFlow`: `onResume`, the dialogs that pause and resume the activity,
   requests made while another is pending, fixes in flight and the spinner. An
   abstract "asks until granted, never loops unasked" to refine.
3. A composition of `TodoApp` and `NotificationService` over the shared files:
   the service reads through its own `TodoDatabase` what a page just checked.
4. JACK: the search of the ALSA and OSS drivers for a configuration, port listings
   and aliases, several servers with names of their own in `JackOpen`.
5. Proofs: the parts of `PassedOnInv`, whose operators are folds and sequences built
   up entry by entry, by the least counterexample of each.
