---------------------------- MODULE JackTransport ----------------------------
(* The transport of jackd (jackd/transengine.c) and the part of libjack that  *)
(* works on it in shared memory (libjack/transclient.c): start, stop and      *)
(* locate, slow-sync clients that are polled until they are ready, and the    *)
(* timebase master.                                                           *)
(*                                                                            *)
(* Requests to the server take the graph lock for writing, a process cycle    *)
(* holds it for reading, so they exclude each other. The clients' process     *)
(* threads and jack_transport_start/stop/locate take no lock: a client that   *)
(* the cycle gave up on runs its callbacks beside whatever the server does.   *)
EXTENDS Integers, FiniteSets

CONSTANTS
    Callers,        \* the clients
    SyncTimeout,    \* sync_timeout, in periods
    FrameCount,     \* jack_nframes_t wraps; a period is one frame here
    NoClient,
    MaxAsks         \* bound: requests, commands and new positions

ASSUME TransportAssumption ==
    /\ IsFiniteSet(Callers) /\ NoClient \notin Callers
    /\ SyncTimeout \in Nat \ {0} /\ FrameCount \in Nat \ {0} /\ MaxAsks \in Nat

VARIABLES
    ctl,            \* jack_control_t, as far as the transport goes
    client,         \* the control block of each client
    thread,         \* where the process thread of each client is
    left,           \* the clients the cycle has still to run ...
    cycling,        \* ... while there is one: the graph is locked
    failed,         \* clients marked late, to be made zombies
    asks,           \* what was asked so far
    answer          \* for the properties: see below

transportVars == <<ctl, client, thread, left, cycling, failed,
                   asks, answer>>

States == {"Stopped", "Starting", "Rolling"}
Frames == 0 .. FrameCount - 1
Threads == {"waiting", "woken", "syncing", "storing", "processing"}
Control ==
    [state : States, cmd : {"Start", "Stop"}, previous : {"Start", "Stop"},
     current : Frames, pending : Frames, request : Frames \cup {-1},
     new_pos : BOOLEAN, pending_pos : BOOLEAN,
     sync_clients : Int, sync_remain : Int, time_left : 0 .. SyncTimeout,
     master : Callers \cup {NoClient}, aborted : BOOLEAN]
ClientControl ==
    [active : BOOLEAN, dead : BOOLEAN,
     is_slowsync : BOOLEAN, active_slowsync : BOOLEAN,
     sync_poll : BOOLEAN, sync_new : BOOLEAN,
     is_timebase : BOOLEAN, timebase_new : BOOLEAN]

\* Not in the code: who answered ready since the last poll began, whose
\* running callback began before it, whether such an answer was counted,
\* whether the poll ran out of time, and whether the server wrote sync_poll or
\* sync_remain while a client was about to.
Answers ==
    [ready : SUBSET Callers, stale : SUBSET Callers, old : BOOLEAN,
     timed_out : BOOLEAN, raced : BOOLEAN]

------------------------------------------------------------------------------
(* The engine's side. s is the pair of what it writes.                        *)

Polled(cl) == {c \in Callers : cl[c].active_slowsync /\ cl[c].sync_poll}

\* The clients' running callbacks know nothing of the poll that begins.
NewPoll(a, cs) ==
    [a EXCEPT !.ready = @ \ cs, !.timed_out = @ /\ cs = {},
              !.stale = @ \cup {c \in cs : thread[c] \in {"syncing", "storing"}}]

jack_sync_poll_new(s, c) ==
    [ctl |-> [s.ctl EXCEPT
                !.time_left = SyncTimeout,
                !.sync_remain = IF s.client[c].sync_poll THEN @ ELSE @ + 1,
                !.state = IF @ = "Rolling" THEN "Starting" ELSE @],
     client |-> [s.client EXCEPT ![c].sync_new = TRUE, ![c].sync_poll = TRUE]]

\* Mutant: a poll in progress is not taken off the count.
jack_sync_poll_deactivate_Waiting(s, c) ==
    [ctl |-> [s.ctl EXCEPT !.sync_clients = @ - 1],
     client |-> [s.client EXCEPT ![c].active_slowsync = FALSE]]

jack_sync_poll_deactivate(s, c) ==
    [ctl |-> [s.ctl EXCEPT
                !.sync_remain = IF s.client[c].sync_poll THEN @ - 1 ELSE @,
                !.sync_clients = @ - 1,
                !.aborted = @ \/ s.ctl.sync_clients < 1],
     client |-> [s.client EXCEPT
                   ![c].sync_new = @ /\ ~s.client[c].sync_poll,
                   ![c].sync_poll = FALSE, ![c].active_slowsync = FALSE]]

jack_sync_poll_stop(s) ==
    [ctl |-> [s.ctl EXCEPT
                !.aborted = @ \/ Cardinality(Polled(s.client)) # s.ctl.sync_remain,
                !.sync_remain = 0, !.time_left = 0],
     client |-> [c \in Callers |->
        [s.client[c] EXCEPT !.sync_poll = @ /\ c \notin Polled(s.client)]]]

jack_sync_poll_start(s) ==
    LET slow == {c \in Callers : s.client[c].active_slowsync}
    IN  [ctl |-> [s.ctl EXCEPT
                    !.aborted = @ \/ Cardinality(slow) # s.ctl.sync_clients,
                    !.sync_remain = Cardinality(slow),
                    !.time_left = SyncTimeout],
         client |-> [c \in Callers |->
            [s.client[c] EXCEPT !.sync_poll = @ \/ c \in slow]]]

\* jack_sync_timeout, with the time a period takes for unit.
TimedOut(x) == x.time_left <= 1
\* Mutant: the time left is never written back.
jack_sync_timeout_Forgets(x) == x
jack_sync_timeout(x) ==
    [x EXCEPT !.time_left = IF TimedOut(x) THEN 0 ELSE @ - 1]

\* Polled clients of an earlier cycle: all ready, or out of time?
CheckSync(x) ==
    IF x.state # "Starting" THEN x
    ELSE IF x.sync_remain = 0 THEN [x EXCEPT !.state = "Rolling"]
    ELSE [jack_sync_timeout(x) EXCEPT
            !.state = IF TimedOut(x) THEN "Rolling" ELSE @]

\* The transition switch, with cmd None unless there is a new command.
Transition(s, cmd) ==
    LET x == s.ctl
        Goes(state) == [s EXCEPT !.ctl.state = state]
        Polls == jack_sync_poll_start(Goes("Starting"))
    IN  IF cmd = "Stop" /\ x.state # "Stopped"
        THEN IF x.sync_remain # 0 THEN jack_sync_poll_stop(Goes("Stopped"))
                                  ELSE Goes("Stopped")
        ELSE IF (x.state = "Stopped" /\ cmd = "Start")
                \/ (x.state # "Stopped" /\ x.new_pos)
        THEN IF x.sync_clients # 0 THEN Polls ELSE Goes("Rolling")
        ELSE s

\* Mutant: the new position is not announced with the time it belongs to.
Promoted_Early(x) == [x EXCEPT !.current = x.pending, !.new_pos = x.request # -1]

\* The pending position becomes the current one.
Promoted(x) == [x EXCEPT !.current = x.pending, !.new_pos = x.pending_pos]

\* A position request that arrived during the cycle is pending from now on.
Requested(x) ==
    IF x.request = -1 THEN [x EXCEPT !.pending_pos = FALSE]
    ELSE [x EXCEPT !.pending = x.request, !.request = -1, !.pending_pos = TRUE]

jack_transport_cycle_end(s) ==
    LET before == CheckSync(Promoted(s.ctl))
        cmd == IF before.cmd # before.previous THEN before.cmd ELSE "None"
        t == Transition([s EXCEPT !.ctl = [before EXCEPT !.previous = before.cmd]], cmd)
        x == t.ctl
        moved == IF x.state = "Rolling" THEN (x.current + 1) % FrameCount
                                        ELSE x.pending
    IN  [t EXCEPT !.ctl = Requested([x EXCEPT !.pending = moved])]

jack_timebase_reset(s) ==
    [ctl |-> [s.ctl EXCEPT !.master = NoClient],
     client |-> [s.client EXCEPT ![s.ctl.master].is_timebase = FALSE,
                                 ![s.ctl.master].timebase_new = FALSE]]

\* The branch that makes c the master.
TakesOver(s, c) ==
    LET t == IF s.ctl.master = NoClient THEN s ELSE jack_timebase_reset(s)
    IN  [ctl |-> [t.ctl EXCEPT !.master = c],
         client |-> [t.client EXCEPT ![c].is_timebase = TRUE,
                                     ![c].timebase_new = @ \/ t.client[c].active]]

jack_transport_activate(s, c) ==
    LET slow == jack_sync_poll_new(
                  [ctl |-> [s.ctl EXCEPT !.sync_clients = @ + 1,
                              !.aborted = @ \/ s.client[c].active_slowsync],
                   client |-> [s.client EXCEPT ![c].active_slowsync = TRUE]], c)
        t == IF s.client[c].is_slowsync THEN slow ELSE s
    IN  [t EXCEPT !.client[c].timebase_new = @ \/ t.client[c].is_timebase]

jack_transport_client_exit(s, c) ==
    LET r == IF s.ctl.master = c /\ s.client[c].dead THEN jack_timebase_reset(s)
                                                     ELSE s
        t == IF r.client[c].is_slowsync /\ r.client[c].active_slowsync
             THEN jack_sync_poll_deactivate(r, c) ELSE r
    IN  [t EXCEPT !.client[c].is_slowsync = @ /\ ~t.client[c].dead]

\* jack_transport_client_new
NewClient ==
    [active |-> FALSE, dead |-> FALSE, is_slowsync |-> FALSE,
     active_slowsync |-> FALSE, sync_poll |-> FALSE, sync_new |-> FALSE,
     is_timebase |-> FALSE, timebase_new |-> FALSE]

------------------------------------------------------------------------------
(* Requests: the server thread, with the graph locked for writing.            *)

Now == [ctl |-> ctl, client |-> client]
Serves == ~cycling /\ ~ctl.aborted
\* A poll is taken back from a client that has tested it.
Overtakes(cl) ==
    \E c \in Callers : thread[c] = "storing" /\ ~cl[c].sync_poll
\* The server writes s; cs are the clients a poll begins for.
Writes(s, cs) ==
    /\ ctl' = s.ctl
    /\ client' = s.client
    /\ answer' = [NewPoll(answer, cs) EXCEPT !.raced = @ \/ Overtakes(s.client)]

\* jack_transport_init
TransportInit ==
    /\ ctl = [state |-> "Stopped", cmd |-> "Stop", previous |-> "Stop",
              current |-> 0, pending |-> 0, request |-> -1,
              new_pos |-> FALSE, pending_pos |-> FALSE, sync_clients |-> 0,
              sync_remain |-> 0, time_left |-> 0, master |-> NoClient,
              aborted |-> FALSE]
    /\ client = [c \in Callers |-> NewClient]
    /\ thread = [c \in Callers |-> "waiting"]
    /\ left = {}
    /\ cycling = FALSE
    /\ failed = {}
    /\ asks = 0
    /\ answer = [ready |-> {}, stale |-> {}, old |-> FALSE,
                 timed_out |-> FALSE, raced |-> FALSE]

\* jack_set_sync_callback with a callback
SetSync(c) ==
    /\ Serves
    /\ ~client[c].dead
    /\ LET joins == client[c].active /\ ~client[c].is_slowsync
           s == [ctl |-> [ctl EXCEPT !.sync_clients = IF joins THEN @ + 1 ELSE @],
                 client |-> [client EXCEPT
                    ![c].is_slowsync = TRUE,
                    ![c].active_slowsync = @ \/ joins]]
       IN  IF s.client[c].active_slowsync THEN Writes(jack_sync_poll_new(s, c), {c})
                                          ELSE Writes(s, {})
    /\ UNCHANGED <<thread, left, cycling, failed>>

\* jack_set_sync_callback with NULL
ResetSync(c) ==
    /\ Serves
    /\ client[c].is_slowsync
    /\ LET s == IF client[c].active_slowsync
                THEN jack_sync_poll_deactivate(Now, c) ELSE Now
       IN  Writes([s EXCEPT !.client[c].is_slowsync = FALSE], {})
    /\ UNCHANGED <<thread, left, cycling, failed>>

SetTimebase(c, conditional) ==
    /\ Serves
    /\ ~client[c].dead
    /\ ~(conditional /\ ctl.master # NoClient)
    /\ Writes(TakesOver(Now, c), {})
    /\ UNCHANGED <<thread, left, cycling, failed>>

ReleaseTimebase ==
    /\ Serves
    /\ ctl.master # NoClient
    /\ Writes(jack_timebase_reset(Now), {})
    /\ UNCHANGED <<thread, left, cycling, failed>>

\* jack_activate does not ask whether the client is active already.
Activate(c) ==
    /\ Serves
    /\ ~client[c].dead
    /\ Writes(jack_transport_activate([Now EXCEPT !.client[c].active = TRUE], c),
              IF client[c].is_slowsync THEN {c} ELSE {})
    /\ UNCHANGED <<thread, left, cycling, failed>>

Deactivate(c) ==
    /\ Serves
    /\ client[c].active
    /\ Writes(jack_transport_client_exit([Now EXCEPT !.client[c].active = FALSE], c), {})
    /\ UNCHANGED <<thread, left, cycling, failed>>

\* A client is late, closes or dies: it becomes a zombie.
Zombify(c) ==
    /\ Serves
    /\ ~client[c].dead
    /\ Writes(jack_transport_client_exit(
                [Now EXCEPT !.client[c].active = FALSE, !.client[c].dead = TRUE], c), {})
    /\ failed' = failed \ {c}
    /\ UNCHANGED <<thread, left, cycling>>

\* A zombie is removed when its process is gone; a new client takes its place.
Renew(c) ==
    /\ Serves
    /\ client[c].dead
    /\ client' = [client EXCEPT ![c] = NewClient]
    /\ thread' = [thread EXCEPT ![c] = "waiting"]
    /\ answer' = [answer EXCEPT !.stale = @ \ {c}, !.ready = @ \ {c}]
    /\ UNCHANGED <<ctl, left, cycling, failed>>

------------------------------------------------------------------------------
(* Clients, without a lock.                                                   *)

Command(cmd) ==
    /\ ctl.cmd # cmd
    /\ ctl' = [ctl EXCEPT !.cmd = cmd]
    /\ UNCHANGED <<client, thread, left, cycling, failed, answer>>

\* jack_transport_locate; GuardedCopy shows what the copy is worth.
Locate(frame) ==
    /\ ctl' = [ctl EXCEPT !.request = frame]
    /\ UNCHANGED <<client, thread, left, cycling, failed, answer>>

\* The first half of jack_call_sync_client.
CallsSync(c) ==
    /\ thread[c] = "woken"
    /\ LET due == /\ ctl.new_pos \/ client[c].sync_poll \/ client[c].sync_new
                  /\ client[c].active_slowsync
       IN  thread' = [thread EXCEPT ![c] = IF due THEN "syncing"
                                                   ELSE "processing"]
    /\ answer' = [answer EXCEPT !.stale = @ \ {c}]
    /\ UNCHANGED <<ctl, client, left, cycling, failed>>

SyncAnswers(c, ready) ==
    /\ thread[c] = "syncing"
    /\ IF ready /\ client[c].sync_poll
       THEN /\ thread' = [thread EXCEPT ![c] = "storing"]
            /\ UNCHANGED client
       ELSE /\ thread' = [thread EXCEPT ![c] = "processing"]
            /\ client' = [client EXCEPT ![c].sync_new = FALSE]
    /\ UNCHANGED <<ctl, left, cycling, failed, answer>>

StoresReady(c) ==
    /\ thread[c] = "storing"
    /\ thread' = [thread EXCEPT ![c] = "processing"]
    /\ client' = [client EXCEPT ![c].sync_poll = FALSE, ![c].sync_new = FALSE]
    /\ ctl' = [ctl EXCEPT !.sync_remain = @ - 1]
    /\ answer' = [answer EXCEPT !.ready = @ \cup {c},
                                !.old = @ \/ c \in answer.stale]
    /\ UNCHANGED <<left, cycling, failed>>

\* jack_call_timebase_master, and the next one is woken.
Finishes(c) ==
    /\ thread[c] = "processing"
    /\ thread' = [thread EXCEPT ![c] = "waiting"]
    /\ client' = [client EXCEPT
                    ![c].timebase_new = @ /\ ~client[c].is_timebase]
    /\ left' = left \ {c}
    /\ UNCHANGED <<ctl, cycling, failed, answer>>

------------------------------------------------------------------------------
(* The process cycle, with the graph locked for reading.                      *)

\* There are no cycles while a failed client is in the graph.
CycleStarts ==
    /\ Serves
    /\ failed = {}
    /\ cycling' = TRUE
    /\ left' = {c \in Callers : client[c].active}
    /\ UNCHANGED <<ctl, client, thread, failed, answer>>

\* One client at a time.
WakesClient(c) ==
    /\ cycling
    /\ c \in left
    /\ thread[c] = "waiting"
    /\ \A d \in left : thread[d] = "waiting"
    /\ thread' = [thread EXCEPT ![c] = "woken"]
    /\ UNCHANGED <<ctl, client, left, cycling, failed, answer>>

\* The time to wait is over. A client that had not even begun when the cycle
\* gave it up keeps its wake-up and is not blamed.
GivesUp ==
    /\ cycling
    /\ left # {}
    /\ failed' = failed \cup {c \in left : thread[c] \notin {"waiting", "woken"}}
    /\ left' = {}
    /\ UNCHANGED <<ctl, client, thread, cycling, answer>>

CycleEnds ==
    /\ cycling
    /\ left = {}
    /\ LET s == jack_transport_cycle_end(Now)
           polls == /\ s.ctl.state = "Starting"
                    /\ s.ctl.new_pos \/ ctl.state = "Stopped"
           out == /\ ctl.state = "Starting"
                  /\ ctl.sync_remain # 0
                  /\ s.ctl.state = "Rolling"
           a == [answer EXCEPT !.timed_out = @ \/ out]
       IN  /\ ctl' = s.ctl
           /\ client' = s.client
           /\ answer' =
                [(IF polls THEN NewPoll(a, Callers) ELSE a) EXCEPT
                   !.raced = @ \/ Overtakes(s.client)]
    /\ cycling' = FALSE
    /\ UNCHANGED <<thread, left, failed>>

Asks ==
    /\ asks < MaxAsks
    /\ asks' = asks + 1
    /\ \/ \E c \in Callers :
            \/ SetSync(c) \/ ResetSync(c) \/ Activate(c) \/ Deactivate(c)
            \/ \E conditional \in BOOLEAN : SetTimebase(c, conditional)
            \/ Zombify(c) \/ Renew(c)
       \/ ReleaseTimebase
       \/ \E cmd \in {"Start", "Stop"} : Command(cmd)
       \/ \E frame \in Frames : Locate(frame)

\* The server thread has a problem to clear.
RemovesFailed ==
    /\ \E c \in failed : Zombify(c)
    /\ UNCHANGED asks

Cycle == (CycleStarts \/ GivesUp \/ CycleEnds) /\ UNCHANGED asks

Runs ==
    /\ \E c \in Callers :
         \/ WakesClient(c) \/ CallsSync(c) \/ StoresReady(c) \/ Finishes(c)
         \/ \E ready \in BOOLEAN : SyncAnswers(c, ready)
    /\ UNCHANGED asks

TransportNext == Asks \/ Cycle \/ RemovesFailed \/ Runs

\* The driver calls cycle after cycle, each of which waits a bounded time, and
\* the server thread gets around to clients that failed.
TransportFairness ==
    /\ WF_transportVars(Cycle)
    /\ WF_transportVars(RemovesFailed)

TransportSpec ==
    TransportInit /\ [][TransportNext]_transportVars /\ TransportFairness

------------------------------------------------------------------------------
(* What clients may rely on.                                                  *)

\* The control blocks are well formed.
TransportTypeOK ==
    /\ ctl \in Control
    /\ client \in [Callers -> ClientControl]
    /\ thread \in [Callers -> Threads]
    /\ left \in SUBSET Callers
    /\ cycling \in BOOLEAN
    /\ failed \in SUBSET Callers
    /\ asks \in 0 .. MaxAsks
    /\ answer \in Answers

Slow == {c \in Callers : client[c].active_slowsync}

\* transengine.c's two counters against the flags they count, which the asserts
\* of jack_sync_poll_stop and jack_sync_poll_start look at: nothing that joins,
\* leaves, dies, answers late or stops may separate them. They part when the
\* server takes a poll back between a client's test and its decrement.
SyncCountsMatch ==
    ~answer.raced /\ ~ctl.aborted =>
        /\ ctl.sync_clients = Cardinality(Slow)
        /\ ctl.sync_remain = Cardinality(Polled(client))

\* transport.h, of slow-sync clients: the transport rolls when every one of them
\* has answered ready, for the poll that began last, or time ran out. A late
\* client may answer a poll that began after the position it was shown.
RollsWhenReady ==
    (/\ ctl.state = "Rolling"
     /\ ~answer.timed_out /\ ~answer.old /\ ~answer.raced /\ ~ctl.aborted)
        => Slow \subseteq answer.ready

\* A new position is never played before the slow-sync clients are asked about
\* it: it is announced with new_pos in the cycle in which they are polled.
NewPositionIsSynced ==
    ctl.new_pos /\ ctl.state = "Rolling" /\ ~ctl.aborted => Slow = {}

\* The position moves on by a period or is announced as new: the pending flag
\* travels through the two cycles with the position it belongs to.
MovesAreAnnounced ==
    [][ctl'.current \in {ctl.current, (ctl.current + 1) % FrameCount}
       \/ ctl'.new_pos]_transportVars

\* The timebase master is a living client, the one with is_timebase set:
\* engine->timebase_client is never left pointing at a client that is freed.
MasterIsAlive ==
    \A c \in Callers :
        /\ client[c].is_timebase <=> ctl.master = c
        /\ ctl.master = c => ~client[c].dead

\* Starting ends: a slow-sync client that never answers, or dies while it is
\* waited for, holds the transport up for sync_timeout at most.
StartingEnds ==
    ctl.state = "Starting" ~> ctl.state # "Starting" \/ ctl.aborted

\* The transport is kept: the counters of slow-sync clients are those of their
\* flags, nothing rolls before everybody answered or time ran out, no position is
\* played unasked, and the master is a living client.
TransportInv ==
    /\ TransportTypeOK
    /\ SyncCountsMatch
    /\ RollsWhenReady
    /\ NewPositionIsSynced
    /\ MasterIsAlive
==============================================================================
