------------------------------ MODULE JackEngine ------------------------------
(* The threads of jackd that run cycles, and who starts and stops them: the    *)
(* driver thread of a non-threaded driver (libjack/driver.c), the freewheel    *)
(* thread, the server thread that handles FreeWheel, StopFreeWheel and         *)
(* SetBufferSize requests, and the main thread that ends the engine            *)
(* (jackd/engine.c). Every lock, join and device call is a step of its own.    *)
EXTENDS Integers, FiniteSets

CONSTANTS
    Faults,         \* what may fail: "cycle", "thread", "device"
    Deletes,        \* whether the main thread may end the engine
    MaxOps          \* bound: requests

VARIABLES
    nt_run,         \* driver->nt_run
    nt_lock,        \* who holds nt_run_lock from one step to the next
    dthread,        \* the driver thread
    device,         \* what nt_start and nt_stop did to the device
    driverset,      \* engine->driver is not NULL
    attached,       \* driver->engine is not NULL
    fthread,        \* the freewheel thread
    freewheeling, stop_freewheeling,
    server_op,      \* the request the server thread handles, and how far it is
    main,           \* how far the main thread is
    undefined,      \* a joined thread was joined, or NULL used: all is open
    ops

engineVars == <<nt_run, nt_lock, dthread, device, driverset, attached, fthread,
                freewheeling, stop_freewheeling, server_op, main, undefined, ops>>

\* "new" waits for the lock its creator holds, "rc" failed a cycle, and the
\* next ones are where jack_engine_driver_exit is.
DriverThreads == {"none", "new", "check", "cycle", "rc", "stop", "detach", "kill",
                  "null", "ended", "joined"}
Ended == {"ended", "joined", "none"}
Idle == [op |-> "idle", at |-> "done"]
Starts == {"create", "device", "unlock"}

------------------------------------------------------------------------------
(* jack_driver_nt_do_stop, in the server thread or the main thread.            *)

\* It leaves DYING alone, and does not join a thread that is.
SetRun(run) ==
    /\ nt_lock = "free"
    /\ nt_run' = IF nt_run = "DYING" THEN nt_run ELSE run

\* Mutant: nobody waits for the driver thread.
MayJoin_AtOnce(th) == TRUE

MayJoin(th) == th \in Ended

\* The thread is waited for; whether it has been before is not recorded.
Join ==
    IF nt_run = "DYING" \/ dthread = "none" THEN UNCHANGED <<dthread, undefined>>
    ELSE /\ MayJoin(dthread)
         /\ dthread' = IF dthread = "ended" THEN "joined" ELSE dthread
         /\ undefined' = (undefined \/ dthread = "joined")

------------------------------------------------------------------------------
\* jackd has started its driver, and nothing else has happened.
EngineInit ==
    /\ nt_run = "RUN"
    /\ nt_lock = "free"
    /\ dthread = "check"
    /\ device = "running"
    /\ driverset = TRUE
    /\ attached = TRUE
    /\ fthread = "none"
    /\ freewheeling = FALSE
    /\ stop_freewheeling = FALSE
    /\ server_op = Idle
    /\ main = "waiting"
    /\ undefined = FALSE
    /\ ops = 0

------------------------------------------------------------------------------
(* The driver thread.                                                          *)

Moves(from, to) == dthread = from /\ dthread' = to

\* The loop of jack_driver_nt_thread reads nt_run under the lock.
DriverChecks ==
    /\ nt_lock = "free"
    /\ dthread \in {"new", "check"}
    /\ dthread' = IF nt_run = "RUN" THEN "cycle" ELSE "ended"
    /\ UNCHANGED <<nt_run, nt_lock, device, driverset, attached, fthread, freewheeling,
                   stop_freewheeling, server_op, main, undefined, ops>>

DriverCycles(ok) ==
    /\ ok \/ "cycle" \in Faults
    /\ Moves("cycle", IF ok THEN "check" ELSE "rc")
    /\ UNCHANGED <<nt_run, nt_lock, device, driverset, attached, fthread, freewheeling,
                   stop_freewheeling, server_op, main, undefined, ops>>

\* nt_run is written without the lock ...
DriverDies ==
    /\ Moves("rc", "stop")
    /\ nt_run' = "DYING"
    /\ UNCHANGED <<nt_lock, device, driverset, attached, fthread, freewheeling,
                   stop_freewheeling, server_op, main, undefined, ops>>

\* ... and jack_engine_driver_exit stops the device,
DriverStops ==
    /\ nt_lock = "free"
    /\ Moves("stop", "detach")
    /\ device' = "stopped"
    /\ undefined' = (undefined \/ ~driverset \/ nt_run # "DYING")
    /\ UNCHANGED <<nt_run, nt_lock, driverset, attached, fthread, freewheeling,
                   stop_freewheeling, server_op, main, ops>>

\* detaches,
DriverDetaches ==
    /\ Moves("detach", "kill")
    /\ attached' = FALSE
    /\ undefined' = (undefined \/ ~attached)
    /\ UNCHANGED <<nt_run, nt_lock, device, driverset, fthread, freewheeling,
                   stop_freewheeling, server_op, main, ops>>

\* wakes the main thread, and only then forgets the driver.
DriverKills ==
    /\ Moves("kill", "null")
    /\ main' = IF main = "waiting" THEN "deletes" ELSE main
    /\ UNCHANGED <<nt_run, nt_lock, device, driverset, attached, fthread, freewheeling,
                   stop_freewheeling, server_op, undefined, ops>>

DriverForgets ==
    /\ Moves("null", "ended")
    /\ driverset' = FALSE
    /\ UNCHANGED <<nt_run, nt_lock, device, attached, fthread, freewheeling,
                   stop_freewheeling, server_op, main, undefined, ops>>

------------------------------------------------------------------------------
(* The freewheel thread.                                                       *)

FreewheelChecks ==
    /\ fthread = "check"
    /\ fthread' = IF stop_freewheeling THEN "ended" ELSE "cycle"
    /\ UNCHANGED <<nt_run, nt_lock, dthread, device, driverset, attached, freewheeling,
                   stop_freewheeling, server_op, main, undefined, ops>>

\* It also ends when its client has an error.
FreewheelCycles(ok) ==
    /\ fthread = "cycle"
    /\ fthread' = IF ok THEN "check" ELSE "ended"
    /\ UNCHANGED <<nt_run, nt_lock, dthread, device, driverset, attached, freewheeling,
                   stop_freewheeling, server_op, main, undefined, ops>>

------------------------------------------------------------------------------
(* The server thread.                                                          *)

To(at) == server_op' = [server_op EXCEPT !.at = at]

\* jack_set_buffer_size_request, jack_start_freewheeling, jack_stop_freewheeling
\* up to the first wait; a request that has nothing to do is answered at once.
Request(op) ==
    /\ ~undefined
    /\ server_op = Idle
    /\ ops < MaxOps
    /\ ops' = ops + 1
    /\ driverset
    /\ \/ op = "bufsize" /\ SetRun("PAUSE") /\ stop_freewheeling' = stop_freewheeling
       \/ op = "freewheel" /\ ~freewheeling /\ SetRun("EXIT")
          /\ stop_freewheeling' = stop_freewheeling
       \/ op = "stopfreewheel" /\ freewheeling /\ stop_freewheeling' = TRUE
          /\ nt_run' = nt_run
    /\ server_op' = [op |-> op, at |-> IF op = "stopfreewheel" THEN "joinfw" ELSE "join"]
    /\ UNCHANGED <<nt_lock, dthread, device, driverset, attached, fthread, freewheeling,
                   main, undefined>>

ServerJoins ==
    /\ server_op.at = "join"
    /\ Join
    /\ To("stop")
    /\ UNCHANGED <<nt_run, nt_lock, device, driverset, attached, fthread, freewheeling,
                   stop_freewheeling, main, ops>>

\* nt_stop; the engine is told that it freewheels.
ServerStops ==
    /\ server_op.at = "stop"
    /\ device' = "stopped"
    /\ IF server_op.op = "freewheel"
       THEN freewheeling' = TRUE /\ stop_freewheeling' = FALSE /\ To("createfw")
       ELSE UNCHANGED <<freewheeling, stop_freewheeling>> /\ To("create")
    /\ UNCHANGED <<nt_run, nt_lock, dthread, driverset, attached, fthread, main,
                   undefined, ops>>

\* Without a thread the request fails, and the engine stays freewheeling.
CreatesFreewheel(ok) ==
    /\ ok \/ "thread" \in Faults
    /\ server_op.at = "createfw"
    /\ fthread' = IF ok THEN "check" ELSE fthread
    /\ server_op' = Idle
    /\ UNCHANGED <<nt_run, nt_lock, dthread, device, driverset, attached, freewheeling,
                   stop_freewheeling, main, undefined, ops>>

MayJoinFreewheel(th) == th \in Ended

JoinsFreewheel ==
    /\ server_op.at = "joinfw"
    /\ MayJoinFreewheel(fthread)
    /\ fthread' = IF fthread = "ended" THEN "joined" ELSE fthread
    /\ undefined' = (undefined \/ fthread \in {"none", "joined"})
    /\ freewheeling' = FALSE
    /\ To("create")
    /\ UNCHANGED <<nt_run, nt_lock, dthread, device, driverset, attached,
                   stop_freewheeling, main, ops>>

\* jack_driver_nt_start: the thread is created with the lock held. Without one
\* the lock stays held. The driver may be gone, or its old thread on its way to
\* detach it.
CreatesDriver(ok) ==
    /\ ok \/ "thread" \in Faults
    /\ server_op.at = "create"
    /\ nt_lock = "free"
    /\ undefined' = (undefined \/ ~attached \/ ~driverset \/ dthread \notin Ended)
    /\ nt_run' = "RUN"
    /\ nt_lock' = "server"
    /\ dthread' = IF ok THEN "new" ELSE dthread
    /\ IF ok THEN To("device")
       ELSE IF server_op.op = "bufsize" THEN To("exit") ELSE server_op' = Idle
    /\ UNCHANGED <<device, driverset, attached, fthread, freewheeling,
                   stop_freewheeling, main, ops>>

\* The thread whose device does not start is told to exit.
RunAfter(ok) == IF ok THEN nt_run ELSE "EXIT"

StartsDevice(ok) ==
    /\ ok \/ "device" \in Faults
    /\ server_op.at = "device"
    /\ nt_run' = RunAfter(ok)
    /\ nt_lock' = "free"
    /\ device' = IF ok THEN "running" ELSE device
    /\ IF ~ok /\ server_op.op = "bufsize" THEN To("exit") ELSE server_op' = Idle
    /\ UNCHANGED <<dthread, driverset, attached, fthread, freewheeling,
                   stop_freewheeling, main, undefined, ops>>

\* jack_driver_nt_bufsize gives up: jack_engine_driver_exit, first its stop.
ServerExits ==
    /\ server_op.at = "exit"
    /\ SetRun("EXIT")
    /\ To("exitjoin")
    /\ UNCHANGED <<nt_lock, dthread, device, driverset, attached, fthread, freewheeling,
                   stop_freewheeling, main, undefined, ops>>

ServerForgets ==
    /\ server_op.at = "exitjoin"
    /\ Join
    /\ device' = "stopped"
    /\ attached' = FALSE
    /\ driverset' = FALSE
    /\ main' = IF main = "waiting" THEN "deletes" ELSE main
    /\ server_op' = Idle
    /\ UNCHANGED <<nt_run, nt_lock, fthread, freewheeling, stop_freewheeling, ops>>

------------------------------------------------------------------------------
(* The main thread: jack_engine_delete.                                        *)

Signalled ==
    /\ Deletes
    /\ main = "waiting"
    /\ main' = "deletes"
    /\ UNCHANGED <<nt_run, nt_lock, dthread, device, driverset, attached, fthread,
                   freewheeling, stop_freewheeling, server_op, undefined, ops>>

\* jack_stop_freewheeling; the driver is not restarted.
MainStopsFreewheel ==
    /\ main = "deletes"
    /\ main' = IF freewheeling THEN "joinfw" ELSE "exit"
    /\ stop_freewheeling' = (stop_freewheeling \/ freewheeling)
    /\ UNCHANGED <<nt_run, nt_lock, dthread, device, driverset, attached, fthread,
                   freewheeling, server_op, undefined, ops>>

MainJoinsFreewheel ==
    /\ main = "joinfw"
    /\ MayJoinFreewheel(fthread)
    /\ fthread' = IF fthread = "ended" THEN "joined" ELSE fthread
    /\ undefined' = (undefined \/ fthread \in {"none", "joined"})
    /\ freewheeling' = FALSE
    /\ main' = "exit"
    /\ UNCHANGED <<nt_run, nt_lock, dthread, device, driverset, attached,
                   stop_freewheeling, server_op, ops>>

MainExits ==
    /\ main = "exit"
    /\ IF driverset THEN SetRun("EXIT") /\ main' = "join"
                    ELSE nt_run' = nt_run /\ main' = "deleted"
    /\ UNCHANGED <<nt_lock, dthread, device, driverset, attached, fthread, freewheeling,
                   stop_freewheeling, server_op, undefined, ops>>

\* The driver is stopped and unloaded, and the server thread cancelled.
MainUnloads ==
    /\ main = "join"
    /\ Join
    /\ device' = "stopped"
    /\ driverset' = FALSE
    /\ main' = "deleted"
    /\ UNCHANGED <<nt_run, nt_lock, attached, fthread, freewheeling, stop_freewheeling,
                   server_op, ops>>

------------------------------------------------------------------------------
Driver ==
    \/ \E ok \in BOOLEAN : DriverCycles(ok)
    \/ DriverChecks \/ DriverDies \/ DriverStops \/ DriverDetaches \/ DriverKills
    \/ DriverForgets

Freewheel == FreewheelChecks \/ \E ok \in BOOLEAN : FreewheelCycles(ok)

Server ==
    \/ \E ok \in BOOLEAN : CreatesFreewheel(ok) \/ CreatesDriver(ok) \/ StartsDevice(ok)
    \/ ServerJoins \/ ServerStops \/ JoinsFreewheel \/ ServerExits \/ ServerForgets

Main == MainStopsFreewheel \/ MainJoinsFreewheel \/ MainExits \/ MainUnloads

\* What follows an undefined step is not followed; a deleted engine has stopped.
EngineNext ==
    /\ ~undefined
    /\ main # "deleted"
    /\ \/ Driver \/ Freewheel \/ Server \/ Main \/ Signalled
       \/ \E op \in {"bufsize", "freewheel", "stopfreewheel"} : Request(op)

EngineSpec == EngineInit /\ [][EngineNext]_engineVars

EngineFairness ==
    /\ WF_engineVars(~undefined /\ main # "deleted" /\ Driver)
    /\ WF_engineVars(~undefined /\ main # "deleted" /\ Freewheel)
    /\ WF_engineVars(~undefined /\ main # "deleted" /\ Server)
    /\ WF_engineVars(~undefined /\ main # "deleted" /\ Main)

FairEngineSpec == EngineSpec /\ EngineFairness

------------------------------------------------------------------------------
\* The threads and what they share are well formed.
EngineTypeOK ==
    /\ nt_run \in {"RUN", "EXIT", "PAUSE", "DYING"}
    /\ nt_lock \in {"free", "server"}
    /\ dthread \in DriverThreads
    /\ fthread \in {"none", "check", "cycle", "ended", "joined"}
    /\ server_op.op \in {"idle", "bufsize", "freewheel", "stopfreewheel"}
    /\ main \in {"waiting", "deletes", "joinfw", "exit", "join", "deleted"}

\* jack_run_one_cycle takes the graph lock for reading only and counts in static
\* variables: the driver thread and the freewheel thread must never be in it at
\* the same time, and only their stop, join and create keep them apart.
OneRunsCycles ==
    ~undefined => ~(dthread = "cycle" /\ fthread = "cycle")

\* No cycle reads or writes a device that was stopped, by a request, by the
\* main thread or because a start failed half way.
StoppedDeviceRests ==
    ~undefined /\ device = "stopped" => dthread # "cycle"

\* When the server waits again there is at most one thread that runs cycles, and
\* the freewheel thread only while the engine freewheels.
FreewheelThreadEnds ==
    ~undefined /\ server_op = Idle /\ fthread \in {"check", "cycle"} =>
        freewheeling \/ main \in {"exit", "join"}

\* A request that stops the driver thread or the freewheel thread gets past the
\* joins and is answered: no thread waits for one that waits for it.
RequestsReturn == server_op # Idle ~> server_op = Idle \/ undefined \/ main = "deleted"

\* The threads are kept: one of them runs cycles, on a device that was started,
\* and the freewheel thread only while the engine freewheels.
EngineInv ==
    /\ EngineTypeOK
    /\ OneRunsCycles
    /\ StoppedDeviceRests
    /\ FreewheelThreadEnds
==============================================================================
