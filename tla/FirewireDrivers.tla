--------------------------- MODULE FirewireDrivers ---------------------------
(* The two FireWire drivers (drivers/freebob, drivers/firewire): the ports a    *)
(* device's streams get, the buffer each stream is pointed at, and what the    *)
(* engine's calls leave behind when one step of them fails. What libfreebob,   *)
(* libffado and the engine answer is chosen.                                   *)
EXTENDS Naturals, Sequences

CONSTANTS
    FireApis,           \* "freebob", "ffado"
    FireDevices,        \* <<types of the capture streams, types of the playback streams>>
    FireMidi,           \* builds of the freebob driver: "alsa", "jack"
    FirePeriods         \* period sizes

ASSUME FireAssumption ==
    /\ FireApis \subseteq {"freebob", "ffado"} /\ FireMidi \subseteq {"alsa", "jack"}
    /\ FirePeriods \subseteq Nat \ {0}
    /\ FireDevices \subseteq Seq({"audio", "midi", "other"}) \X Seq({"audio", "midi", "other"})

Capture == 1
Playback == 2
FireDirections == {Capture, Playback}

VARIABLES
    fireApi, fireDevice, fireMidi,      \* fixed: the driver, its device, its build
    firePhase,      \* "new", "refused", "attached", "running", "paused", "detached", "deleted", "crashed"
    fireList,       \* capture_ports, playback_ports: a stream's number, or 0 for an entry that is NULL
    firePorts,      \* <<direction, stream>> registered with the engine
    fireLatency,    \* <<port, direction>>: the latency ranges that were set
    fireDev,        \* driver->dev is open
    fireHandle,     \* driver->midi_handle: the stream of each port of the sequencer, 0: none
    fireThreads,    \* the MIDI threads of freebob: "none", "run", "joined"
    fireBuf,        \* where each stream transfers: "null", "port", "still", "midi", "freed", "stack", "dead"
    firePeriod,     \* period_size of the driver, of the device and of the engine
    fireTransfer,   \* the last transfer: the cycle it was part of, and the streams with a dead buffer
    fireFailed,     \* steps that failed: "start", "bufsize", "thread"
    fireUndefined   \* a thread was joined that did not run

fireFixed == <<fireApi, fireDevice, fireMidi>>
fireCycleVars == <<fireBuf, fireTransfer>>
firePortVars == <<fireList, firePorts, fireLatency>>
fireRunVars == <<fireDev, fireHandle, fireThreads, firePeriod, fireFailed, fireUndefined>>
fireVars == <<fireFixed, firePhase, firePortVars, fireRunVars, fireCycleVars>>

freebob == fireApi = "freebob"
Streams(dir) == 1 .. Len(fireDevice[dir])
Type(dir, s) == fireDevice[dir][s]
NoHandle == <<>>
NoThreads == [queue |-> "none", dequeue |-> "none"]
NullBuffers == [dir \in FireDirections |-> [s \in Streams(dir) |-> "null"]]
NoTransfer == [cycle |-> "none", dead |-> {}]

\* freebob_driver_new, ffado_driver_new
FireInit ==
    /\ fireApi \in FireApis /\ fireDevice \in FireDevices /\ fireMidi \in FireMidi
    /\ (fireApi = "ffado" => fireMidi = "jack")
    /\ firePhase = "new" /\ fireList = [dir \in FireDirections |-> <<>>] /\ firePorts = {} /\ fireLatency = {}
    /\ fireDev = FALSE /\ fireHandle = NoHandle /\ fireThreads = NoThreads /\ fireBuf = NullBuffers
    /\ firePeriod \in {[driver |-> p, device |-> 0, engine |-> 0] : p \in FirePeriods}
    /\ fireTransfer = NoTransfer /\ fireFailed = {} /\ fireUndefined = FALSE

------------------------------------------------------------------------------
(* Attaching.                                                                  *)

\* The freebob driver makes ports for MIDI streams when it is built with
\* FREEBOB_DRIVER_WITH_JACK_MIDI; otherwise they go to the ALSA sequencer.
HasPort(dir, s) == Type(dir, s) = "audio" \/ (Type(dir, s) = "midi" /\ fireMidi = "jack")

\* Where registering fails: 0, or a stream that should have a port.
Failures(dir) == {0} \cup {s \in Streams(dir) : HasPort(dir, s)}

\* One direction's list: its loop ends at the port that could not be registered.
Listed(dir, fails) ==
    [s \in 1 .. (IF fails = 0 THEN Len(fireDevice[dir]) ELSE fails - 1) |->
        IF HasPort(dir, s) THEN s ELSE 0]

Ports(list) == UNION {{<<dir, list[dir][i]>> : i \in {j \in DOMAIN list[dir] : list[dir][j] # 0}} : dir \in FireDirections}

\* The port that "port" points to after the first i entries of the list, or 0.
\* It keeps the one of an earlier entry when an entry is NULL.
PortAt(list, dir, i, before) ==
    LET own == {j \in 1 .. i : list[dir][j] # 0}
    IN  IF own = {} THEN before ELSE <<dir, list[dir][CHOOSE j \in own : \A k \in own : k <= j]>>

NoPort == <<0, 0>>
AfterCapture(list, fails) == IF fails # 0 THEN NoPort ELSE PortAt(list, Capture, Len(list[Capture]), NoPort)
Before(list, dir, fails) == IF dir = Capture THEN NoPort ELSE AfterCapture(list, fails)

\* freebob_driver_attach sets the latency of "port" after each entry, of a NULL one too.
LatenciesSet(list, fails) ==
    UNION {{<<PortAt(list, dir, i, Before(list, dir, fails)), dir>> : i \in DOMAIN list[dir]} : dir \in FireDirections}

\* freebob_driver_midi_init: a port of the ALSA sequencer for each MIDI stream.
\* An entry whose port or parser could not be made has stream number -1, here 0;
\* without the sequencer there is no handle, and the driver does without MIDI.
MidiStreams(dir) == SelectSeq([s \in Streams(dir) |-> s], LAMBDA s : Type(dir, s) = "midi")
MidiEntries(dir) ==
    LET streams == MidiStreams(dir)
    IN  {f \in [DOMAIN streams -> {0} \cup Streams(dir)] : \A i \in DOMAIN streams : f[i] \in {0, streams[i]}}

freebob_driver_midi_init == {NoHandle} \cup (MidiEntries(Capture) \X MidiEntries(Playback))

\* The buffer size is refused, or there is no device.
AttachFails ==
    /\ firePhase = "new" /\ firePhase' = "refused"
    /\ \E engine \in {0, firePeriod.driver} : firePeriod' = [firePeriod EXCEPT !.engine = engine]
    /\ UNCHANGED <<fireFixed, firePortVars, fireDev, fireHandle, fireThreads, fireFailed, fireUndefined, fireCycleVars>>

Attached(list, latencies) ==
    /\ fireList' = list /\ firePorts' = Ports(list) /\ fireLatency' = latencies /\ fireDev' = TRUE
    /\ firePeriod' = [firePeriod EXCEPT !.device = firePeriod.driver, !.engine = firePeriod.driver]
    /\ fireHandle' \in (IF freebob /\ fireMidi = "alsa" THEN freebob_driver_midi_init ELSE {NoHandle})
    /\ UNCHANGED <<fireFixed, fireThreads, fireFailed, fireUndefined, fireCycleVars>>

\* A NULL entry before the first port: jack_port_set_latency_range is given NULL.
freebob_driver_attach ==
    /\ freebob /\ firePhase = "new"
    /\ \E c \in Failures(Capture), p \in Failures(Playback) :
        LET list == [dir \in FireDirections |-> Listed(dir, IF dir = Capture THEN c ELSE p)]
            set == LatenciesSet(list, c)
        IN  /\ Attached(list, set)
            /\ IF NoPort \in {x[1] : x \in set} THEN firePhase' = "crashed"
               ELSE firePhase' \in {"attached", "refused"}

\* ffado_streaming_prepare or jack_activate may fail; the ports are there.
ffado_driver_attach ==
    /\ ~freebob /\ firePhase = "new"
    /\ \E c \in Failures(Capture), p \in Failures(Playback) :
        Attached([dir \in FireDirections |-> Listed(dir, IF dir = Capture THEN c ELSE p)], {})
    /\ firePhase' \in {"attached", "refused"}

\* ffado_latency_callback, once for each mode: all ports of the client.
ffado_latency_callback ==
    /\ ~freebob /\ firePhase \in {"attached", "running"}
    /\ \E mode \in FireDirections :
        fireLatency' = {x \in fireLatency : x[2] # mode} \cup {<<p, mode>> : p \in firePorts}
    /\ UNCHANGED <<fireFixed, firePhase, fireList, firePorts, fireRunVars, fireCycleVars>>

------------------------------------------------------------------------------
(* Starting and stopping.                                                      *)

\* freebob_driver_midi_stop cancels and joins both threads, running or not.
ThreadsJoined(threads) ==
    [threads |-> [t \in DOMAIN threads |-> "joined"],
     undefined |-> \E t \in DOMAIN threads : threads[t] # "run"]

\* What freebob_driver_start and ffado_driver_start may leave: its result, the
\* MIDI threads, and what failed. Without a handle there are no threads.
DriverStarts(threads) ==
    LET both == [queue |-> "run", dequeue |-> "run"]
        plain == {[ok |-> TRUE, threads |-> threads, failed |-> {}],
                  [ok |-> FALSE, threads |-> threads, failed |-> {"start"}]}
    IN  IF fireHandle = NoHandle THEN plain
        ELSE {[ok |-> TRUE, threads |-> both, failed |-> {}],
              [ok |-> FALSE, threads |-> ThreadsJoined(both).threads, failed |-> {"start"}],
              [ok |-> FALSE, threads |-> [threads EXCEPT !.queue = "run"], failed |-> {"start", "thread"}],
              [ok |-> FALSE, threads |-> threads, failed |-> {"start", "thread"}]}

\* jack_driver_nt_start
FireStarts ==
    /\ firePhase = "attached"
    /\ \E s \in DriverStarts(fireThreads) :
        /\ firePhase' = IF s.ok THEN "running" ELSE "paused"
        /\ fireThreads' = s.threads /\ fireFailed' = fireFailed \cup s.failed
    /\ UNCHANGED <<fireFixed, firePortVars, fireDev, fireHandle, firePeriod, fireUndefined, fireCycleVars>>

\* Mutant: the threads of the sequencer are left running.
Stops_Left(threads) == [threads |-> threads, undefined |-> FALSE]

\* What freebob_driver_stop and ffado_driver_stop do to the threads.
Stops(threads) == IF fireHandle # NoHandle THEN ThreadsJoined(threads) ELSE [threads |-> threads, undefined |-> FALSE]

\* jack_driver_nt_do_stop calls nt_stop whether or not the start succeeded.
FireStops ==
    /\ firePhase \in {"running", "paused"} /\ firePhase' = "attached"
    /\ fireThreads' = Stops(fireThreads).threads
    /\ fireUndefined' = (fireUndefined \/ Stops(fireThreads).undefined)
    /\ UNCHANGED <<fireFixed, firePortVars, fireDev, fireHandle, firePeriod, fireFailed, fireCycleVars>>

------------------------------------------------------------------------------
(* The cycles.                                                                 *)

\* What freebob_driver_read and _write, ffado_driver_read and _write point a
\* stream at, or "" when they leave it.
RunBuffer(dir, s, connected) ==
    IF freebob THEN CASE Type(dir, s) = "audio" -> "port"
                      [] Type(dir, s) = "midi" /\ fireMidi = "jack" -> ""
                      [] OTHER -> "stack"
    ELSE CASE Type(dir, s) = "audio" -> (IF connected THEN "port" ELSE "still")
           [] Type(dir, s) = "midi" -> (IF connected \/ dir = Capture THEN "midi" ELSE "still")
           [] OTHER -> "still"

\* freebob_driver_null_cycle, ffado_driver_null_cycle
NullBuffer(dir, s) ==
    IF freebob THEN CASE Type(dir, s) = "audio" -> "stack"
                      [] Type(dir, s) = "midi" \/ (Type(dir, s) # "audio" /\ dir = Capture) -> ""
                      [] OTHER -> "stack"
    ELSE IF Type(dir, s) = "audio" THEN "still" ELSE ""

Pointed(new) ==
    [dir \in FireDirections |-> [s \in Streams(dir) |->
        IF s > Len(fireList[dir]) \/ new[dir][s] = "" THEN fireBuf[dir][s] ELSE new[dir][s]]]

\* The streams that transfer through memory that is gone. MIDI streams of
\* freebob are read and written with calls of their own.
DeadIn(buf) ==
    {x \in UNION {{<<dir, s>> : s \in Streams(dir)} : dir \in FireDirections} :
        buf[x[1]][x[2]] \in {"dead", "freed"} /\ ~(freebob /\ Type(x[1], x[2]) = "midi")}

\* A buffer on the stack is gone when the call returns.
Left(buf) == [dir \in FireDirections |-> [s \in Streams(dir) |-> IF buf[dir][s] = "stack" THEN "dead" ELSE buf[dir][s]]]

Transfers(cycle, buf) ==
    /\ fireBuf' = Left(buf) /\ fireTransfer' = [cycle |-> cycle, dead |-> DeadIn(buf)]
    /\ UNCHANGED <<fireFixed, firePhase, firePortVars, fireRunVars>>

\* driver->run_cycle, with the engine's cycle: read, process, write. The
\* connected ports are chosen.
FireRuns ==
    /\ firePhase = "running"
    /\ \E connected \in SUBSET firePorts :
        Transfers("run", Pointed([dir \in FireDirections |->
            [s \in Streams(dir) |-> RunBuffer(dir, s, <<dir, s>> \in connected)]]))

\* The engine cannot run a cycle and gives the period away.
FireNulls ==
    /\ firePhase = "running"
    /\ Transfers("null", Pointed([dir \in FireDirections |-> [s \in Streams(dir) |-> NullBuffer(dir, s)]]))

------------------------------------------------------------------------------
(* Changing the period, and the end.                                           *)

\* The MIDI buffers of ffado are freed and made again; the device is not told.
Freed(buf) == [dir \in FireDirections |-> [s \in Streams(dir) |-> IF buf[dir][s] = "midi" THEN "freed" ELSE buf[dir][s]]]

\* ffado_driver_bufsize: not supported, refused by the device, refused by the
\* engine, or done. freebob_driver_bufsize always fails.
Resized(p) ==
    {[ok |-> FALSE, period |-> firePeriod, buf |-> fireBuf]} \cup
    (IF freebob THEN {}
     ELSE {[ok |-> FALSE, period |-> [firePeriod EXCEPT !.driver = p], buf |-> Freed(fireBuf)],
           [ok |-> FALSE, period |-> [firePeriod EXCEPT !.driver = p, !.device = p], buf |-> Freed(fireBuf)],
           [ok |-> TRUE, period |-> [driver |-> p, device |-> p, engine |-> p], buf |-> Freed(fireBuf)]})

\* jack_driver_nt_bufsize stops the driver, changes the period and starts it
\* again, also when the change failed.
FireBufsize ==
    /\ firePhase = "running"
    /\ \E p \in FirePeriods : \E r \in Resized(p), s \in DriverStarts(Stops(fireThreads).threads) :
        /\ firePeriod' = r.period /\ fireBuf' = r.buf
        /\ firePhase' = IF s.ok THEN "running" ELSE "paused"
        /\ fireThreads' = s.threads
        /\ fireFailed' = fireFailed \cup s.failed \cup (IF r.ok THEN {} ELSE {"bufsize"})
        /\ fireUndefined' = (fireUndefined \/ Stops(fireThreads).undefined)
    /\ fireTransfer' = NoTransfer /\ UNCHANGED <<fireFixed, firePortVars, fireDev, fireHandle>>

\* freebob_driver_detach ends each list at its first NULL entry.
Unregistered(list, dir) ==
    {<<dir, s>> : s \in {list[dir][i] : i \in {j \in DOMAIN list[dir] :
        IF freebob THEN \A k \in 1 .. j : list[dir][k] # 0 ELSE list[dir][j] # 0}}}

Detaches(phase) ==
    /\ firePhase' = phase /\ fireDev' = FALSE /\ fireHandle' = NoHandle
    /\ firePorts' = firePorts \ UNION {Unregistered(fireList, dir) : dir \in FireDirections}
    /\ fireList' = [dir \in FireDirections |-> <<>>]
    /\ UNCHANGED <<fireFixed, fireLatency, firePeriod, fireFailed, fireCycleVars>>

\* freebob_driver_detach, ffado_driver_detach, of a driver that is stopped.
FireDetaches ==
    /\ firePhase = "attached" /\ Detaches("detached") /\ UNCHANGED <<fireThreads, fireUndefined>>

\* ffado_driver_run_cycle fails on an error or a shutdown of the device:
\* jack_engine_driver_exit stops and detaches the driver.
FireDies ==
    /\ ~freebob /\ firePhase = "running" /\ Detaches("detached") /\ UNCHANGED <<fireThreads, fireUndefined>>

\* jack_engine_delete deletes the driver it has stopped and not detached.
\* freebob_driver_delete detaches it, ffado_driver_delete does not.
FireDeletes ==
    /\ firePhase = "attached"
    /\ IF freebob THEN Detaches("deleted")
       ELSE /\ firePhase' = "deleted"
            /\ UNCHANGED <<fireFixed, firePortVars, fireDev, fireHandle, firePeriod, fireFailed, fireCycleVars>>
    /\ UNCHANGED <<fireThreads, fireUndefined>>

FireNext ==
    \/ AttachFails \/ freebob_driver_attach \/ ffado_driver_attach \/ ffado_latency_callback
    \/ FireStarts \/ FireStops \/ FireRuns \/ FireNulls \/ FireBufsize
    \/ FireDetaches \/ FireDies \/ FireDeletes

FireSpec == FireInit /\ [][FireNext]_fireVars

------------------------------------------------------------------------------
(* What FirewireInv puts together.                                             *)

\* A detached driver has given back its ports. Only freebob leaves some: those
\* of streams behind one that has no port.
PortsAreGivenBack ==
    firePhase = "detached" =>
        \A p \in firePorts : freebob /\ \E s \in Streams(p[1]) : s < p[2] /\ ~HasPort(p[1], s)

\* A cycle that runs transfers through memory that is there, and a null cycle
\* does so for sound.
BuffersAreAlive ==
    /\ fireTransfer.cycle = "run" => fireTransfer.dead = {}
    /\ \A x \in fireTransfer.dead : Type(x[1], x[2]) # "audio"

\* Driver, device and engine have one period unless a change of it failed.
OnePeriod ==
    firePhase = "running" /\ "bufsize" \notin fireFailed =>
        firePeriod.driver = firePeriod.device /\ firePeriod.device = firePeriod.engine

\* The MIDI threads are joined once for each start, as long as starts succeed,
\* and none is left when the handle they use is freed.
ThreadsEndOnce ==
    /\ fireUndefined => "start" \in fireFailed
    /\ fireHandle = NoHandle => \A t \in DOMAIN fireThreads : fireThreads[t] # "run"

\* A freebob driver that is attached has told the latency of its ports.
LatencyIsTold ==
    freebob /\ firePhase \in {"attached", "running"} => \A p \in firePorts : <<p, p[1]>> \in fireLatency

\* What FireWire devices are pointed at, and what is left when they are.
FirewireInv == PortsAreGivenBack /\ BuffersAreAlive /\ OnePeriod /\ ThreadsEndOnce /\ LatencyIsTold
==============================================================================
