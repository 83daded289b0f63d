----------------------------- MODULE BsdDrivers -----------------------------
(* The drivers of the sound systems of the BSDs and of Sun.                    *)
(*                                                                             *)
(* Sun and sndio (drivers/sun, drivers/sndio): one thread waits for a period   *)
(* in each direction, hands the engine the period it read in the cycle before, *)
(* reads the next and writes what the engine made. Captured periods are        *)
(* numbered. The Sun driver is the one built without AUDIO_RERROR.             *)
(*                                                                             *)
(* OSS (drivers/oss/oss_driver.c): built with USE_BARRIER one thread reads     *)
(* from the device and one writes to it, and after each period they meet at a  *)
(* barrier where one of them runs the engine's cycle; built without it the     *)
(* reading thread does it all. Periods are numbered.                           *)
EXTENDS Integers

CONSTANTS
    Kinds,              \* "sun", "sndio"
    DeviceSize,         \* periods each buffer of the device holds
    Primes,             \* periods of silence a start writes, as the device was granted
    MaxRecorded         \* bound: periods captured

ASSUME BsdAssumption ==
    /\ Kinds \subseteq {"sun", "sndio"} /\ {DeviceSize, MaxRecorded} \subseteq Nat
    /\ Primes \subseteq 1 .. DeviceSize

VARIABLES
    kind, prime,        \* fixed: the driver, and nperiods or pprime
    bsdPc,              \* "stopped", "poll", "read", "write", "dead"
    play, rec,          \* periods in the device's playback and capture buffers
    recorded,           \* number of the last period the device captured
    capbuf,             \* number of the period in indevbuf or capbuf, 0: zeroes
    given,              \* number of the last period the engine got
    playbuf,            \* outdevbuf, playbuf: "zero", or "sound" of a connected port
    plugged,            \* a playback port is connected
    written,            \* what the last write sent to the device, and if a port was connected
    stuck,              \* the last read from the device failed
    lost                \* the device ran dry or over

bsdVars == <<kind, prime, bsdPc, play, rec, recorded, capbuf, given, playbuf, plugged, written, stuck, lost>>
bsdFixed == <<kind, prime>>

BsdInit ==
    /\ kind \in Kinds /\ prime \in Primes /\ bsdPc = "stopped"
    /\ play = 0 /\ rec = 0 /\ recorded = 0 /\ capbuf = 0 /\ given = 0
    /\ playbuf = "zero" /\ plugged = FALSE /\ written = <<"zero", FALSE>> /\ lost = FALSE
    /\ stuck = FALSE

\* The number of the oldest period in the capture buffer.
Oldest == recorded - rec + 1

------------------------------------------------------------------------------
\* sun_driver_start flushes the device and fills the playback buffer while it is paused.
sun_driver_start ==
    /\ kind = "sun" /\ bsdPc = "stopped" /\ bsdPc' = "poll"
    /\ play' = prime /\ rec' = 0 /\ lost' = FALSE
    /\ UNCHANGED <<bsdFixed, recorded, capbuf, given, playbuf, plugged, written, stuck>>

\* sndio_driver_start: the device begins when its buffer is full, that is after the silence.
sndio_driver_start ==
    /\ kind = "sndio" /\ bsdPc = "stopped" /\ bsdPc' = "poll"
    /\ play' = prime /\ rec' = 0 /\ lost' = FALSE
    /\ UNCHANGED <<bsdFixed, recorded, capbuf, given, playbuf, plugged, written, stuck>>

\* sun_driver_stop, sndio_driver_stop, between two cycles.
BsdStops ==
    /\ bsdPc = "poll" /\ bsdPc' = "stopped"
    /\ UNCHANGED <<bsdFixed, play, rec, recorded, capbuf, given, playbuf, plugged, written, stuck, lost>>

BothReady == rec > 0 /\ play < DeviceSize

\* sun_driver_wait goes on after a time-out, which leads to no cycle.
sun_driver_wait ==
    /\ kind = "sun" /\ bsdPc = "poll"
    /\ \/ BothReady /\ bsdPc' = "read"
       \/ bsdPc' = "dead"                       \* poll fails
    /\ UNCHANGED <<bsdFixed, play, rec, recorded, capbuf, given, playbuf, plugged, written, stuck, lost>>

\* sndio_driver_wait: any failure, a time-out included, is the end of the driver.
sndio_driver_wait ==
    /\ kind = "sndio" /\ bsdPc = "poll"
    /\ \/ BothReady /\ bsdPc' = "read"
       \/ bsdPc' = "dead"
    /\ UNCHANGED <<bsdFixed, play, rec, recorded, capbuf, given, playbuf, plugged, written, stuck, lost>>

\* Mutant: the buffer is filled once.
Refilled_Once == IF capbuf = 0 THEN Oldest ELSE capbuf

Refilled == Oldest

\* The ports get the period in capbuf, then capbuf the next from the device, unless that fails.
ReadsPeriod ==
    /\ given' = capbuf
    /\ \/ capbuf' = Refilled /\ rec' = rec - 1
       \/ UNCHANGED <<capbuf, rec>>
    /\ stuck' = (rec' = rec) /\ lost' = (lost \/ stuck')
sun_driver_read ==
    /\ kind = "sun" /\ bsdPc = "read" /\ bsdPc' = "write"
    /\ ReadsPeriod
    /\ UNCHANGED <<bsdFixed, play, recorded, playbuf, plugged, written>>
sndio_driver_read ==
    /\ kind = "sndio" /\ bsdPc = "read" /\ bsdPc' = "write"
    /\ ReadsPeriod
    /\ UNCHANGED <<bsdFixed, play, recorded, playbuf, plugged, written>>

Zeroed(b) == "zero"

\* The Sun driver zeroes the buffer before it takes the ports' sound, the sndio driver after
\* it has written.
sun_driver_write ==
    /\ kind = "sun" /\ bsdPc = "write" /\ bsdPc' = "poll"
    /\ playbuf' = IF plugged THEN "sound" ELSE Zeroed(playbuf)
    /\ written' = <<playbuf', plugged>>
    /\ play' = play + 1
    /\ UNCHANGED <<bsdFixed, rec, recorded, capbuf, given, plugged, stuck, lost>>
sndio_driver_write ==
    /\ kind = "sndio" /\ bsdPc = "write" /\ bsdPc' = "poll"
    /\ written' = <<IF plugged THEN "sound" ELSE playbuf, plugged>>
    /\ playbuf' = Zeroed(written'[1])
    /\ play' = play + 1
    /\ UNCHANGED <<bsdFixed, rec, recorded, capbuf, given, plugged, stuck, lost>>

\* Mutant: a null cycle drops the input only.
NullCycleWrites_Not == play

NullCycleWrites == play + 1

\* The two null cycles: a period of silence is written, one of input thrown away.
sun_driver_null_cycle ==
    /\ kind = "sun" /\ bsdPc = "read" /\ bsdPc' = "poll"
    /\ play' = NullCycleWrites /\ rec' = rec - 1
    /\ UNCHANGED <<bsdFixed, recorded, capbuf, given, playbuf, plugged, written, stuck, lost>>
sndio_driver_null_cycle ==
    /\ kind = "sndio" /\ bsdPc = "read" /\ bsdPc' = "poll"
    /\ play' = NullCycleWrites /\ rec' = rec - 1
    /\ UNCHANGED <<bsdFixed, recorded, capbuf, given, playbuf, plugged, written, stuck, lost>>

------------------------------------------------------------------------------
(* The device and the graph (external).                                        *)

DevicePlays ==
    /\ bsdPc \notin {"stopped", "dead"} /\ recorded < MaxRecorded
    /\ recorded' = recorded + 1
    /\ IF play > 0 /\ rec < DeviceSize
       THEN play' = play - 1 /\ rec' = rec + 1 /\ UNCHANGED lost
       ELSE lost' = TRUE /\ play' = (IF play > 0 THEN play - 1 ELSE 0)
            /\ rec' = (IF rec < DeviceSize THEN rec + 1 ELSE rec)
    /\ UNCHANGED <<bsdFixed, bsdPc, capbuf, given, playbuf, plugged, written, stuck>>

Plugs ==
    /\ bsdPc \in {"poll", "stopped"} /\ plugged' = ~plugged
    /\ UNCHANGED <<bsdFixed, bsdPc, play, rec, recorded, capbuf, given, playbuf, written, stuck, lost>>

BsdNext ==
    \/ sun_driver_start \/ sndio_driver_start \/ BsdStops \/ sun_driver_wait \/ sndio_driver_wait
    \/ sun_driver_read \/ sndio_driver_read \/ sun_driver_write \/ sndio_driver_write
    \/ sun_driver_null_cycle \/ sndio_driver_null_cycle \/ DevicePlays \/ Plugs

BsdSpec == BsdInit /\ [][BsdNext]_bsdVars

------------------------------------------------------------------------------
BsdTypeOK ==
    /\ kind \in Kinds /\ prime \in Primes
    /\ bsdPc \in {"stopped", "poll", "read", "write", "dead"}
    /\ {play, rec} \subseteq 0 .. DeviceSize
    /\ {recorded, capbuf, given} \subseteq 0 .. MaxRecorded
    /\ playbuf \in {"zero", "sound"} /\ plugged \in BOOLEAN /\ {stuck, lost} \subseteq BOOLEAN
    /\ written \in {"zero", "sound"} \X BOOLEAN

\* The way from the input to the output is as long as it was made at the start: real and null
\* cycles alike take one period and give one, so capture never drifts away from playback.
LatencyIsConstant ==
    ~lost /\ bsdPc \in {"poll", "read", "write"} =>
        play + rec = prime - (IF bsdPc = "write" THEN 1 ELSE 0)

\* No captured period is given to the engine twice or after a later one, though each waits a
\* cycle in the driver's buffer and null cycles pass between, unless the device failed to give
\* the next one.
PeriodsAreGivenOnce ==
    [][bsdPc = "read" /\ bsdPc' = "write" => given' > given \/ given' = 0 \/ (stuck /\ given' = given)]_bsdVars

\* What is written while no port is connected is silence, not what the last port left.
UnpluggedIsSilent == written[2] \/ written[1] = "zero"

\* The Sun and sndio drivers keep the way from input to output as long as it was
\* and play silence where nobody is connected.
BsdInv ==
    /\ BsdTypeOK
    /\ LatencyIsConstant
    /\ UnpluggedIsSilent

-----------------------------------------------------------------------------
(* OSS                                                                         *)

CONSTANTS
    Devices,            \* what may be opened: subsets of {"in", "out"}
    Builds,             \* the values of USE_BARRIER that are checked
    MaxPeriods          \* bound: periods from one start to the next stop

ASSUME OssAssumption ==
    /\ Devices \subseteq SUBSET {"in", "out"} /\ Builds \subseteq BOOLEAN
    /\ MaxPeriods \in Nat

VARIABLES
    useBarrier, fds,    \* fixed: the build, and the devices of the driver's channels
    server,             \* "idle", "running", or who stop waits for: "joinIn", "joinOut"
    run,                \* driver->run
    io,                 \* what each thread does
    reads, writes, cycles,   \* periods read, written and processed since the start
    indevbuf,           \* number of the period in indevbuf
    outdevbuf,          \* number of the cycle whose sound is in outdevbuf
    localbuf,           \* number of the cycle whose sound the writer holds
    heard               \* number of the period that the last cycle got

ossVars == <<useBarrier, fds, server, run, io, reads, writes, cycles, indevbuf, outdevbuf, localbuf, heard>>
ossFixed == <<useBarrier, fds>>
ossCounts == <<reads, writes, cycles, indevbuf, outdevbuf, localbuf, heard>>

IoThreads == {"in", "out"}
\* top: at the head of the loop; io: in write, or in read; barrier: waits for the other
\* thread; cycle, process: before and after the engine's cycle has read the input.
Stages == {"none", "top", "io", "read", "barrier", "cycle", "process", "exited"}

\* driver->threads: in a build without the barrier there is no thread for the output.
Threads == fds \cap (IF useBarrier THEN IoThreads ELSE {"in"})
Goes(t, stage) == io' = [io EXCEPT ![t] = stage]

OssInit ==
    /\ useBarrier \in Builds /\ fds \in Devices /\ server = "idle" /\ run = FALSE
    /\ io = [t \in IoThreads |-> "none"]
    /\ reads = 0 /\ writes = 0 /\ cycles = 0 /\ indevbuf = 0 /\ outdevbuf = 0
    /\ localbuf = 0 /\ heard = 0

------------------------------------------------------------------------------
(* The server's thread.                                                        *)

oss_driver_start ==
    /\ server = "idle" /\ server' = "running"
    /\ run' = TRUE /\ io' = [t \in IoThreads |-> IF t \in Threads THEN "top" ELSE "none"]
    /\ reads' = 0 /\ writes' = 0 /\ cycles' = 0 /\ indevbuf' = 0 /\ outdevbuf' = 0
    /\ localbuf' = 0 /\ heard' = 0
    /\ UNCHANGED ossFixed

oss_driver_stop ==
    /\ server = "running" /\ run' = FALSE /\ server' = "joinIn"
    /\ UNCHANGED <<ossFixed, io, ossCounts>>

Joined(t) == io[t] \in {"none", "exited"}

JoinsIn ==
    /\ server = "joinIn" /\ Joined("in") /\ server' = "joinOut"
    /\ UNCHANGED <<ossFixed, run, io, ossCounts>>

\* oss_driver_bufsize starts the driver again, which oss_driver_start does from here.
JoinsOut ==
    /\ server = "joinOut" /\ Joined("out") /\ server' = "idle"
    /\ UNCHANGED <<ossFixed, run, io, ossCounts>>

------------------------------------------------------------------------------
(* io_thread.                                                                  *)

\* The writer takes outdevbuf before it writes; the one thread of the other build too.
OssTop(t) ==
    /\ io[t] = "top"
    /\ IF ~run THEN Goes(t, "exited") /\ UNCHANGED localbuf
       ELSE IF t = "out" \/ (~useBarrier /\ "out" \in fds)
       THEN Goes(t, "io") /\ localbuf' = outdevbuf
       ELSE Goes(t, "read") /\ UNCHANGED localbuf
    /\ UNCHANGED <<ossFixed, server, run, reads, writes, cycles, indevbuf, outdevbuf, heard>>

OssWrites(t) ==
    /\ io[t] = "io"
    /\ \/ /\ writes < MaxPeriods /\ writes' = writes + 1
          /\ Goes(t, IF useBarrier THEN "barrier" ELSE IF t \in fds THEN "read" ELSE "cycle")
       \/ Goes(t, "exited") /\ UNCHANGED writes       \* the write fails
    /\ UNCHANGED <<ossFixed, server, run, reads, cycles, indevbuf, outdevbuf, localbuf, heard>>

OssReads(t) ==
    /\ io[t] = "read"
    /\ \/ /\ reads < MaxPeriods /\ reads' = reads + 1 /\ indevbuf' = reads + 1
          /\ Goes(t, IF useBarrier THEN "barrier" ELSE "cycle")
       \/ Goes(t, "exited") /\ UNCHANGED <<reads, indevbuf>>      \* the read fails
    /\ UNCHANGED <<ossFixed, server, run, writes, cycles, outdevbuf, localbuf, heard>>

\* Mutant: who comes to the barrier first does not wait.
synchronize_First(t) == TRUE

\* pthread_barrier_wait, when there are two threads.
synchronize(t) == \/ Threads # IoThreads
                  \/ \A u \in IoThreads : io[u] = "barrier"

Synchronizes(t) ==
    /\ io[t] = "barrier" /\ synchronize(t)
    /\ io' = [u \in IoThreads |-> IF u = t THEN "cycle" ELSE IF io[u] = "barrier" THEN "top" ELSE io[u]]
    /\ UNCHANGED <<ossFixed, server, run, ossCounts>>

\* driver_cycle: oss_driver_read when the engine begins, unless the cycle is a null cycle.
oss_driver_read(t) ==
    /\ io[t] = "cycle" /\ Goes(t, "process") /\ cycles' = cycles + 1
    /\ heard' = IF run /\ "in" \in fds THEN indevbuf ELSE heard
    /\ UNCHANGED <<ossFixed, server, run, reads, writes, indevbuf, outdevbuf, localbuf>>

\* oss_driver_write at its end. A driver that was told to stop does not write.
oss_driver_write(t) ==
    /\ io[t] = "process" /\ Goes(t, "top")
    /\ outdevbuf' = IF run THEN cycles ELSE outdevbuf
    /\ UNCHANGED <<ossFixed, server, run, reads, writes, cycles, indevbuf, localbuf, heard>>

OssThread(t) == OssTop(t) \/ OssWrites(t) \/ OssReads(t) \/ Synchronizes(t)
                \/ oss_driver_read(t) \/ oss_driver_write(t)

OssNext == oss_driver_start \/ oss_driver_stop \/ JoinsIn \/ JoinsOut \/ \E t \in IoThreads : OssThread(t)

OssSpec == OssInit /\ [][OssNext]_ossVars

------------------------------------------------------------------------------
OssTypeOK ==
    /\ useBarrier \in BOOLEAN /\ fds \subseteq IoThreads
    /\ server \in {"idle", "running", "joinIn", "joinOut"} /\ run \in BOOLEAN
    /\ io \in [IoThreads -> Stages]
    /\ {reads, writes, cycles, indevbuf, outdevbuf, localbuf, heard} \subseteq 0 .. MaxPeriods

\* The two threads never run the engine's cycle at the same time, nor does a thread that was
\* stopped run one beside the threads of the next start.
OneRunsTheCycle == ~\A t \in IoThreads : io[t] \in {"cycle", "process"}

\* Capture and playback stay together: whichever thread runs the cycle, the reader may be one
\* period ahead of the cycle, and what is written is at most one cycle old.
PeriodsKeepTogether ==
    server = "running" =>
        /\ "in" \in Threads => reads - cycles \in 0 .. 1 + (IF io["in"] = "barrier" THEN 1 ELSE 0)
        /\ heard > 0 => heard - cycles \in 0 .. 1
        /\ io["out"] = "io" => writes - localbuf \in 0 .. 1

\* A device is closed and its buffers are freed only when no thread uses them.
NoThreadWhenIdle == server = "idle" => \A t \in IoThreads : io[t] \in {"none", "exited"}

\* The two threads of the OSS driver keep together, one of them runs the cycle,
\* and none is left when the driver is stopped.
OssInv ==
    /\ OssTypeOK
    /\ OneRunsTheCycle
    /\ PeriodsKeepTogether
    /\ NoThreadWhenIdle
=============================================================================
