-------------------------- MODULE JackDriversProofs --------------------------
(* What holds of the drivers and of the threads that run them, for devices  *)
(* of every size and any number of periods, requests and faults.            *)
EXTENDS BsdDrivers, AlsaDriver, CallbackDrivers, NetJack, FirewireDrivers, JackEngine,
        FiniteSetTheorems, TLAPS

------------------------------------------------------------------------------
(***************************************************************************)
(* The Sun and sndio drivers.  What is in the driver's buffer was captured *)
(* before all that is still in the device, so that a read that succeeds    *)
(* puts a later period there; and a period is asked for only when there    *)
(* is room for the one that answers it.                                    *)
(***************************************************************************)
BufferIsOlder ==
    /\ rec <= recorded
    /\ capbuf <= recorded - rec
    /\ given < capbuf \/ capbuf = 0 \/ (stuck /\ given = capbuf)

RoomForCycle ==
    /\ bsdPc \in {"read", "write"} => play < DeviceSize
    /\ bsdPc = "read" => rec > 0

SndioBufferIsZero == kind = "sndio" => playbuf = "zero"

BsdIInv == BsdInv /\ BufferIsOlder /\ RoomForCycle /\ SndioBufferIsZero

\* BsdTypeOK in three parts, which different backends prove.
BsdNumbers ==
    /\ play \in 0 .. DeviceSize /\ rec \in 0 .. DeviceSize
    /\ recorded \in 0 .. MaxRecorded /\ capbuf \in 0 .. MaxRecorded
    /\ given \in 0 .. MaxRecorded
BsdNames ==
    /\ kind \in Kinds /\ prime \in Primes
    /\ bsdPc \in {"stopped", "poll", "read", "write", "dead"}
    /\ playbuf \in {"zero", "sound"}
BsdFlags ==
    /\ plugged \in BOOLEAN /\ stuck \in BOOLEAN /\ lost \in BOOLEAN
    /\ written \in {"zero", "sound"} \X BOOLEAN

LEMMA BsdTypes == BsdTypeOK <=> BsdNumbers /\ BsdNames /\ BsdFlags
<1>1. BsdTypeOK => BsdNumbers /\ BsdNames /\ BsdFlags
  BY DEF BsdTypeOK, BsdNumbers, BsdNames, BsdFlags
<1>2. BsdNumbers /\ BsdNames /\ BsdFlags => BsdTypeOK
  BY DEF BsdTypeOK, BsdNumbers, BsdNames, BsdFlags
<1>3. QED
  BY <1>1, <1>2

LEMMA BsdInitial == BsdInit => BsdIInv
<1> SUFFICES ASSUME BsdInit PROVE BsdIInv
  OBVIOUS
<1>1. /\ DeviceSize \in Nat /\ MaxRecorded \in Nat
  BY BsdAssumption
<1>2. BsdTypeOK
  <2>1. BsdNumbers
    BY <1>1 DEF BsdInit, BsdNumbers
  <2>2. BsdNames
    BY DEF BsdInit, BsdNames
  <2>3. BsdFlags
    BY DEF BsdInit, BsdFlags
  <2>4. QED
    BY <2>1, <2>2, <2>3, BsdTypes
<1>3. UnpluggedIsSilent
  BY DEF BsdInit, UnpluggedIsSilent
<1>4. LatencyIsConstant /\ BufferIsOlder /\ RoomForCycle /\ SndioBufferIsZero
  BY <1>1 DEF BsdInit, LatencyIsConstant, BufferIsOlder, RoomForCycle, SndioBufferIsZero
<1>5. QED
  BY <1>2, <1>3, <1>4 DEF BsdIInv, BsdInv

LEMMA BsdStep == BsdIInv /\ [BsdNext]_bsdVars => BsdIInv'
<1> SUFFICES ASSUME BsdIInv, [BsdNext]_bsdVars PROVE BsdIInv'
  OBVIOUS
<1> USE DEF BsdIInv, BsdInv, BufferIsOlder, RoomForCycle, SndioBufferIsZero,
            LatencyIsConstant, UnpluggedIsSilent, bsdFixed, BsdNumbers, BsdNames, BsdFlags
<1>t. BsdNumbers /\ BsdNames /\ BsdFlags
  BY BsdTypes
<1>c. /\ DeviceSize \in Nat /\ MaxRecorded \in Nat
      /\ prime \in 1 .. DeviceSize /\ kind \in {"sun", "sndio"}
  BY <1>t, BsdAssumption
<1>1. CASE UNCHANGED bsdVars
  BY <1>1 DEF bsdVars, BsdTypeOK
<1>2. CASE sun_driver_start \/ sndio_driver_start
  <2>1. BsdTypeOK'
    <3>1. BsdNumbers'
      BY <1>2, <1>c, <1>t DEF sun_driver_start, sndio_driver_start
    <3>2. BsdNames'
      BY <1>2, <1>c, <1>t DEF sun_driver_start, sndio_driver_start
    <3>3. BsdFlags'
      BY <1>2, <1>c, <1>t DEF sun_driver_start, sndio_driver_start
    <3>4. QED
      BY <3>1, <3>2, <3>3 DEF BsdTypeOK
  <2>2. LatencyIsConstant'
    BY <1>2, <1>c, <1>t DEF sun_driver_start, sndio_driver_start
  <2>3. UnpluggedIsSilent'
    BY <1>2, <1>c, <1>t DEF sun_driver_start, sndio_driver_start
  <2>4. BufferIsOlder'
    BY <1>2, <1>c, <1>t DEF sun_driver_start, sndio_driver_start
  <2>5. RoomForCycle'
    BY <1>2, <1>c, <1>t DEF sun_driver_start, sndio_driver_start
  <2>6. SndioBufferIsZero'
    BY <1>2, <1>c, <1>t DEF sun_driver_start, sndio_driver_start
  <2>7. QED
    BY <2>1, <2>2, <2>3, <2>4, <2>5, <2>6 DEF BsdIInv, BsdInv
<1>3. CASE BsdStops
  <2>1. BsdTypeOK'
    <3>1. BsdNumbers'
      BY <1>3, <1>c, <1>t DEF BsdStops
    <3>2. BsdNames'
      BY <1>3, <1>c, <1>t DEF BsdStops
    <3>3. BsdFlags'
      BY <1>3, <1>c, <1>t DEF BsdStops
    <3>4. QED
      BY <3>1, <3>2, <3>3 DEF BsdTypeOK
  <2>2. LatencyIsConstant'
    BY <1>3, <1>c, <1>t DEF BsdStops
  <2>3. UnpluggedIsSilent'
    BY <1>3, <1>c, <1>t DEF BsdStops
  <2>4. BufferIsOlder'
    BY <1>3, <1>c, <1>t DEF BsdStops
  <2>5. RoomForCycle'
    BY <1>3, <1>c, <1>t DEF BsdStops
  <2>6. SndioBufferIsZero'
    BY <1>3, <1>c, <1>t DEF BsdStops
  <2>7. QED
    BY <2>1, <2>2, <2>3, <2>4, <2>5, <2>6 DEF BsdIInv, BsdInv
<1>4. CASE sun_driver_wait \/ sndio_driver_wait
  <2>1. BsdTypeOK'
    <3>1. BsdNumbers'
      BY <1>4, <1>c, <1>t DEF sun_driver_wait, sndio_driver_wait, BothReady
    <3>2. BsdNames'
      BY <1>4, <1>c, <1>t DEF sun_driver_wait, sndio_driver_wait, BothReady
    <3>3. BsdFlags'
      BY <1>4, <1>c, <1>t DEF sun_driver_wait, sndio_driver_wait, BothReady
    <3>4. QED
      BY <3>1, <3>2, <3>3 DEF BsdTypeOK
  <2>2. LatencyIsConstant'
    BY <1>4, <1>c, <1>t DEF sun_driver_wait, sndio_driver_wait, BothReady
  <2>3. UnpluggedIsSilent'
    BY <1>4, <1>c, <1>t DEF sun_driver_wait, sndio_driver_wait, BothReady
  <2>4. BufferIsOlder'
    BY <1>4, <1>c, <1>t DEF sun_driver_wait, sndio_driver_wait, BothReady
  <2>5. RoomForCycle'
    BY <1>4, <1>c, <1>t DEF sun_driver_wait, sndio_driver_wait, BothReady
  <2>6. SndioBufferIsZero'
    BY <1>4, <1>c, <1>t DEF sun_driver_wait, sndio_driver_wait, BothReady
  <2>7. QED
    BY <2>1, <2>2, <2>3, <2>4, <2>5, <2>6 DEF BsdIInv, BsdInv
<1>5. CASE sun_driver_read \/ sndio_driver_read
  <2>1. BsdTypeOK'
    <3>1. BsdNumbers'
      BY <1>5, <1>c, <1>t DEF sun_driver_read, sndio_driver_read, ReadsPeriod, Refilled,
         Oldest
    <3>2. BsdNames'
      BY <1>5, <1>c, <1>t DEF sun_driver_read, sndio_driver_read, ReadsPeriod, Refilled,
         Oldest
    <3>3. BsdFlags'
      BY <1>5, <1>c, <1>t DEF sun_driver_read, sndio_driver_read, ReadsPeriod, Refilled,
         Oldest
    <3>4. QED
      BY <3>1, <3>2, <3>3 DEF BsdTypeOK
  <2>r. /\ bsdPc = "read" /\ bsdPc' = "write" /\ given' = capbuf
        /\ UNCHANGED <<kind, prime, play, recorded, playbuf>>
        /\ \/ capbuf' = recorded - rec + 1 /\ rec' = rec - 1 /\ (lost' <=> lost)
           \/ UNCHANGED <<capbuf, rec>> /\ stuck' /\ lost'
    <3>1. /\ bsdPc = "read" /\ bsdPc' = "write" /\ ReadsPeriod
          /\ UNCHANGED <<kind, prime, play, recorded, playbuf>>
      BY <1>5 DEF sun_driver_read, sndio_driver_read
    <3>2. CASE capbuf' = Refilled /\ rec' = rec - 1
      <4>1. rec' # rec
        BY <3>2, <1>t, <1>c
      <4>2. lost' <=> lost
        BY <3>1, <4>1 DEF ReadsPeriod
      <4>3. QED
        BY <3>1, <3>2, <4>2 DEF ReadsPeriod, Refilled, Oldest
    <3>3. CASE UNCHANGED <<capbuf, rec>>
      <4>1. stuck' /\ lost'
        BY <3>1, <3>3 DEF ReadsPeriod
      <4>2. QED
        BY <3>1, <3>3, <4>1 DEF ReadsPeriod
    <3>4. QED
      BY <3>1, <3>2, <3>3 DEF ReadsPeriod
  <2>2. LatencyIsConstant'
    BY <2>r, <1>c, <1>t
  <2>3. UnpluggedIsSilent'
    BY <1>5, <1>c, <1>t DEF sun_driver_read, sndio_driver_read, ReadsPeriod, Refilled,
       Oldest
  <2>4. BufferIsOlder'
    BY <2>r, <1>c, <1>t
  <2>5. RoomForCycle'
    BY <1>5, <1>c, <1>t DEF sun_driver_read, sndio_driver_read, ReadsPeriod, Refilled,
       Oldest
  <2>6. SndioBufferIsZero'
    BY <1>5, <1>c, <1>t DEF sun_driver_read, sndio_driver_read, ReadsPeriod, Refilled,
       Oldest
  <2>7. QED
    BY <2>1, <2>2, <2>3, <2>4, <2>5, <2>6 DEF BsdIInv, BsdInv
<1>6. CASE sun_driver_write \/ sndio_driver_write
  <2>1. BsdTypeOK'
    <3>1. BsdNumbers'
      BY <1>6, <1>c, <1>t DEF sun_driver_write, sndio_driver_write, Zeroed
    <3>2. BsdNames'
      BY <1>6, <1>c, <1>t DEF sun_driver_write, sndio_driver_write, Zeroed
    <3>3. BsdFlags'
      BY <1>6, <1>c, <1>t DEF sun_driver_write, sndio_driver_write, Zeroed
    <3>4. QED
      BY <3>1, <3>2, <3>3 DEF BsdTypeOK
  <2>2. LatencyIsConstant'
    BY <1>6, <1>c, <1>t DEF sun_driver_write, sndio_driver_write, Zeroed
  <2>3. UnpluggedIsSilent'
    BY <1>6, <1>c, <1>t DEF sun_driver_write, sndio_driver_write, Zeroed
  <2>4. BufferIsOlder'
    BY <1>6, <1>c, <1>t DEF sun_driver_write, sndio_driver_write, Zeroed
  <2>5. RoomForCycle'
    BY <1>6, <1>c, <1>t DEF sun_driver_write, sndio_driver_write, Zeroed
  <2>6. SndioBufferIsZero'
    BY <1>6, <1>c, <1>t DEF sun_driver_write, sndio_driver_write, Zeroed
  <2>7. QED
    BY <2>1, <2>2, <2>3, <2>4, <2>5, <2>6 DEF BsdIInv, BsdInv
<1>7. CASE sun_driver_null_cycle \/ sndio_driver_null_cycle
  <2>1. BsdTypeOK'
    <3>1. BsdNumbers'
      BY <1>7, <1>c, <1>t DEF sun_driver_null_cycle, sndio_driver_null_cycle,
         NullCycleWrites
    <3>2. BsdNames'
      BY <1>7, <1>c, <1>t DEF sun_driver_null_cycle, sndio_driver_null_cycle,
         NullCycleWrites
    <3>3. BsdFlags'
      BY <1>7, <1>c, <1>t DEF sun_driver_null_cycle, sndio_driver_null_cycle,
         NullCycleWrites
    <3>4. QED
      BY <3>1, <3>2, <3>3 DEF BsdTypeOK
  <2>2. LatencyIsConstant'
    BY <1>7, <1>c, <1>t DEF sun_driver_null_cycle, sndio_driver_null_cycle, NullCycleWrites
  <2>3. UnpluggedIsSilent'
    BY <1>7, <1>c, <1>t DEF sun_driver_null_cycle, sndio_driver_null_cycle, NullCycleWrites
  <2>4. BufferIsOlder'
    BY <1>7, <1>c, <1>t DEF sun_driver_null_cycle, sndio_driver_null_cycle, NullCycleWrites
  <2>5. RoomForCycle'
    BY <1>7, <1>c, <1>t DEF sun_driver_null_cycle, sndio_driver_null_cycle, NullCycleWrites
  <2>6. SndioBufferIsZero'
    BY <1>7, <1>c, <1>t DEF sun_driver_null_cycle, sndio_driver_null_cycle, NullCycleWrites
  <2>7. QED
    BY <2>1, <2>2, <2>3, <2>4, <2>5, <2>6 DEF BsdIInv, BsdInv
<1>8. CASE DevicePlays
  <2>1. BsdTypeOK'
    <3>1. BsdNumbers'
      BY <1>8, <1>c, <1>t DEF DevicePlays
    <3>2. BsdNames'
      BY <1>8, <1>c, <1>t DEF DevicePlays
    <3>3. BsdFlags'
      BY <1>8, <1>c, <1>t DEF DevicePlays
    <3>4. QED
      BY <3>1, <3>2, <3>3 DEF BsdTypeOK
  <2>2. LatencyIsConstant'
    BY <1>8, <1>c, <1>t DEF DevicePlays
  <2>3. UnpluggedIsSilent'
    BY <1>8, <1>c, <1>t DEF DevicePlays
  <2>4. BufferIsOlder'
    BY <1>8, <1>c, <1>t DEF DevicePlays
  <2>5. RoomForCycle'
    BY <1>8, <1>c, <1>t DEF DevicePlays
  <2>6. SndioBufferIsZero'
    BY <1>8, <1>c, <1>t DEF DevicePlays
  <2>7. QED
    BY <2>1, <2>2, <2>3, <2>4, <2>5, <2>6 DEF BsdIInv, BsdInv
<1>9. CASE Plugs
  <2>1. BsdTypeOK'
    <3>1. BsdNumbers'
      BY <1>9, <1>c, <1>t DEF Plugs
    <3>2. BsdNames'
      BY <1>9, <1>c, <1>t DEF Plugs
    <3>3. BsdFlags'
      BY <1>9, <1>c, <1>t DEF Plugs
    <3>4. QED
      BY <3>1, <3>2, <3>3 DEF BsdTypeOK
  <2>2. LatencyIsConstant'
    BY <1>9, <1>c, <1>t DEF Plugs
  <2>3. UnpluggedIsSilent'
    BY <1>9, <1>c, <1>t DEF Plugs
  <2>4. BufferIsOlder'
    BY <1>9, <1>c, <1>t DEF Plugs
  <2>5. RoomForCycle'
    BY <1>9, <1>c, <1>t DEF Plugs
  <2>6. SndioBufferIsZero'
    BY <1>9, <1>c, <1>t DEF Plugs
  <2>7. QED
    BY <2>1, <2>2, <2>3, <2>4, <2>5, <2>6 DEF BsdIInv, BsdInv
<1>10. QED
  BY <1>1, <1>2, <1>3, <1>4, <1>5, <1>6, <1>7, <1>8, <1>9 DEF BsdNext

LEMMA BsdInvariant == BsdSpec => []BsdIInv
BY BsdInitial, BsdStep, PTL DEF BsdSpec

\* Real and null cycles alike keep the way from the input to the output as long as
\* it was, and what is written for no port is silence, for every size of the device
\* (sun_driver.c, sndio_driver.c).
THEOREM LatencyStaysConstant == BsdSpec => []BsdInv
<1>1. BsdIInv => BsdInv
  BY DEF BsdIInv
<1>2. QED
  BY <1>1, BsdInvariant, PTL

\* No captured period is given twice, unless the device failed to give the next one
\* (sun_driver_read, sndio_driver_read).
THEOREM PeriodsAreNeverGivenTwice == BsdSpec => PeriodsAreGivenOnce
<1>1. ASSUME BsdIInv, BsdNext, bsdPc = "read", bsdPc' = "write"
      PROVE  given' > given \/ given' = 0 \/ (stuck /\ given' = given)
  <2>1. given' = capbuf
    BY <1>1 DEF BsdNext, sun_driver_start, sndio_driver_start, BsdStops, sun_driver_wait,
       sndio_driver_wait, sun_driver_read, sndio_driver_read, ReadsPeriod, sun_driver_write,
       sndio_driver_write, sun_driver_null_cycle, sndio_driver_null_cycle, DevicePlays, Plugs
  <2>2. given \in Int /\ capbuf \in Int
    BY <1>1, BsdAssumption, BsdTypes DEF BsdIInv, BsdInv, BsdNumbers
  <2>3. QED
    BY <1>1, <2>1, <2>2 DEF BsdIInv, BufferIsOlder
<1>2. BsdIInv /\ [BsdNext]_bsdVars =>
        [bsdPc = "read" /\ bsdPc' = "write" =>
            given' > given \/ given' = 0 \/ (stuck /\ given' = given)]_bsdVars
  BY <1>1
<1>3. QED
  BY <1>2, BsdInvariant, PTL DEF BsdSpec, PeriodsAreGivenOnce

------------------------------------------------------------------------------
(***************************************************************************)
(* The OSS driver.  The barrier was passed as often as the engine's cycle  *)
(* was run or is about to be; a thread's count of periods is that, or one  *)
(* more while it waits for the other.                                      *)
(***************************************************************************)
Someone(stage) == IF io["in"] = stage \/ io["out"] = stage THEN 1 ELSE 0
Waits(t) == IF io[t] = "barrier" THEN 1 ELSE 0
Passed == cycles + Someone("cycle")

OssStates ==
    /\ useBarrier \in BOOLEAN /\ fds \subseteq IoThreads
    /\ server \in {"idle", "running", "joinIn", "joinOut"}
    /\ run \in BOOLEAN /\ (run <=> server = "running")
    /\ io \in [IoThreads -> Stages]

OssCountsOK ==
    /\ reads \in 0 .. MaxPeriods /\ writes \in 0 .. MaxPeriods
    /\ cycles \in 0 .. MaxPeriods /\ indevbuf = reads
    /\ outdevbuf \in 0 .. cycles /\ localbuf \in 0 .. outdevbuf
    /\ heard \in 0 .. MaxPeriods

\* Who is at which place of the loop.
ThreadsOK ==
    /\ \A t \in IoThreads : io[t] # "none" => t \in Threads
    /\ io["out"] # "read"
    /\ io["in"] = "io" => ~useBarrier
    /\ OneRunsTheCycle

JoinedInTurn ==
    /\ server \in {"joinOut", "idle"} => Joined("in")
    /\ server = "idle" => Joined("out")

PeriodsAreCounted ==
    /\ "in" \in Threads => reads = Passed + Waits("in")
    /\ "out" \in Threads => writes = Passed + Waits("out")

SoundIsFresh ==
    run => /\ outdevbuf = cycles - Someone("process")
           /\ io["out"] = "io" => writes - localbuf \in 0 .. 1
           /\ heard = 0 \/ heard - cycles \in 0 .. 1
           /\ "in" \notin fds => heard = 0

OssIInv ==
    OssStates /\ OssCountsOK /\ ThreadsOK /\ JoinedInTurn /\ PeriodsAreCounted /\ SoundIsFresh

LEMMA OssInitial == OssInit => OssIInv
<1> SUFFICES ASSUME OssInit PROVE OssIInv
  OBVIOUS
<1>1. OssStates
  BY OssAssumption DEF OssInit, OssStates, IoThreads, Stages
<1>2. OssCountsOK
  BY OssAssumption DEF OssInit, OssCountsOK
<1>3. ThreadsOK /\ JoinedInTurn
  BY DEF OssInit, ThreadsOK, JoinedInTurn, Joined, IoThreads, OneRunsTheCycle
<1>4. PeriodsAreCounted /\ SoundIsFresh
  BY DEF OssInit, PeriodsAreCounted, SoundIsFresh, Passed, Someone, Waits, IoThreads
<1>5. QED
  BY <1>1, <1>2, <1>3, <1>4 DEF OssIInv

LEMMA OssStep == OssIInv /\ [OssNext]_ossVars => OssIInv'
<1> SUFFICES ASSUME OssIInv, [OssNext]_ossVars PROVE OssIInv'
  OBVIOUS
<1> USE DEF OssIInv, OssStates, OssCountsOK, ThreadsOK, JoinedInTurn, PeriodsAreCounted,
            SoundIsFresh, Passed, Someone, Waits, Threads, IoThreads, Stages, Joined, Goes,
            OneRunsTheCycle, ossFixed, ossCounts
<1>c. MaxPeriods \in Nat
  BY OssAssumption
<1>1. CASE UNCHANGED ossVars
  BY <1>1 DEF ossVars
<1>2. CASE oss_driver_start
  <2> USE <1>2 DEF oss_driver_start
  <2>1. /\ io'["in"] = IF "in" \in fds THEN "top" ELSE "none"
        /\ io'["out"] = IF "out" \in fds /\ useBarrier THEN "top" ELSE "none"
        /\ io' \in [IoThreads -> Stages] /\ Threads' = Threads
    OBVIOUS
  <2>2. OssStates' /\ JoinedInTurn'
    BY <2>1
  <2>3. OssCountsOK'
    BY <1>c
  <2>4. ThreadsOK'
    BY <2>1
  <2>5. PeriodsAreCounted'
    BY <2>1
  <2>6. SoundIsFresh'
    <3>1. outdevbuf' = 0 /\ cycles' = 0 /\ heard' = 0 /\ io'["in"] # "process" /\ io'["out"] # "process"
          /\ io'["out"] # "io"
      BY <2>1
    <3>2. Someone("process")' = 0
      BY <3>1
    <3>3. QED
      <4> HIDE DEF Someone
      <4>1. (cycles - Someone("process"))' = 0
        BY <3>1, <3>2
      <4>2. (heard = 0)'
        BY <3>1
      <4>3. QED
        BY <3>1, <4>1, <4>2 DEF SoundIsFresh
  <2>7. QED
    BY <2>2, <2>3, <2>4, <2>5, <2>6 DEF OssIInv
<1>3. CASE oss_driver_stop
  BY <1>3 DEF oss_driver_stop
<1>4. CASE JoinsIn
  BY <1>4 DEF JoinsIn
<1>5. CASE JoinsOut
  BY <1>5 DEF JoinsOut
<1>6. ASSUME NEW t \in IoThreads, OssTop(t) PROVE OssIInv'
  BY <1>6 DEF OssTop
<1>7. ASSUME NEW t \in IoThreads, OssWrites(t) PROVE OssIInv'
  BY <1>7, <1>c DEF OssWrites
<1>8. ASSUME NEW t \in IoThreads, OssReads(t) PROVE OssIInv'
  BY <1>8, <1>c DEF OssReads
<1>9. ASSUME NEW t \in IoThreads, Synchronizes(t) PROVE OssIInv'
  BY <1>9, <1>c DEF Synchronizes, synchronize
<1>10. ASSUME NEW t \in IoThreads, oss_driver_read(t) PROVE OssIInv'
  BY <1>10, <1>c DEF oss_driver_read
<1>11. ASSUME NEW t \in IoThreads, oss_driver_write(t) PROVE OssIInv'
  BY <1>11, <1>c DEF oss_driver_write
<1>12. QED
  BY <1>1, <1>2, <1>3, <1>4, <1>5, <1>6, <1>7, <1>8, <1>9, <1>10, <1>11 DEF OssNext,
     OssThread

LEMMA OssIsInvariant == OssSpec => []OssIInv
<1>1. QED
  BY OssInitial, OssStep, PTL DEF OssSpec

LEMMA OssFollows == OssIInv => OssInv
<1> SUFFICES ASSUME OssIInv PROVE OssInv
  OBVIOUS
<1> USE DEF OssIInv, OssStates, OssCountsOK
<1>0. MaxPeriods \in Nat
  BY OssAssumption
<1>1. OssTypeOK
  <2>1. /\ reads \in 0 .. MaxPeriods /\ writes \in 0 .. MaxPeriods /\ cycles \in 0 .. MaxPeriods
        /\ indevbuf \in 0 .. MaxPeriods /\ heard \in 0 .. MaxPeriods
    OBVIOUS
  <2>2. outdevbuf \in 0 .. MaxPeriods /\ localbuf \in 0 .. MaxPeriods
    BY <1>0
  <2>3. QED
    BY <2>1, <2>2 DEF OssTypeOK
<1>2. OneRunsTheCycle
  BY DEF ThreadsOK
<1>3. PeriodsKeepTogether
  BY DEF PeriodsKeepTogether, SoundIsFresh, PeriodsAreCounted, Passed, Someone, Waits,
     ThreadsOK,
         OneRunsTheCycle, IoThreads, Threads
<1>4. NoThreadWhenIdle
  BY DEF NoThreadWhenIdle, JoinedInTurn, Joined, IoThreads
<1>5. QED
  BY <1>1, <1>2, <1>3, <1>4 DEF OssInv

\* However many periods pass and in whatever order the two threads are run, between two
\* starts: at most one of them runs the engine's cycle, capture is at most a period ahead of
\* the cycle, what is written is at most one cycle old, and nobody is left when the driver
\* is idle (oss_driver.c, io_thread and driver_cycle).
THEOREM OssKeepsTogether == OssSpec => []OssInv
<1>1. QED
  BY OssIsInvariant, OssFollows, PTL

------------------------------------------------------------------------------
(* The ALSA driver. AlsaInv is not inductive. That nothing is played twice  *)
(* rests on where the driver thinks silence lies in the ring (SilenceLies), *)
(* and that neither stream runs out of its numbers on what the two have in  *)
(* common: a period that one stream gives up is one the other gains         *)
(* (PeriodsAreKept), and the cycles a wakeup still runs have room           *)
(* (RoomForCycles). All this is promised of streams that run; those that    *)
(* stopped are started anew before they run again.                          *)

PcmStates == {"setup", "prepared", "running", "xrun", "suspended"}
SlotStates == {"quiet", "sound", "spent"}

\* The slot k before slot a, in a ring of n.
Place(a, k, n) == (a - k + n) % n

\* In the ring f, s periods of silence were written before slot a, and what is in the last q is
\* to be played the first time.
Lies(f, a, n, s, q) ==
    /\ \A k \in 1 .. s : f[Place(a, k, n)] = "quiet"
    /\ \A k \in 1 .. q : f[Place(a, k, n)] # "spent"

\* Streams that a driver waits for, or runs a cycle of, were started.
Started == {"running", "xrun", "suspended"}
StreamsByStage ==
    \A s \in handles : IF alsaPc \in {"poll", "cycle"} THEN pcm[s] \in Started ELSE pcm[s] = "setup"

\* A stream that runs has something left: the card stops it otherwise.
SomethingLeft ==
    /\ Playing /\ pcm["playback"] = "running" => queued >= 1
    /\ Capturing /\ pcm["capture"] = "running" => captured < UserPeriods

\* While both streams run, a period leaves the one when it comes to the other.
PeriodsAreKept ==
    Playing /\ Capturing /\ pcm["playback"] = "running" /\ pcm["capture"] = "running"
        => queued + captured <= UserPeriods

\* The cycles that a wakeup still runs are there, and have room.
RoomForCycles ==
    alsaPc = "cycle" =>
        /\ left >= 1
        /\ Capturing => left <= captured
        /\ Playing => queued + left <= nperiods
        /\ Playing /\ Capturing => queued + left <= UserPeriods

\* Where the driver thinks silence lies, it lies, and nothing that is queued was played.
SilenceLies ==
    Playing /\ pcm["playback"] = "running" =>
        \A c \in Channels \ passedOver : Lies(ring[c], appl, nperiods, silent[c], queued)

StreamsAreWell ==
    /\ handles # {} /\ handles \subseteq {"playback", "capture"} /\ linked \in BOOLEAN
    /\ nperiods \in Nat /\ UserPeriods <= nperiods
    /\ linked => Playing /\ Capturing

\* AlsaTypeOK, for its parts: the ring, the numbers, and the rest.
RingTyped ==
    /\ ring \in [Channels -> [Slots -> SlotStates]] /\ silent \in [Channels -> 0 .. nperiods]
    /\ appl \in Slots /\ passedOver \subseteq Channels
NumbersTyped ==
    /\ left \in 0 .. nperiods /\ queued \in 0 .. nperiods /\ captured \in 0 .. UserPeriods
    /\ delays \in 0 .. MaxDelays
RestTyped ==
    /\ alsaPc \in {"stopped", "poll", "cycle", "dead"} /\ present \in BOOLEAN
    /\ pcm \in [handles -> PcmStates] /\ channels_not_done \subseteq Channels
    /\ connected \subseteq Channels /\ watched \subseteq MonitorPorts
    /\ monitored \in [MonitorPorts -> Channels \cup {0}]
SizesTyped ==
    /\ frames_per_cycle \in Frames /\ buffer_size = frames_per_cycle

AlsaIInv ==
    /\ StreamsAreWell /\ RingTyped /\ NumbersTyped /\ RestTyped /\ SizesTyped
    /\ StreamsByStage /\ SomethingLeft /\ PeriodsAreKept /\ RoomForCycles
    /\ LatencyIsAsAsked /\ SilenceLies

------------------------------------------------------------------------------
(* Slots.                                                                     *)

LEMMA PlaceIs ==
    ASSUME NEW n \in Nat \ {0}, NEW a \in 0 .. n - 1, NEW k \in 0 .. n
    PROVE  Place(a, k, n) = IF k <= a THEN a - k ELSE a - k + n
<1>1. CASE k <= a
  BY <1>1, Z3 DEF Place
<1>2. CASE k > a
  BY <1>2, Z3 DEF Place
<1> QED
  BY <1>1, <1>2

LEMMA NextPlace ==
    ASSUME NEW n \in Nat \ {0}, NEW a \in 0 .. n - 1
    PROVE  (a + 1) % n = IF a + 1 = n THEN 0 ELSE a + 1
<1>1. CASE a + 1 = n
  BY <1>1, Z3
<1>2. CASE a + 1 < n
  BY <1>2, Z3
<1> QED
  BY <1>1, <1>2

\* Seen from the next slot, all slots are one further away.
LEMMA PlacesMove ==
    ASSUME NEW n \in Nat \ {0}, NEW a \in 0 .. n - 1
    PROVE  /\ (a + 1) % n \in 0 .. n - 1
           /\ Place((a + 1) % n, 1, n) = a /\ Place(a, n, n) = a
           /\ \A k \in 1 .. n : Place(a, k, n) \in 0 .. n - 1
           /\ \A k \in 2 .. n : Place((a + 1) % n, k, n) = Place(a, k - 1, n)
           /\ \A k \in 1 .. n - 1 : Place(a, k, n) # a
           /\ \A j, k \in 1 .. n : j # k => Place(a, j, n) # Place(a, k, n)
<1>1. (a + 1) % n \in 0 .. n - 1
  BY NextPlace
<1>2. \A k \in 1 .. n : Place(a, k, n) = IF k <= a THEN a - k ELSE a - k + n
  BY PlaceIs
<1>3. \A k \in 1 .. n : Place((a + 1) % n, k, n)
                        = IF k <= (a + 1) % n THEN ((a + 1) % n) - k ELSE ((a + 1) % n) - k + n
  BY <1>1, PlaceIs
<1> QED
  BY <1>1, <1>2, <1>3, NextPlace

\* A period is written to slot a, and a is the next one.
LEMMA WriteLies ==
    ASSUME NEW n \in Nat \ {0}, NEW a \in 0 .. n - 1, NEW f \in [0 .. n - 1 -> SlotStates],
           NEW s \in 0 .. n, NEW q \in 0 .. n - 1, NEW v \in SlotStates \ {"spent"},
           Lies(f, a, n, s, q)
    PROVE  /\ Lies([f EXCEPT ![a] = v], (a + 1) % n, n, 0, q + 1)
           /\ v = "quiet" /\ s < n => Lies([f EXCEPT ![a] = v], (a + 1) % n, n, s + 1, q + 1)
           /\ s = n => Lies(f, (a + 1) % n, n, s, q + 1)
<1> DEFINE b == (a + 1) % n
           g == [f EXCEPT ![a] = v]
<1> HIDE DEF b
<1>1. /\ Place(b, 1, n) = a /\ Place(a, n, n) = a
      /\ \A k \in 2 .. n : Place(b, k, n) = Place(a, k - 1, n)
      /\ \A k \in 1 .. n : Place(a, k, n) \in 0 .. n - 1
      /\ \A k \in 1 .. n - 1 : Place(a, k, n) # a
  BY PlacesMove DEF b
<1>2. g[a] = v /\ \A i \in 0 .. n - 1 : i # a => g[i] = f[i]
  OBVIOUS
<1> HIDE DEF g
<1>3. ASSUME NEW k \in 1 .. q + 1  PROVE g[Place(b, k, n)] # "spent"
  <2>1. CASE k = 1
    BY <2>1, <1>1, <1>2
  <2>2. CASE k # 1
    BY <2>2, <1>1, <1>2 DEF Lies
  <2> QED
    BY <2>1, <2>2
<1>4. ASSUME v = "quiet", s < n, NEW k \in 1 .. s + 1  PROVE g[Place(b, k, n)] = "quiet"
  <2>1. CASE k = 1
    BY <2>1, <1>1, <1>2, <1>4
  <2>2. CASE k # 1
    BY <2>2, <1>1, <1>2, <1>4 DEF Lies
  <2> QED
    BY <2>1, <2>2
<1>5. ASSUME s = n, NEW k \in 1 .. n  PROVE f[Place(b, k, n)] = "quiet"
  <2>1. f[a] = "quiet"
    BY <1>1, <1>5 DEF Lies
  <2>2. CASE k # 1
    BY <2>2, <1>1, <1>5 DEF Lies
  <2> QED
    BY <2>1, <2>2, <1>1
<1>6. s = n => Lies(f, b, n, s, q + 1)
  BY <1>5 DEF Lies
<1>7. Lies(g, b, n, 0, q + 1)
  BY <1>3 DEF Lies
<1>8. v = "quiet" /\ s < n => Lies(g, b, n, s + 1, q + 1)
  BY <1>3, <1>4 DEF Lies
<1> QED
  BY <1>6, <1>7, <1>8 DEF b, g

\* The card plays the oldest period.
LEMMA PlayLies ==
    ASSUME NEW n \in Nat \ {0}, NEW a \in 0 .. n - 1, NEW f \in [0 .. n - 1 -> SlotStates],
           NEW s \in 0 .. n, NEW q \in 1 .. n, Lies(f, a, n, s, q)
    PROVE  Lies([f EXCEPT ![Place(a, q, n)] = IF @ = "sound" THEN "spent" ELSE @], a, n, s, q - 1)
<1> DEFINE i == Place(a, q, n)
           g == [f EXCEPT ![i] = IF @ = "sound" THEN "spent" ELSE @]
<1> HIDE DEF i, g
<1>1. /\ i \in 0 .. n - 1
      /\ \A k \in 1 .. n : Place(a, k, n) \in 0 .. n - 1 /\ (k # q => Place(a, k, n) # i)
  <2>1. i = Place(a, q, n)
    BY DEF i
  <2>2. \A k \in 1 .. n : Place(a, k, n) \in 0 .. n - 1
    BY PlacesMove
  <2>3. ASSUME NEW k \in 1 .. n, k # q  PROVE Place(a, k, n) # Place(a, q, n)
    BY <2>3, PlacesMove
  <2> QED
    BY <2>1, <2>2, <2>3
<1>2. /\ \A j \in 0 .. n - 1 : j # i => g[j] = f[j]
      /\ f[i] = "quiet" => g[i] = "quiet"
  BY <1>1 DEF g
<1>3. ASSUME NEW k \in 1 .. s  PROVE g[Place(a, k, n)] = "quiet"
  BY <1>1, <1>2 DEF Lies
<1>4. ASSUME NEW k \in 1 .. q - 1  PROVE g[Place(a, k, n)] # "spent"
  BY <1>1, <1>2 DEF Lies
<1>5. Lies(g, a, n, s, q - 1)
  BY <1>3, <1>4 DEF Lies
<1> QED
  BY <1>5 DEF g, i

\* A ring that begins with u periods of silence.
LEMMA PrimedLies ==
    ASSUME NEW n \in Nat \ {0}, NEW u \in 1 .. n, NEW f, \A i \in 0 .. u - 1 : f[i] = "quiet"
    PROVE  u % n \in 0 .. n - 1 /\ Lies(f, u % n, n, 0, u)
<1>1. u % n = IF u = n THEN 0 ELSE u
  <2>1. CASE u = n
    BY <2>1, Z3
  <2>2. CASE u < n
    BY <2>2, Z3
  <2> QED
    BY <2>1, <2>2
<1> DEFINE b == u % n
<1> HIDE DEF b
<1>2. b = (IF u = n THEN 0 ELSE u) /\ b \in 0 .. n - 1
  BY <1>1 DEF b
<1>3. ASSUME NEW k \in 1 .. u  PROVE Place(b, k, n) \in 0 .. u - 1
  BY <1>2, PlaceIs
<1>4. \A k \in 1 .. u : f[Place(b, k, n)] # "spent"
  BY <1>3
<1>5. Lies(f, b, n, 0, u)
  BY <1>4 DEF Lies
<1> QED
  BY <1>2, <1>5 DEF b

------------------------------------------------------------------------------
(* Starts and stops.                                                          *)

LEMMA AlsaConstants ==
    UserPeriods \in Nat /\ UserPeriods >= 2 /\ MaxDelays \in Nat /\ Channels \subseteq Nat
BY AlsaAssumption

\* Whatever starts the card starts both streams, with silence for the periods asked for.
LEMMA StartIsWell ==
    ASSUME AlsaIInv, UNCHANGED alsaFixed, UNCHANGED alsaPorts, UNCHANGED <<left, monitored, delays>>,
           alsaPc' = "poll", present' \in BOOLEAN, SizesTyped', captured' = 0,
           channels_not_done' \subseteq Channels,
           NEW P \in [handles -> PcmStates], pcm' = StartedStreams(P),
           Playing =>
               /\ ring' \in [Channels -> [Slots -> SlotStates]]
               /\ \A c \in Channels : \A i \in 0 .. UserPeriods - 1 : ring'[c][i] = "quiet"
               /\ appl' = UserPeriods % nperiods /\ queued' = UserPeriods
               /\ silent' = [c \in Channels |-> 0] /\ passedOver' = {},
           ~Playing => UNCHANGED <<ring, appl, queued, silent, passedOver>>
    PROVE  AlsaIInv'
<1>1. handles' = handles /\ nperiods' = nperiods /\ linked' = linked
      /\ Slots' = Slots /\ Playing' = Playing /\ Capturing' = Capturing
  BY DEF alsaFixed, Slots, Playing, Capturing
<1>2. StreamsAreWell'
  BY <1>1 DEF AlsaIInv, StreamsAreWell
<1>3. pcm' = [s \in handles |-> "running"]
  <2>1. ASSUME NEW s \in handles
        PROVE  \/ Playing /\ s \in Group("playback")
               \/ CaptureIsApart /\ s = "capture"
    BY DEF AlsaIInv, StreamsAreWell, Playing, Capturing, Group, CaptureIsApart
  <2> QED
    BY <2>1 DEF StartedStreams
<1>4. RestTyped'
  BY <1>1, <1>3 DEF AlsaIInv, RestTyped, alsaPorts, PcmStates
<1>5. UserPeriods \in 0 .. nperiods /\ UserPeriods \in 1 .. nperiods /\ nperiods \in Nat \ {0}
  BY AlsaConstants DEF AlsaIInv, StreamsAreWell
<1>6. NumbersTyped'
  BY <1>1, <1>5, AlsaConstants DEF AlsaIInv, NumbersTyped
<1>7. Playing => appl' \in Slots /\ \A c \in Channels : Lies(ring'[c], appl', nperiods, 0, UserPeriods)
  BY <1>5, PrimedLies DEF Slots
<1>8. RingTyped'
  BY <1>1, <1>5, <1>7 DEF AlsaIInv, RingTyped
<1>9. SilenceLies'
  BY <1>1, <1>7 DEF SilenceLies
<1>10. StreamsByStage'
  BY <1>1, <1>3 DEF StreamsByStage, Started
<1>11. SomethingLeft' /\ PeriodsAreKept'
  BY <1>1, AlsaConstants DEF SomethingLeft, PeriodsAreKept
<1>12. RoomForCycles'
  BY DEF RoomForCycles
<1>13. LatencyIsAsAsked'
  BY <1>1, AlsaConstants DEF LatencyIsAsAsked
<1> QED
  BY <1>2, <1>4, <1>6, <1>8, <1>9, <1>10, <1>11, <1>12, <1>13 DEF AlsaIInv

LEMMA PrimedIsTyped ==
    ASSUME AlsaIInv
    PROVE  /\ Primed \in [Channels -> [Slots -> SlotStates]]
           /\ \A c \in Channels : \A i \in 0 .. UserPeriods - 1 : Primed[c][i] = "quiet"
BY AlsaConstants DEF AlsaIInv, StreamsAreWell, RingTyped, Primed, Slots, SlotStates

LEMMA StartKeeps ==
    ASSUME AlsaIInv, UNCHANGED alsaFixed, UNCHANGED alsaPorts, UNCHANGED alsaSizes,
           UNCHANGED <<left, monitored, delays, present>>, alsaPc' = "poll",
           NEW P \in [handles -> PcmStates], alsa_driver_start(P)
    PROVE  AlsaIInv'
<1>1. Playing =>
        /\ ring' \in [Channels -> [Slots -> SlotStates]]
        /\ \A c \in Channels : \A i \in 0 .. UserPeriods - 1 : ring'[c][i] = "quiet"
        /\ appl' = UserPeriods % nperiods /\ queued' = UserPeriods
        /\ silent' = [c \in Channels |-> 0] /\ passedOver' = {}
  BY PrimedIsTyped DEF alsa_driver_start, alsa_driver_silence_on_channel
<1>2. ~Playing => UNCHANGED <<ring, appl, queued, silent, passedOver>>
  BY DEF alsa_driver_start
<1>3. channels_not_done' \subseteq Channels
  BY DEF alsa_driver_start, AlsaIInv, RestTyped
<1>4. present' \in BOOLEAN
  BY DEF AlsaIInv, RestTyped
<1>5. SizesTyped'
  BY DEF AlsaIInv, SizesTyped, alsaSizes
<1>6. pcm' = StartedStreams(P) /\ captured' = 0
  BY DEF alsa_driver_start
<1>7. UNCHANGED <<left, monitored, delays>>
  OBVIOUS
<1> QED
  BY <1>1, <1>2, <1>3, <1>4, <1>5, <1>6, <1>7, StartIsWell

LEMMA AlsaStartsKeeps == ASSUME AlsaIInv, AlsaStarts PROVE AlsaIInv'
<1>1. pcm \in [handles -> PcmStates]
  BY DEF AlsaIInv, RestTyped
<1>2. /\ UNCHANGED alsaFixed /\ UNCHANGED alsaPorts /\ UNCHANGED alsaSizes
      /\ UNCHANGED <<left, monitored, delays, present>> /\ alsaPc' = "poll" /\ alsa_driver_start(pcm)
  BY DEF AlsaStarts
<1> QED
  BY <1>1, <1>2, StartKeeps

LEMMA StoppedIsTyped ==
    ASSUME StreamsAreWell, NEW P \in [handles -> PcmStates]
    PROVE  Stopped(P) = [s \in handles |-> "setup"]
<1>1. ASSUME NEW s \in handles
      PROVE  \/ Playing /\ s \in Group("playback")
             \/ CaptureIsApart /\ s = "capture"
  BY DEF StreamsAreWell, Playing, Capturing, Group, CaptureIsApart
<1> QED
  BY <1>1 DEF Stopped

LEMMA RecoversKeeps == ASSUME AlsaIInv, Recovers PROVE AlsaIInv'
<1> DEFINE seen == IF Capturing THEN "capture" ELSE "playback"
           P == IF pcm[seen] = "suspended"
                THEN [s \in handles |-> IF s \in Group(seen) THEN "prepared" ELSE pcm[s]] ELSE pcm
<1>1. P \in [handles -> PcmStates]
  BY DEF AlsaIInv, RestTyped, PcmStates
<1>2. alsa_driver_start(Stopped(P))
  BY DEF Recovers, alsa_driver_xrun_recovery
<1> HIDE DEF P
<1>3. Stopped(P) \in [handles -> PcmStates]
  BY <1>1, StoppedIsTyped DEF AlsaIInv, PcmStates
<1>4. /\ UNCHANGED alsaFixed /\ UNCHANGED alsaPorts /\ UNCHANGED alsaSizes
      /\ UNCHANGED <<left, monitored, delays, present>> /\ alsaPc' = "poll"
  BY DEF Recovers
<1> QED
  BY <1>2, <1>3, <1>4, StartKeeps

LEMMA BufsizeKeeps == ASSUME AlsaIInv, NEW f \in Frames, alsa_driver_bufsize(f) PROVE AlsaIInv'
<1>1. pcm \in [handles -> PcmStates] /\ Stopped(pcm) \in [handles -> PcmStates]
  BY StoppedIsTyped DEF AlsaIInv, RestTyped, PcmStates
<1>2. Playing =>
        /\ ring' \in [Channels -> [Slots -> SlotStates]]
        /\ \A c \in Channels : \A i \in 0 .. UserPeriods - 1 : ring'[c][i] = "quiet"
        /\ appl' = UserPeriods % nperiods /\ queued' = UserPeriods
        /\ silent' = [c \in Channels |-> 0] /\ passedOver' = {}
  BY AlsaConstants DEF alsa_driver_bufsize, AlsaIInv, StreamsAreWell, Slots, SlotStates
<1>3. ~Playing => UNCHANGED <<ring, appl, queued, silent, passedOver>>
  BY DEF alsa_driver_bufsize
<1>4. SizesTyped'
  BY DEF alsa_driver_bufsize, alsa_driver_set_parameters, FallsBack, alsaSizes, AlsaIInv, SizesTyped
<1>5. /\ UNCHANGED alsaFixed /\ UNCHANGED alsaPorts /\ UNCHANGED <<left, monitored, delays>>
      /\ alsaPc' = "poll" /\ present' \in BOOLEAN /\ captured' = 0
      /\ channels_not_done' \subseteq Channels /\ pcm' = StartedStreams(Stopped(pcm))
  BY DEF alsa_driver_bufsize, AlsaIInv, RestTyped
<1> QED
  BY <1>1, <1>2, <1>3, <1>4, <1>5, StartIsWell

\* Whatever ends the driver stops both streams.
LEMMA StopKeeps ==
    ASSUME AlsaIInv, UNCHANGED alsaFixed, UNCHANGED alsaPorts, UNCHANGED alsaSizes,
           UNCHANGED <<queued, captured, appl, ring, silent, channels_not_done, passedOver, monitored, present>>,
           left' \in {0, left}, delays' \in {0, delays}, alsaPc' = "dead", pcm' = Stopped(pcm)
    PROVE  AlsaIInv'
<1>1. handles' = handles /\ nperiods' = nperiods /\ linked' = linked
      /\ Slots' = Slots /\ Playing' = Playing /\ Capturing' = Capturing
  BY DEF alsaFixed, Slots, Playing, Capturing
<1>2. pcm' = [s \in handles |-> "setup"]
  BY StoppedIsTyped DEF AlsaIInv, RestTyped
<1>3. StreamsAreWell' /\ SizesTyped'
  BY <1>1 DEF AlsaIInv, StreamsAreWell, SizesTyped, alsaSizes
<1>4. RestTyped'
  BY <1>1, <1>2 DEF AlsaIInv, RestTyped, alsaPorts, PcmStates
<1>5. RingTyped' /\ LatencyIsAsAsked'
  BY <1>1 DEF AlsaIInv, RingTyped, LatencyIsAsAsked
<1>6. NumbersTyped'
  BY <1>1, AlsaConstants DEF AlsaIInv, StreamsAreWell, NumbersTyped
<1>7. SilenceLies' /\ SomethingLeft' /\ PeriodsAreKept'
  BY <1>1, <1>2 DEF SilenceLies, SomethingLeft, PeriodsAreKept, Playing, Capturing
<1>8. StreamsByStage' /\ RoomForCycles'
  BY <1>1, <1>2 DEF StreamsByStage, RoomForCycles
<1> QED
  BY <1>3, <1>4, <1>5, <1>6, <1>7, <1>8 DEF AlsaIInv

------------------------------------------------------------------------------
(* Cycles.                                                                    *)

\* What a cycle does to the numbers, whatever it writes.
LEMMA CycleIsCounted ==
    ASSUME AlsaIInv, alsaPc = "cycle", CycleEnds, Committed, UNCHANGED alsaFixed, UNCHANGED pcm,
           delays' = 0
    PROVE  /\ NumbersTyped' /\ StreamsByStage' /\ SomethingLeft' /\ PeriodsAreKept' /\ RoomForCycles'
           /\ LatencyIsAsAsked' /\ StreamsAreWell' /\ alsaPc' \in {"poll", "cycle"}
<1> DEFINE cp == Commits("capture")
           pl == Commits("playback")
<1>1. handles' = handles /\ nperiods' = nperiods /\ linked' = linked /\ pcm' = pcm
      /\ Playing' = Playing /\ Capturing' = Capturing
  BY DEF alsaFixed, Playing, Capturing
<1>2. /\ cp \in {0, 1} /\ (cp = 1 <=> pcm["capture"] = "running")
      /\ pl \in {0, 1} /\ (pl = 1 <=> pcm["playback"] = "running")
      /\ captured' = IF Capturing THEN captured - cp ELSE captured
      /\ queued' = IF Playing THEN queued + pl ELSE queued
  BY DEF Committed, Commits
<1>3. left' = left - 1 /\ alsaPc' = (IF left = 1 THEN "poll" ELSE "cycle")
  BY DEF CycleEnds
<1>4. /\ left \in 1 .. nperiods /\ (Capturing => left <= captured)
      /\ (Playing => queued + left <= nperiods) /\ (Playing /\ Capturing => queued + left <= UserPeriods)
      /\ queued \in 0 .. nperiods /\ captured \in 0 .. UserPeriods /\ nperiods \in Nat
      /\ UserPeriods \in Nat /\ MaxDelays \in Nat
  BY AlsaConstants DEF AlsaIInv, RoomForCycles, NumbersTyped, StreamsAreWell
<1> HIDE DEF cp, pl
<1>5. NumbersTyped'
  BY <1>1, <1>2, <1>3, <1>4 DEF NumbersTyped
<1>6. StreamsByStage'
  BY <1>1, <1>3 DEF AlsaIInv, StreamsByStage
<1>7. SomethingLeft'
  BY <1>1, <1>2, <1>4 DEF AlsaIInv, SomethingLeft
<1>8. PeriodsAreKept'
  BY <1>1, <1>2, <1>4 DEF AlsaIInv, PeriodsAreKept
<1>9. RoomForCycles'
  BY <1>1, <1>2, <1>3, <1>4 DEF RoomForCycles
<1>10. LatencyIsAsAsked'
  BY <1>1, <1>2, <1>4 DEF LatencyIsAsAsked
<1>11. StreamsAreWell' /\ alsaPc' \in {"poll", "cycle"}
  BY <1>1, <1>3 DEF AlsaIInv, StreamsAreWell
<1> QED
  BY <1>5, <1>6, <1>7, <1>8, <1>9, <1>10, <1>11

\* The place of a cycle that runs.
LEMMA CyclePlace ==
    ASSUME AlsaIInv, alsaPc = "cycle", Committed, Playing
    PROVE  /\ nperiods \in Nat \ {0} /\ appl \in 0 .. nperiods - 1 /\ appl' \in 0 .. nperiods - 1
           /\ pcm["playback"] = "running" =>
                /\ appl' = (appl + 1) % nperiods /\ queued' = queued + 1 /\ queued \in 0 .. nperiods - 1
<1>1. /\ left >= 1 /\ queued + left <= nperiods /\ queued \in 0 .. nperiods /\ left \in 0 .. nperiods
      /\ nperiods \in Nat
  BY DEF AlsaIInv, RoomForCycles, NumbersTyped, StreamsAreWell
<1>2. appl \in 0 .. nperiods - 1
  BY DEF AlsaIInv, RingTyped, Slots
<1>3. appl' = IF pcm["playback"] = "running" THEN (appl + 1) % nperiods ELSE (appl + 0) % nperiods
  BY DEF Committed, Commits
<1>4. (appl + 0) % nperiods = appl
  BY <1>1, <1>2, Z3
<1>5. (appl + 1) % nperiods \in 0 .. nperiods - 1
  BY <1>1, <1>2, NextPlace
<1>6. pcm["playback"] = "running" => queued' = queued + 1
  BY DEF Committed, Commits
<1> QED
  BY <1>1, <1>2, <1>3, <1>4, <1>5, <1>6

LEMMA NullCycleKeeps == ASSUME AlsaIInv, NullCycle PROVE AlsaIInv'
<1>1. /\ NumbersTyped' /\ StreamsByStage' /\ SomethingLeft' /\ PeriodsAreKept' /\ RoomForCycles'
      /\ LatencyIsAsAsked' /\ StreamsAreWell' /\ alsaPc' \in {"poll", "cycle"}
  BY CycleIsCounted DEF NullCycle
<1>2. handles' = handles /\ nperiods' = nperiods /\ linked' = linked /\ pcm' = pcm
      /\ Slots' = Slots /\ Playing' = Playing /\ Capturing' = Capturing
  BY DEF NullCycle, alsaFixed, Slots, Playing, Capturing
<1>3. RestTyped' /\ SizesTyped'
  BY <1>1, <1>2 DEF AlsaIInv, NullCycle, RestTyped, SizesTyped, alsaPorts, alsaSizes
<1>4. CASE ~Playing
  <2>1. UNCHANGED <<ring, silent, passedOver, appl, queued>>
    BY <1>4 DEF NullCycle, Committed
  <2>2. RingTyped' /\ SilenceLies'
    BY <1>2, <1>4, <2>1 DEF AlsaIInv, RingTyped, SilenceLies
  <2> QED
    BY <1>1, <1>3, <2>2 DEF AlsaIInv
<1>5. CASE Playing
  <2>1. /\ ring' = [c \in Channels |-> [ring[c] EXCEPT ![appl] = "quiet"]]
        /\ silent' = [c \in Channels |-> 0] /\ passedOver' = passedOver
    BY <1>5 DEF NullCycle, alsa_driver_silence_on_channel
  <2>2. /\ nperiods \in Nat \ {0} /\ appl \in 0 .. nperiods - 1 /\ appl' \in 0 .. nperiods - 1
        /\ pcm["playback"] = "running" =>
                /\ appl' = (appl + 1) % nperiods /\ queued' = queued + 1 /\ queued \in 0 .. nperiods - 1
    BY <1>5, CyclePlace DEF NullCycle
  <2>3. RingTyped'
    BY <1>2, <2>1, <2>2 DEF AlsaIInv, RingTyped, Slots, SlotStates
  <2>4. ASSUME pcm["playback"] = "running", NEW c \in Channels \ passedOver
        PROVE  Lies(ring'[c], appl', nperiods, 0, queued')
    <3>1. Lies(ring[c], appl, nperiods, silent[c], queued) /\ silent[c] \in 0 .. nperiods
          /\ ring[c] \in [0 .. nperiods - 1 -> SlotStates] /\ "quiet" \in SlotStates \ {"spent"}
      BY <1>5, <2>4 DEF AlsaIInv, SilenceLies, RingTyped, Slots, SlotStates
    <3>2. Lies([ring[c] EXCEPT ![appl] = "quiet"], (appl + 1) % nperiods, nperiods, 0, queued + 1)
      BY <2>2, <2>4, <3>1, WriteLies
    <3> QED
      BY <2>1, <2>2, <2>4, <3>2
  <2>5. SilenceLies'
    BY <1>2, <2>1, <2>4 DEF SilenceLies
  <2> QED
    BY <1>1, <1>3, <2>3, <2>5 DEF AlsaIInv
<1> QED
  BY <1>4, <1>5

LEMMA MonitorsAreChannels == ASSUME AlsaIInv PROVE Monitors \in [MonitorPorts -> Channels \cup {0}]
<1>1. ASSUME NEW k \in MonitorPorts
      PROVE  LET C == {c \in connected : MonitorOf[c] = k /\ k \in watched}
             IN  (IF C = {} THEN monitored[k] ELSE CHOOSE c \in C : TRUE) \in Channels \cup {0}
  <2> DEFINE C == {c \in connected : MonitorOf[c] = k /\ k \in watched}
  <2>1. C # {} => (CHOOSE c \in C : TRUE) \in C
    OBVIOUS
  <2>2. C \subseteq Channels /\ monitored[k] \in Channels \cup {0}
    BY DEF AlsaIInv, RestTyped
  <2> HIDE DEF C
  <2>3. (IF C = {} THEN monitored[k] ELSE CHOOSE c \in C : TRUE) \in Channels \cup {0}
    BY <2>1, <2>2
  <2> QED
    BY <2>3 DEF C
<1> QED
  BY <1>1 DEF Monitors

LEMMA RealCycleKeeps == ASSUME AlsaIInv, RealCycle PROVE AlsaIInv'
<1>1. /\ NumbersTyped' /\ StreamsByStage' /\ SomethingLeft' /\ PeriodsAreKept' /\ RoomForCycles'
      /\ LatencyIsAsAsked' /\ StreamsAreWell' /\ alsaPc' \in {"poll", "cycle"}
  BY CycleIsCounted DEF RealCycle
<1>2. handles' = handles /\ nperiods' = nperiods /\ linked' = linked /\ pcm' = pcm
      /\ Slots' = Slots /\ Playing' = Playing /\ Capturing' = Capturing
  BY DEF RealCycle, alsaFixed, Slots, Playing, Capturing
<1>3. RestTyped' /\ SizesTyped'
  <2>1. monitored' \in [MonitorPorts -> Channels \cup {0}]
    BY MonitorsAreChannels DEF AlsaIInv, RestTyped, RealCycle, Writes
  <2>2. channels_not_done' \subseteq Channels
    BY DEF AlsaIInv, RestTyped, RealCycle, Writes
  <2> QED
    BY <1>1, <1>2, <2>1, <2>2 DEF AlsaIInv, RealCycle, RestTyped, SizesTyped, alsaPorts, alsaSizes
<1>4. CASE ~Playing
  <2>1. UNCHANGED <<ring, silent, passedOver, appl, queued>>
    BY <1>4 DEF RealCycle, Committed, Writes
  <2>2. RingTyped' /\ SilenceLies'
    BY <1>2, <1>4, <2>1 DEF AlsaIInv, RingTyped, SilenceLies
  <2> QED
    BY <1>1, <1>3, <2>2 DEF AlsaIInv
<1>5. CASE Playing
  <2>1. /\ ring' = [c \in Channels |-> [ring[c] EXCEPT ![appl] =
                        IF c \in connected THEN "sound" ELSE IF Silences(c) THEN "quiet" ELSE @]]
        /\ silent' = [c \in Channels |-> IF c \in connected THEN 0
                           ELSE IF Silences(c) THEN silent[c] + 1 ELSE silent[c]]
        /\ passedOver' = passedOver \cup (Channels \ (connected \cup channels_not_done))
    BY <1>5 DEF RealCycle, Writes
  <2>2. /\ nperiods \in Nat \ {0} /\ appl \in 0 .. nperiods - 1 /\ appl' \in 0 .. nperiods - 1
        /\ pcm["playback"] = "running" =>
                /\ appl' = (appl + 1) % nperiods /\ queued' = queued + 1 /\ queued \in 0 .. nperiods - 1
    BY <1>5, CyclePlace DEF RealCycle
  <2>3. RingTyped'
    BY <1>2, <2>1, <2>2 DEF AlsaIInv, RingTyped, Slots, SlotStates, Silences
  <2>4. ASSUME pcm["playback"] = "running", NEW c \in Channels \ passedOver'
        PROVE  Lies(ring'[c], appl', nperiods, silent'[c], queued')
    <3>1. Lies(ring[c], appl, nperiods, silent[c], queued) /\ silent[c] \in 0 .. nperiods
          /\ ring[c] \in [0 .. nperiods - 1 -> SlotStates] /\ {"quiet", "sound"} \subseteq SlotStates \ {"spent"}
      BY <1>5, <2>1, <2>4 DEF AlsaIInv, SilenceLies, RingTyped, Slots, SlotStates
    <3>2. CASE c \in connected
      <4>1. Lies([ring[c] EXCEPT ![appl] = "sound"], (appl + 1) % nperiods, nperiods, 0, queued + 1)
        BY <2>2, <2>4, <3>1, WriteLies
      <4> QED
        BY <2>1, <2>2, <2>4, <3>2, <4>1
    <3>3. CASE c \notin connected /\ Silences(c)
      <4>1. silent[c] < nperiods
        BY <3>3 DEF Silences
      <4>2. Lies([ring[c] EXCEPT ![appl] = "quiet"], (appl + 1) % nperiods, nperiods, silent[c] + 1, queued + 1)
        BY <2>2, <2>4, <3>1, <4>1, WriteLies
      <4> QED
        BY <2>1, <2>2, <2>4, <3>3, <4>2
    <3>4. CASE c \notin connected /\ ~Silences(c)
      <4>1. c \in channels_not_done
        BY <2>1, <2>4, <3>4
      <4>2. silent[c] = nperiods
        BY <2>2, <3>1, <3>4, <4>1 DEF Silences
      <4>3. Lies(ring[c], (appl + 1) % nperiods, nperiods, silent[c], queued + 1)
        BY <2>2, <2>4, <3>1, <4>2, WriteLies
      <4>4. ring'[c] = ring[c]
        BY <2>1, <2>4, <3>1, <3>4
      <4> QED
        BY <2>1, <2>2, <2>4, <3>4, <4>3, <4>4
    <3> QED
      BY <3>2, <3>3, <3>4
  <2>5. SilenceLies'
    BY <1>2, <2>1, <2>4 DEF SilenceLies
  <2> QED
    BY <1>1, <1>3, <2>3, <2>5 DEF AlsaIInv
<1> QED
  BY <1>4, <1>5

LEMMA DelayedKeeps == ASSUME AlsaIInv, Delayed PROVE AlsaIInv'
<1>1. CASE delays >= MaxDelays
  <2>1. /\ UNCHANGED alsaFixed /\ UNCHANGED alsaPorts /\ UNCHANGED alsaSizes
        /\ UNCHANGED <<queued, captured, appl, ring, silent, channels_not_done, passedOver, monitored, present>>
        /\ left' \in {0, left} /\ delays' \in {0, delays} /\ alsaPc' = "dead" /\ pcm' = Stopped(pcm)
    BY <1>1, AlsaConstants DEF Delayed, AlsaIInv, NumbersTyped
  <2> QED
    BY <2>1, StopKeeps
<1>2. CASE delays < MaxDelays
  <2>1. /\ left' = left - 1 /\ alsaPc' = (IF left = 1 THEN "poll" ELSE "cycle") /\ pcm' = pcm
        /\ delays' = delays + 1 /\ alsaPc = "cycle" /\ UNCHANGED <<queued, captured>>
    BY <1>2 DEF Delayed, CycleEnds
  <2>2. handles' = handles /\ nperiods' = nperiods /\ linked' = linked
        /\ Slots' = Slots /\ Playing' = Playing /\ Capturing' = Capturing
    BY DEF Delayed, alsaFixed, Slots, Playing, Capturing
  <2>3. /\ left \in 1 .. nperiods /\ nperiods \in Nat /\ queued \in 0 .. nperiods
        /\ captured \in 0 .. UserPeriods /\ UserPeriods \in Nat /\ MaxDelays \in Nat /\ delays \in 0 .. MaxDelays
    BY <2>1, AlsaConstants DEF AlsaIInv, RoomForCycles, NumbersTyped, StreamsAreWell
  <2>4. NumbersTyped'
    BY <1>2, <2>1, <2>2, <2>3 DEF NumbersTyped
  <2>5. RoomForCycles'
    BY <2>1, <2>2, <2>3 DEF AlsaIInv, RoomForCycles
  <2>6. StreamsAreWell' /\ RingTyped' /\ RestTyped' /\ SizesTyped'
    BY <2>1, <2>2 DEF Delayed, AlsaIInv, StreamsAreWell, RingTyped, RestTyped, SizesTyped, alsaPorts, alsaSizes
  <2>7. StreamsByStage'
    BY <2>1, <2>2 DEF AlsaIInv, StreamsByStage
  <2>8. SomethingLeft' /\ PeriodsAreKept' /\ LatencyIsAsAsked' /\ SilenceLies'
    BY <2>1, <2>2 DEF Delayed, AlsaIInv, SomethingLeft, PeriodsAreKept, LatencyIsAsAsked, SilenceLies
  <2> QED
    BY <2>4, <2>5, <2>6, <2>7, <2>8 DEF AlsaIInv
<1> QED
  BY <1>1, <1>2, AlsaConstants DEF AlsaIInv, NumbersTyped

------------------------------------------------------------------------------
(* Wakeups, ends, ports and the card.                                         *)

LEMMA WakesUpKeeps == ASSUME AlsaIInv, WakesUp PROVE AlsaIInv'
<1>1. /\ alsaPc = "poll" /\ Ready /\ (\A s \in handles : ~Broken(s)) /\ left' = Available
      /\ channels_not_done' = Channels /\ alsaPc' = "cycle"
      /\ UNCHANGED <<pcm, queued, captured, appl, ring, silent, passedOver, monitored, delays, present>>
  BY DEF WakesUp
<1>2. handles' = handles /\ nperiods' = nperiods /\ linked' = linked
      /\ Slots' = Slots /\ Playing' = Playing /\ Capturing' = Capturing
  BY DEF WakesUp, alsaFixed, Slots, Playing, Capturing
<1>3. \A s \in handles : pcm[s] = "running"
  BY <1>1 DEF AlsaIInv, StreamsByStage, Started, Broken
<1>4. /\ queued \in 0 .. nperiods /\ captured \in 0 .. UserPeriods /\ nperiods \in Nat /\ UserPeriods \in Nat
      /\ UserPeriods <= nperiods /\ (Playing \/ Capturing)
  BY AlsaConstants DEF AlsaIInv, NumbersTyped, StreamsAreWell, Playing, Capturing
<1>5. /\ Playing => nperiods - queued >= 1
      /\ Capturing => captured >= 1
      /\ Playing /\ Capturing => queued + captured <= UserPeriods
  BY <1>1, <1>3, <1>4 DEF Ready, Broken, avail_min, Playing, Capturing, AlsaIInv, PeriodsAreKept
<1>6. left' \in 1 .. nperiods /\ (Capturing => left' <= captured) /\ (Playing => left' <= nperiods - queued)
  BY <1>1, <1>4, <1>5 DEF Available, Least
<1>7. RoomForCycles'
  BY <1>1, <1>2, <1>4, <1>5, <1>6 DEF RoomForCycles
<1>8. NumbersTyped'
  BY <1>1, <1>2, <1>6 DEF AlsaIInv, NumbersTyped
<1>9. StreamsAreWell' /\ RingTyped' /\ RestTyped' /\ SizesTyped'
  BY <1>1, <1>2 DEF WakesUp, AlsaIInv, StreamsAreWell, RingTyped, RestTyped, SizesTyped, alsaPorts, alsaSizes
<1>10. StreamsByStage'
  BY <1>1, <1>2, <1>3 DEF StreamsByStage, Started
<1>11. SomethingLeft' /\ PeriodsAreKept' /\ LatencyIsAsAsked' /\ SilenceLies'
  BY <1>1, <1>2 DEF AlsaIInv, SomethingLeft, PeriodsAreKept, LatencyIsAsAsked, SilenceLies
<1> QED
  BY <1>7, <1>8, <1>9, <1>10, <1>11 DEF AlsaIInv

LEMMA AlsaDiesKeeps == ASSUME AlsaIInv, AlsaDies PROVE AlsaIInv'
<1>1. /\ UNCHANGED alsaFixed /\ UNCHANGED alsaPorts /\ UNCHANGED alsaSizes
      /\ UNCHANGED <<queued, captured, appl, ring, silent, channels_not_done, passedOver, monitored, present>>
      /\ left' \in {0, left} /\ delays' \in {0, delays} /\ alsaPc' = "dead" /\ pcm' = Stopped(pcm)
  BY DEF AlsaDies
<1> QED
  BY <1>1, StopKeeps

LEMMA ReadFailsKeeps == ASSUME AlsaIInv, ReadFails PROVE AlsaIInv'
<1>1. /\ UNCHANGED alsaFixed /\ UNCHANGED alsaPorts /\ UNCHANGED alsaSizes
      /\ UNCHANGED <<queued, captured, appl, ring, silent, channels_not_done, passedOver, monitored, present>>
      /\ left' \in {0, left} /\ delays' \in {0, delays} /\ alsaPc' = "dead" /\ pcm' = Stopped(pcm)
  BY DEF ReadFails
<1> QED
  BY <1>1, StopKeeps

\* Steps that leave the streams and the ring alone.
LEMMA OthersKeep ==
    ASSUME AlsaIInv, UNCHANGED alsaFixed, UNCHANGED alsaSizes, connected' \subseteq Channels,
           watched' \subseteq MonitorPorts, present' \in BOOLEAN,
           UNCHANGED <<alsaPc, left, pcm, queued, captured, appl, ring, silent, channels_not_done,
                       passedOver, monitored, delays>>
    PROVE  AlsaIInv'
<1>1. handles' = handles /\ nperiods' = nperiods /\ linked' = linked
      /\ Slots' = Slots /\ Playing' = Playing /\ Capturing' = Capturing
  BY DEF alsaFixed, Slots, Playing, Capturing
<1>2. StreamsAreWell' /\ RingTyped' /\ NumbersTyped' /\ RestTyped' /\ SizesTyped'
  BY <1>1 DEF AlsaIInv, StreamsAreWell, RingTyped, NumbersTyped, RestTyped, SizesTyped, alsaSizes
<1>3. StreamsByStage' /\ SomethingLeft' /\ PeriodsAreKept' /\ RoomForCycles' /\ LatencyIsAsAsked' /\ SilenceLies'
  BY <1>1 DEF AlsaIInv, StreamsByStage, SomethingLeft, PeriodsAreKept, RoomForCycles, LatencyIsAsAsked, SilenceLies
<1> QED
  BY <1>2, <1>3 DEF AlsaIInv

LEMMA ReconnectsKeeps == ASSUME AlsaIInv, Reconnects PROVE AlsaIInv'
<1>1. connected' \subseteq Channels /\ watched' \subseteq MonitorPorts /\ present' \in BOOLEAN
  BY DEF Reconnects, AlsaIInv, RestTyped
<1>2. /\ UNCHANGED alsaFixed /\ UNCHANGED alsaSizes
      /\ UNCHANGED <<alsaPc, left, pcm, queued, captured, appl, ring, silent, channels_not_done,
                     passedOver, monitored, delays>>
  BY DEF Reconnects
<1> QED
  BY <1>1, <1>2, OthersKeep

LEMMA UnplugsKeeps == ASSUME AlsaIInv, Unplugs PROVE AlsaIInv'
<1>1. connected' \subseteq Channels /\ watched' \subseteq MonitorPorts /\ present' \in BOOLEAN
  BY DEF Unplugs, AlsaIInv, RestTyped, alsaPorts
<1>2. /\ UNCHANGED alsaFixed /\ UNCHANGED alsaSizes
      /\ UNCHANGED <<alsaPc, left, pcm, queued, captured, appl, ring, silent, channels_not_done,
                     passedOver, monitored, delays>>
  BY DEF Unplugs
<1> QED
  BY <1>1, <1>2, OthersKeep

LEMMA SuspendsKeeps == ASSUME AlsaIInv, Suspends PROVE AlsaIInv'
<1>1. handles' = handles /\ nperiods' = nperiods /\ linked' = linked
      /\ Slots' = Slots /\ Playing' = Playing /\ Capturing' = Capturing
  BY DEF Suspends, alsaFixed, Slots, Playing, Capturing
<1>2. /\ pcm' = [s \in handles |-> IF pcm[s] = "running" THEN "suspended" ELSE pcm[s]]
      /\ UNCHANGED <<alsaPc, left, queued, captured, appl, ring, silent, channels_not_done, passedOver,
                     monitored, delays, present, connected, watched>>
  BY DEF Suspends, alsaPorts
<1>3. \A s \in handles : pcm'[s] # "running"
  BY <1>2
<1>4. StreamsAreWell' /\ RingTyped' /\ NumbersTyped' /\ SizesTyped'
  BY <1>1, <1>2 DEF Suspends, AlsaIInv, StreamsAreWell, RingTyped, NumbersTyped, SizesTyped, alsaSizes
<1>5. RestTyped'
  BY <1>1, <1>2 DEF AlsaIInv, RestTyped, PcmStates
<1>6. SomethingLeft' /\ PeriodsAreKept' /\ SilenceLies'
  BY <1>1, <1>3 DEF SomethingLeft, PeriodsAreKept, SilenceLies, Playing, Capturing
<1>7. StreamsByStage'
  BY <1>1, <1>2 DEF AlsaIInv, StreamsByStage, Started
<1>8. RoomForCycles' /\ LatencyIsAsAsked'
  BY <1>1, <1>2 DEF AlsaIInv, RoomForCycles, LatencyIsAsAsked
<1> QED
  BY <1>4, <1>5, <1>6, <1>7, <1>8 DEF AlsaIInv

LEMMA PeriodPassesKeeps == ASSUME AlsaIInv, PeriodPasses PROVE AlsaIInv'
<1> DEFINE R == {s \in handles : pcm[s] = "running"}
           playing == "playback" \in R
           capturing == "capture" \in R
           stops(s) == s \in R /\ \E t \in R \cap Group(s) : Xruns(t)
<1>1. handles' = handles /\ nperiods' = nperiods /\ linked' = linked
      /\ Slots' = Slots /\ Playing' = Playing /\ Capturing' = Capturing
  BY DEF PeriodPasses, alsaFixed, Slots, Playing, Capturing
<1>2. /\ R # {}
      /\ queued' = (IF playing THEN queued - 1 ELSE queued)
      /\ captured' = (IF capturing THEN captured + 1 ELSE captured)
      /\ ring' = (IF playing
                  THEN [c \in Channels |-> [ring[c] EXCEPT ![Behind(queued)] =
                           IF @ = "sound" THEN "spent" ELSE @]] ELSE ring)
      /\ pcm' = [s \in handles |-> IF stops(s) THEN "xrun" ELSE pcm[s]]
      /\ UNCHANGED <<alsaPc, left, appl, silent, channels_not_done, passedOver, monitored, delays, present,
                     connected, watched>>
  BY DEF PeriodPasses, alsaPorts
<1>3. /\ playing <=> Playing /\ pcm["playback"] = "running"
      /\ capturing <=> Capturing /\ pcm["capture"] = "running"
  BY DEF Playing, Capturing
<1>4. \A s \in handles : pcm'[s] = "running" => s \in R /\ ~Xruns(s)
  <2>1. \A s \in handles : s \in Group(s)
    BY DEF Group
  <2> QED
    BY <1>2, <2>1
<1>5. \A s \in handles : pcm'[s] \in Started <=> pcm[s] \in Started
  BY <1>2 DEF Started
<1>6. pcm' \in [handles -> PcmStates]
  BY <1>2 DEF AlsaIInv, RestTyped, PcmStates
<1> HIDE DEF stops
<1>7. /\ queued \in 0 .. nperiods /\ captured \in 0 .. UserPeriods /\ nperiods \in Nat /\ UserPeriods \in Nat
      /\ (playing => queued >= 1) /\ (capturing => captured < UserPeriods)
  BY <1>3, AlsaConstants DEF AlsaIInv, NumbersTyped, StreamsAreWell, SomethingLeft
<1>8. playing' => playing /\ queued' # 0
  BY <1>1, <1>4 DEF Xruns
<1>9. capturing' => capturing /\ captured' # UserPeriods
  BY <1>1, <1>4 DEF Xruns
<1>10. /\ playing' <=> Playing' /\ pcm'["playback"] = "running"
       /\ capturing' <=> Capturing' /\ pcm'["capture"] = "running"
  BY DEF Playing, Capturing
<1>11. \A s \in handles : pcm[s] # "setup" \/ s \notin R
  OBVIOUS
<1>12. StreamsByStage'
  <2>1. PICK s \in handles : s \in R
    BY <1>2
  <2>2. pcm[s] # "setup"
    BY <2>1
  <2>3. alsaPc \in {"poll", "cycle"}
    BY <2>2 DEF AlsaIInv, StreamsByStage
  <2> QED
    BY <1>1, <1>2, <1>5, <2>3 DEF AlsaIInv, StreamsByStage
<1>13. playing => Playing
  BY <1>3
<1> HIDE DEF R, playing, capturing
<1>14. StreamsAreWell' /\ SizesTyped'
  BY <1>1 DEF PeriodPasses, AlsaIInv, StreamsAreWell, SizesTyped, alsaSizes
<1>15. RestTyped'
  BY <1>1, <1>2, <1>6 DEF AlsaIInv, RestTyped
<1>16. NumbersTyped'
  BY <1>1, <1>2, <1>7 DEF AlsaIInv, NumbersTyped
<1>17. SomethingLeft'
  BY <1>2, <1>7, <1>8, <1>9, <1>10 DEF SomethingLeft
<1>18. PeriodsAreKept'
  BY <1>1, <1>2, <1>3, <1>7, <1>8, <1>9, <1>10 DEF AlsaIInv, PeriodsAreKept
<1>19. RoomForCycles' /\ LatencyIsAsAsked'
  <2>1. queued' <= queued /\ captured' >= captured
    BY <1>2, <1>7
  <2>2. left \in Nat /\ queued' \in Nat /\ captured' \in Nat
    BY <1>16 DEF AlsaIInv, NumbersTyped
  <2>3. RoomForCycles'
    BY <1>1, <1>2, <1>7, <2>1, <2>2 DEF AlsaIInv, RoomForCycles
  <2>4. LatencyIsAsAsked'
    BY <1>1, <1>7, <2>1, <2>2 DEF AlsaIInv, LatencyIsAsAsked
  <2> QED
    BY <2>3, <2>4
<1>20. RingTyped' /\ SilenceLies'
  <2>1. CASE ~playing
    <3>1. ring' = ring /\ queued' = queued
      BY <1>2, <2>1
    <3>2. ~(Playing' /\ pcm'["playback"] = "running")
      BY <1>8, <1>10, <2>1
    <3> QED
      BY <1>1, <1>2, <3>1, <3>2 DEF AlsaIInv, RingTyped, SilenceLies
  <2>2. CASE playing
    <3>1. /\ Behind(queued) = Place(appl, queued, nperiods) /\ nperiods \in Nat \ {0}
          /\ appl \in 0 .. nperiods - 1 /\ queued \in 1 .. nperiods
      BY <1>7, <2>2 DEF Behind, Place, AlsaIInv, RingTyped, Slots
    <3>2. ring' = [c \in Channels |-> [ring[c] EXCEPT ![Place(appl, queued, nperiods)] =
                           IF @ = "sound" THEN "spent" ELSE @]]
      BY <1>2, <2>2, <3>1
    <3>3. RingTyped'
      <4>1. ring \in [Channels -> [Slots -> SlotStates]] /\ {"quiet", "sound", "spent"} \subseteq SlotStates
        BY DEF AlsaIInv, RingTyped, SlotStates
      <4>2. ring' \in [Channels -> [Slots -> SlotStates]]
        BY <3>2, <4>1
      <4> QED
        BY <1>1, <1>2, <4>2 DEF AlsaIInv, RingTyped
    <3>4. ASSUME NEW c \in Channels \ passedOver
          PROVE  Lies(ring'[c], appl, nperiods, silent[c], queued - 1)
      <4>1. Lies(ring[c], appl, nperiods, silent[c], queued) /\ silent[c] \in 0 .. nperiods
            /\ ring[c] \in [0 .. nperiods - 1 -> SlotStates]
        BY <1>3, <2>2, <3>4 DEF AlsaIInv, SilenceLies, RingTyped, Slots
      <4>2. Lies([ring[c] EXCEPT ![Place(appl, queued, nperiods)] = IF @ = "sound" THEN "spent" ELSE @],
                 appl, nperiods, silent[c], queued - 1)
        BY <3>1, <4>1, PlayLies
      <4> QED
        BY <3>2, <3>4, <4>2
    <3>5. SilenceLies'
      BY <1>1, <1>2, <2>2, <3>4 DEF SilenceLies
    <3> QED
      BY <3>3, <3>5
  <2> QED
    BY <2>1, <2>2
<1> QED
  BY <1>12, <1>14, <1>15, <1>16, <1>17, <1>18, <1>19, <1>20 DEF AlsaIInv

------------------------------------------------------------------------------
(* Every behaviour.                                                           *)

LEMMA AlsaStartsRight == AlsaInit => AlsaIInv
<1> SUFFICES ASSUME AlsaInit PROVE AlsaIInv
  OBVIOUS
<1>1. PICK setup \in Setups : alsa_driver_new(setup)
  BY DEF AlsaInit
<1>2. /\ setup[1] # {} /\ setup[1] \subseteq {"playback", "capture"}
      /\ setup[2] \in Nat /\ setup[2] >= UserPeriods /\ setup[3] \in BOOLEAN
  BY AlsaAssumption
<1>3. /\ handles = setup[1] /\ nperiods = setup[2] /\ pcm = [s \in setup[1] |-> "setup"]
      /\ ring = [c \in Channels |-> [s \in 0 .. setup[2] - 1 |-> "spent"]]
      /\ linked \in BOOLEAN /\ (linked => setup[1] = {"playback", "capture"})
  BY <1>1, <1>2 DEF alsa_driver_new
<1>4. StreamsAreWell
  BY <1>2, <1>3 DEF StreamsAreWell, Playing, Capturing
<1>5. RingTyped
  BY <1>2, <1>3, AlsaConstants DEF AlsaInit, RingTyped, Slots, SlotStates
<1>6. NumbersTyped
  BY <1>2, <1>3, AlsaConstants DEF AlsaInit, NumbersTyped
<1>7. RestTyped /\ SizesTyped
  BY <1>3 DEF AlsaInit, RestTyped, SizesTyped, PcmStates
<1>8. StreamsByStage /\ SomethingLeft /\ PeriodsAreKept /\ RoomForCycles /\ SilenceLies
  BY <1>3 DEF AlsaInit, StreamsByStage, SomethingLeft, PeriodsAreKept, RoomForCycles, SilenceLies,
              Playing, Capturing
<1>9. LatencyIsAsAsked
  BY AlsaConstants DEF AlsaInit, LatencyIsAsAsked
<1> QED
  BY <1>4, <1>5, <1>6, <1>7, <1>8, <1>9 DEF AlsaIInv

LEMMA AlsaStepKeeps == AlsaIInv /\ [AlsaNext]_alsaVars => AlsaIInv'
<1> SUFFICES ASSUME AlsaIInv, [AlsaNext]_alsaVars PROVE AlsaIInv'
  OBVIOUS
<1>1. CASE UNCHANGED alsaVars
  <2>1. /\ UNCHANGED alsaFixed /\ UNCHANGED alsaSizes
        /\ connected' \subseteq Channels /\ watched' \subseteq MonitorPorts /\ present' \in BOOLEAN
        /\ UNCHANGED <<alsaPc, left, pcm, queued, captured, appl, ring, silent, channels_not_done,
                       passedOver, monitored, delays>>
    BY <1>1 DEF alsaVars, alsaFixed, alsaSizes, AlsaIInv, RestTyped
  <2> QED
    BY <2>1, OthersKeep
<1>2. ASSUME NEW f \in Frames, alsa_driver_bufsize(f) PROVE AlsaIInv'
  BY <1>2, BufsizeKeeps
<1> QED
  BY <1>1, <1>2, AlsaStartsKeeps, WakesUpKeeps, RecoversKeeps, AlsaDiesKeeps, NullCycleKeeps,
     RealCycleKeeps, ReadFailsKeeps, DelayedKeeps, ReconnectsKeeps, PeriodPassesKeeps, SuspendsKeeps,
     UnplugsKeeps
  DEF AlsaNext

LEMMA AlsaIInvIsEnough == AlsaIInv => AlsaInv
<1> SUFFICES ASSUME AlsaIInv PROVE AlsaInv
  OBVIOUS
<1>1. AlsaTypeOK
  BY DEF AlsaIInv, AlsaTypeOK, StreamsAreWell, RingTyped, NumbersTyped, RestTyped, SizesTyped,
         PcmStates, SlotStates
<1>2. NothingIsPlayedTwice
  BY DEF AlsaIInv, NothingIsPlayedTwice, SilenceLies, Lies, Behind, Place
<1>3. WaitsForRunningStreams
  BY DEF AlsaIInv, WaitsForRunningStreams, StreamsByStage, Started
<1>4. SizesAgree /\ LatencyIsAsAsked
  BY DEF AlsaIInv, SizesAgree, SizesTyped
<1> QED
  BY <1>1, <1>2, <1>3, <1>4 DEF AlsaInv

\* For every number of channels and of periods asked for and granted, with streams that are
\* linked, apart or alone, and with xruns, suspends and cycles that are delayed or null: nothing
\* that was played is queued again, but for channels that a cycle passed over; what is queued is
\* at most what was asked for; the driver waits for streams that were started; and the engine and
\* the card agree on the size of a period.
THEOREM NothingIsHeardTwice == AlsaSpec => []AlsaInv
<1>1. AlsaInit => AlsaIInv
  BY AlsaStartsRight
<1>2. AlsaIInv /\ [AlsaNext]_alsaVars => AlsaIInv'
  BY AlsaStepKeeps
<1>3. AlsaIInv => AlsaInv
  BY AlsaIInvIsEnough
<1> QED
  BY <1>1, <1>2, <1>3, PTL DEF AlsaSpec

------------------------------------------------------------------------------
(* The threads that run cycles. EngineInv is not inductive: the driver      *)
(* thread and the freewheel thread are kept apart by what each request      *)
(* knows when it has waited, and EngineIInv says that for every step of     *)
(* every request, whatever the main thread and a dying driver thread do     *)
(* meanwhile.                                                               *)

Ats == {"done", "join", "stop", "create", "createfw", "joinfw", "device", "exit", "exitjoin"}

EngineTyped ==
    /\ EngineTypeOK
    /\ server_op \in [op : {"idle", "bufsize", "freewheel", "stopfreewheel"}, at : Ats]
    /\ server_op.at = "createfw" => server_op.op = "freewheel"
    /\ device \in {"running", "stopped"}
    /\ driverset \in BOOLEAN /\ attached \in BOOLEAN
    /\ freewheeling \in BOOLEAN /\ stop_freewheeling \in BOOLEAN /\ undefined \in BOOLEAN

Dying == dthread \in {"stop", "detach", "kill", "null"}
Halted == Dying \/ dthread \in {"ended", "joined"}

\* A thread that dies says so to the end, and has no driver when it ended.
DyingIsSaid ==
    /\ nt_run = "DYING" => Dying \/ (dthread = "ended" /\ ~driverset)
    /\ Dying => nt_run = "DYING"

\* The thread the server creates waits for its device.
NewOneWaits ==
    /\ dthread # "none"
    /\ server_op.at = "device" => nt_lock = "server" /\ dthread = "new"
    /\ dthread = "new" => nt_lock = "server" \/ nt_run # "RUN" \/ device = "running"
    /\ device = "stopped" => dthread \notin {"check", "cycle"}

\* Past its join a request finds no thread that could run a cycle.
JoinedIsHalted == server_op.at \in {"stop", "create", "createfw"} => Halted

\* The driver thread has ended for good while the engine freewheels.
FreewheelsAlone ==
    /\ \/ freewheeling
       \/ server_op.at = "createfw"
       \/ server_op.at = "stop" /\ server_op.op = "freewheel"
       => nt_run = "DYING" \/ dthread = "joined"
    /\ server_op.at \in {"stop", "create"} /\ freewheeling => nt_run = "DYING"

\* A freewheel thread that was not joined is the one of the engine that freewheels.
FreewheelThreadIsKnown ==
    /\ fthread \in {"check", "cycle", "ended"} => freewheeling
    /\ server_op.at \in {"join", "stop"} /\ server_op.op = "freewheel" => ~freewheeling
    /\ server_op.at = "createfw" => freewheeling /\ fthread \in {"none", "joined"}

EngineIInv ==
    /\ EngineTyped
    /\ ~undefined =>
         /\ DyingIsSaid /\ NewOneWaits /\ JoinedIsHalted
         /\ FreewheelsAlone /\ FreewheelThreadIsKnown

------------------------------------------------------------------------------
(* What the steps do.                                                        *)

\* Who gets past the wait for the driver thread finds it dying or ended for good.
LEMMA JoinHalts ==
    ASSUME EngineIInv, ~undefined, Join
    PROVE  /\ dthread' \in DriverThreads /\ undefined' \in BOOLEAN
           /\ ~undefined' =>
                /\ dthread' \in {"stop", "detach", "kill", "null", "ended", "joined"}
                /\ nt_run # "DYING" => dthread = "ended" /\ dthread' = "joined"
                /\ nt_run = "DYING" => dthread' = dthread
BY DEF EngineIInv, EngineTyped, EngineTypeOK, Join, MayJoin, Ended, DyingIsSaid,
   NewOneWaits,
       Dying, DriverThreads

\* A request goes on.
LEMMA RequestGoesOn ==
    ASSUME EngineTyped, NEW at \in Ats, To(at)
    PROVE  /\ server_op' \in [op : {"idle", "bufsize", "freewheel", "stopfreewheel"}, at : Ats]
           /\ server_op'.op = server_op.op /\ server_op'.at = at
BY DEF EngineTyped, To

\* A request is answered.
LEMMA IdleIsTyped ==
    ASSUME server_op' = Idle
    PROVE  /\ server_op' \in [op : {"idle", "bufsize", "freewheel", "stopfreewheel"}, at : Ats]
           /\ server_op'.op = "idle" /\ server_op'.at = "done"
BY DEF Idle, Ats

------------------------------------------------------------------------------
(* Every step keeps the invariant, actor by actor.                           *)

LEMMA DriverKeeps ==
    ASSUME EngineIInv, ~undefined, Driver
    PROVE  EngineIInv'
<1> USE DEF EngineIInv, EngineTyped, EngineTypeOK, Ats, DriverThreads,
           DyingIsSaid, NewOneWaits, JoinedIsHalted, Dying, Halted, FreewheelsAlone, FreewheelThreadIsKnown
<1>1. CASE DriverChecks
  BY <1>1 DEF DriverChecks
<1>2. CASE DriverDies
  BY <1>2 DEF DriverDies, Moves
<1>3. CASE DriverStops
  BY <1>3 DEF DriverStops, Moves
<1>4. CASE DriverDetaches
  <2>1. attached' \in BOOLEAN /\ ~attached'
    BY <1>4, Zenon DEF DriverDetaches
  <2>2. EngineTyped'
    BY <1>4, <2>1 DEF DriverDetaches, Moves
  <2> QED
    BY <1>4, <2>1, <2>2 DEF DriverDetaches, Moves
<1>5. CASE DriverKills
  BY <1>5 DEF DriverKills, Moves
<1>6. CASE DriverForgets
  <2>1. driverset' \in BOOLEAN /\ ~driverset'
    BY <1>6, Zenon DEF DriverForgets
  <2>2. EngineTyped'
    BY <1>6, <2>1 DEF DriverForgets, Moves
  <2> QED
    BY <1>6, <2>1, <2>2 DEF DriverForgets, Moves
<1>7. CASE \E ok \in BOOLEAN : DriverCycles(ok)
  BY <1>7 DEF DriverCycles, Moves
<1> QED
  BY <1>1, <1>2, <1>3, <1>4, <1>5, <1>6, <1>7 DEF Driver

LEMMA FreewheelKeeps ==
    ASSUME EngineIInv, ~undefined, Freewheel
    PROVE  EngineIInv'
<1> USE DEF EngineIInv, EngineTyped, EngineTypeOK, Ats, DriverThreads,
           DyingIsSaid, NewOneWaits, JoinedIsHalted, Dying, Halted, FreewheelsAlone, FreewheelThreadIsKnown
<1>1. CASE FreewheelChecks
  BY <1>1 DEF FreewheelChecks
<1>2. CASE \E ok \in BOOLEAN : FreewheelCycles(ok)
  BY <1>2 DEF FreewheelCycles
<1> QED
  BY <1>1, <1>2 DEF Freewheel

LEMMA MainKeeps ==
    ASSUME EngineIInv, ~undefined, Main
    PROVE  EngineIInv'
<1> USE DEF EngineIInv, EngineTyped, EngineTypeOK, Ats, DriverThreads,
           DyingIsSaid, NewOneWaits, JoinedIsHalted, Dying, Halted, FreewheelsAlone, FreewheelThreadIsKnown
<1>1. CASE MainStopsFreewheel
  BY <1>1 DEF MainStopsFreewheel
<1>2. CASE MainJoinsFreewheel
  <2>1. freewheeling' \in BOOLEAN /\ ~freewheeling'
    BY <1>2, Zenon DEF MainJoinsFreewheel
  <2>2. EngineTyped'
    BY <1>2, <2>1 DEF MainJoinsFreewheel, MayJoinFreewheel, Ended
  <2> QED
    BY <1>2, <2>1, <2>2 DEF MainJoinsFreewheel, MayJoinFreewheel, Ended
<1>3. CASE MainExits
  BY <1>3 DEF MainExits, SetRun
<1>4. CASE MainUnloads
  <2>1. driverset' \in BOOLEAN /\ ~driverset'
    BY <1>4, Zenon DEF MainUnloads
  <2>2. /\ dthread' \in DriverThreads /\ undefined' \in BOOLEAN
        /\ ~undefined' =>
             /\ dthread' \in {"stop", "detach", "kill", "null", "ended", "joined"}
             /\ nt_run # "DYING" => dthread = "ended" /\ dthread' = "joined"
             /\ nt_run = "DYING" => dthread' = dthread
    BY <1>4, JoinHalts DEF MainUnloads
  <2>3. EngineTyped'
    BY <1>4, <2>1, <2>2 DEF MainUnloads
  <2>4. ~undefined' => DyingIsSaid' /\ NewOneWaits' /\ JoinedIsHalted'
    BY <1>4, <2>1, <2>2 DEF MainUnloads
  <2>5. ~undefined' => FreewheelsAlone' /\ FreewheelThreadIsKnown'
    BY <1>4, <2>1, <2>2 DEF MainUnloads
  <2> QED
    BY <2>3, <2>4, <2>5
<1> QED
  BY <1>1, <1>2, <1>3, <1>4 DEF Main

LEMMA SignalKeeps ==
    ASSUME EngineIInv, ~undefined, Signalled
    PROVE  EngineIInv'
<1> USE DEF EngineIInv, EngineTyped, EngineTypeOK, Ats, DriverThreads,
           DyingIsSaid, NewOneWaits, JoinedIsHalted, Dying, Halted, FreewheelsAlone, FreewheelThreadIsKnown
<1> QED
  BY DEF Signalled

LEMMA ServerJoinsKeeps ==
    ASSUME EngineIInv, ~undefined, ServerJoins
    PROVE  EngineIInv'
<1>j. /\ dthread' \in DriverThreads /\ undefined' \in BOOLEAN
      /\ ~undefined' =>
           /\ dthread' \in {"stop", "detach", "kill", "null", "ended", "joined"}
           /\ nt_run # "DYING" => dthread = "ended" /\ dthread' = "joined"
           /\ nt_run = "DYING" => dthread' = dthread
  BY JoinHalts DEF ServerJoins
<1> USE DEF EngineIInv, EngineTyped, EngineTypeOK, Ats, DriverThreads
<1> USE DEF ServerJoins
<1>0. /\ server_op' \in [op : {"idle", "bufsize", "freewheel", "stopfreewheel"}, at : Ats]
      /\ server_op'.op = server_op.op /\ server_op'.at = "stop"
  BY RequestGoesOn
<1>1. EngineTyped'
  BY <1>j, <1>0
<1>2. ~undefined' => DyingIsSaid' /\ NewOneWaits' /\ JoinedIsHalted'
  BY <1>j, <1>0, <1>1 DEF DyingIsSaid, NewOneWaits, JoinedIsHalted, Dying, Halted
<1>3. ~undefined' => FreewheelsAlone' /\ FreewheelThreadIsKnown'
  BY <1>j, <1>0, <1>1 DEF DyingIsSaid, NewOneWaits, JoinedIsHalted, Dying, Halted,
     FreewheelsAlone, FreewheelThreadIsKnown
<1> QED
  BY <1>1, <1>2, <1>3

LEMMA ServerStopsKeeps ==
    ASSUME EngineIInv, ~undefined, ServerStops
    PROVE  EngineIInv'
<1> USE DEF EngineIInv, EngineTyped, EngineTypeOK, Ats, DriverThreads
<1> USE DEF ServerStops
<1>0. /\ server_op' \in [op : {"idle", "bufsize", "freewheel", "stopfreewheel"}, at : Ats]
      /\ server_op'.op = server_op.op
      /\ server_op'.at = (IF server_op.op = "freewheel" THEN "createfw" ELSE "create")
  <2>1. CASE To("createfw")
    BY <2>1, RequestGoesOn
  <2>2. CASE To("create")
    BY <2>2, RequestGoesOn
  <2> QED
    BY <2>1, <2>2
<1>b. IF server_op.op = "freewheel" THEN freewheeling' \in BOOLEAN /\ freewheeling' /\ stop_freewheeling' \in BOOLEAN ELSE UNCHANGED <<freewheeling, stop_freewheeling>>
  BY Zenon DEF ServerStops
<1>1. EngineTyped'
  BY <1>b, <1>0
<1>2. ~undefined' => DyingIsSaid' /\ NewOneWaits' /\ JoinedIsHalted'
  BY <1>b, <1>0, <1>1 DEF DyingIsSaid, NewOneWaits, JoinedIsHalted, Dying, Halted
<1>3. ~undefined' => FreewheelsAlone' /\ FreewheelThreadIsKnown'
  BY <1>b, <1>0, <1>1 DEF DyingIsSaid, NewOneWaits, JoinedIsHalted, Dying, Halted,
     FreewheelsAlone, FreewheelThreadIsKnown
<1> QED
  BY <1>1, <1>2, <1>3

LEMMA JoinsFreewheelKeeps ==
    ASSUME EngineIInv, ~undefined, JoinsFreewheel
    PROVE  EngineIInv'
<1> USE DEF EngineIInv, EngineTyped, EngineTypeOK, Ats, DriverThreads
<1> USE DEF JoinsFreewheel, MayJoinFreewheel, Ended
<1>0. /\ server_op' \in [op : {"idle", "bufsize", "freewheel", "stopfreewheel"}, at : Ats]
      /\ server_op'.op = server_op.op /\ server_op'.at = "create"
  BY RequestGoesOn
<1>b. freewheeling' \in BOOLEAN /\ ~freewheeling'
  BY Zenon DEF JoinsFreewheel
<1>1. EngineTyped'
  BY <1>b, <1>0
<1>2. ~undefined' => DyingIsSaid' /\ NewOneWaits' /\ JoinedIsHalted'
  BY <1>b, <1>0, <1>1 DEF DyingIsSaid, NewOneWaits, JoinedIsHalted, Dying, Halted,
     FreewheelsAlone, FreewheelThreadIsKnown
<1>3. ~undefined' => FreewheelsAlone' /\ FreewheelThreadIsKnown'
  BY <1>b, <1>0, <1>1 DEF DyingIsSaid, NewOneWaits, JoinedIsHalted, Dying, Halted,
     FreewheelsAlone, FreewheelThreadIsKnown
<1> QED
  BY <1>1, <1>2, <1>3

LEMMA ServerExitsKeeps ==
    ASSUME EngineIInv, ~undefined, ServerExits
    PROVE  EngineIInv'
<1> USE DEF EngineIInv, EngineTyped, EngineTypeOK, Ats, DriverThreads
<1> USE DEF ServerExits, SetRun
<1>0. /\ server_op' \in [op : {"idle", "bufsize", "freewheel", "stopfreewheel"}, at : Ats]
      /\ server_op'.op = server_op.op /\ server_op'.at = "exitjoin"
  BY RequestGoesOn
<1>1. EngineTyped'
  BY <1>0
<1>2. ~undefined' => DyingIsSaid' /\ NewOneWaits' /\ JoinedIsHalted'
  BY <1>0, <1>1 DEF DyingIsSaid, NewOneWaits, JoinedIsHalted, Dying, Halted
<1>3. ~undefined' => FreewheelsAlone' /\ FreewheelThreadIsKnown'
  BY <1>0, <1>1 DEF DyingIsSaid, NewOneWaits, JoinedIsHalted, Dying, Halted,
     FreewheelsAlone, FreewheelThreadIsKnown
<1> QED
  BY <1>1, <1>2, <1>3

LEMMA ServerForgetsKeeps ==
    ASSUME EngineIInv, ~undefined, ServerForgets
    PROVE  EngineIInv'
<1>j. /\ dthread' \in DriverThreads /\ undefined' \in BOOLEAN
      /\ ~undefined' =>
           /\ dthread' \in {"stop", "detach", "kill", "null", "ended", "joined"}
           /\ nt_run # "DYING" => dthread = "ended" /\ dthread' = "joined"
           /\ nt_run = "DYING" => dthread' = dthread
  BY JoinHalts DEF ServerForgets
<1> USE DEF EngineIInv, EngineTyped, EngineTypeOK, Ats, DriverThreads
<1> USE DEF ServerForgets
<1>0. /\ server_op' \in [op : {"idle", "bufsize", "freewheel", "stopfreewheel"}, at : Ats]
      /\ server_op'.op = "idle" /\ server_op'.at = "done"
  BY IdleIsTyped
<1>b. driverset' \in BOOLEAN /\ ~driverset' /\ attached' \in BOOLEAN /\ ~attached'
  BY Zenon DEF ServerForgets
<1>1. EngineTyped'
  BY <1>j, <1>b, <1>0
<1>2. ~undefined' => DyingIsSaid' /\ NewOneWaits' /\ JoinedIsHalted'
  BY <1>j, <1>b, <1>0, <1>1 DEF DyingIsSaid, NewOneWaits, JoinedIsHalted, Dying, Halted
<1>3. ~undefined' => FreewheelsAlone' /\ FreewheelThreadIsKnown'
  BY <1>j, <1>b, <1>0, <1>1 DEF DyingIsSaid, NewOneWaits, JoinedIsHalted, Dying, Halted,
     FreewheelsAlone, FreewheelThreadIsKnown
<1> QED
  BY <1>1, <1>2, <1>3

LEMMA CreatesFreewheelKeeps ==
    ASSUME EngineIInv, ~undefined, NEW ok \in BOOLEAN, CreatesFreewheel(ok)
    PROVE  EngineIInv'
<1> USE DEF EngineIInv, EngineTyped, EngineTypeOK, Ats, DriverThreads
<1> USE DEF CreatesFreewheel
<1>0. /\ server_op' \in [op : {"idle", "bufsize", "freewheel", "stopfreewheel"}, at : Ats]
      /\ server_op'.op = "idle" /\ server_op'.at = "done"
  BY IdleIsTyped
<1>1. EngineTyped'
  BY <1>0
<1>2. ~undefined' => DyingIsSaid' /\ NewOneWaits' /\ JoinedIsHalted'
  BY <1>0, <1>1 DEF DyingIsSaid, NewOneWaits, JoinedIsHalted, Dying, Halted
<1>3. ~undefined' => FreewheelsAlone' /\ FreewheelThreadIsKnown'
  BY <1>0, <1>1 DEF DyingIsSaid, NewOneWaits, JoinedIsHalted, Dying, Halted,
     FreewheelsAlone, FreewheelThreadIsKnown
<1> QED
  BY <1>1, <1>2, <1>3

LEMMA CreatesDriverKeeps ==
    ASSUME EngineIInv, ~undefined, NEW ok \in BOOLEAN, CreatesDriver(ok)
    PROVE  EngineIInv'
<1> USE DEF EngineIInv, EngineTyped, EngineTypeOK, Ats, DriverThreads
<1> USE DEF CreatesDriver, Ended
<1>0. /\ server_op' \in [op : {"idle", "bufsize", "freewheel", "stopfreewheel"}, at : Ats]
      /\ IF ok THEN server_op'.at = "device"
         ELSE IF server_op.op = "bufsize" THEN server_op'.at = "exit" ELSE server_op'.at = "done"
      /\ ok \/ server_op.op = "bufsize" => server_op'.op = server_op.op
  <2>1. CASE server_op' = Idle /\ ~ok /\ server_op.op # "bufsize"
    BY <2>1, IdleIsTyped
  <2>2. CASE To("exit") /\ ~ok /\ server_op.op = "bufsize"
    BY <2>2, RequestGoesOn
  <2>3. CASE To("device") /\ ok
    BY <2>3, RequestGoesOn
  <2> QED
    BY <2>1, <2>2, <2>3
<1>1. EngineTyped'
  BY <1>0
<1>2. ~undefined' => DyingIsSaid' /\ NewOneWaits' /\ JoinedIsHalted'
  BY <1>0, <1>1 DEF DyingIsSaid, NewOneWaits, JoinedIsHalted, Dying, Halted
<1>3. ~undefined' => FreewheelsAlone' /\ FreewheelThreadIsKnown'
  BY <1>0, <1>1 DEF DyingIsSaid, NewOneWaits, JoinedIsHalted, Dying, Halted,
     FreewheelsAlone, FreewheelThreadIsKnown
<1> QED
  BY <1>1, <1>2, <1>3

LEMMA StartsDeviceKeeps ==
    ASSUME EngineIInv, ~undefined, NEW ok \in BOOLEAN, StartsDevice(ok)
    PROVE  EngineIInv'
<1> USE DEF EngineIInv, EngineTyped, EngineTypeOK, Ats, DriverThreads
<1> USE DEF StartsDevice, RunAfter
<1>0. /\ server_op' \in [op : {"idle", "bufsize", "freewheel", "stopfreewheel"}, at : Ats]
      /\ IF ~ok /\ server_op.op = "bufsize" THEN server_op'.at = "exit" ELSE server_op'.at = "done"
  <2>1. CASE server_op' = Idle /\ ~ok /\ server_op.op # "bufsize"
    BY <2>1, IdleIsTyped
  <2>2. CASE To("exit") /\ ~ok /\ server_op.op = "bufsize"
    BY <2>2, RequestGoesOn
  <2>3. CASE server_op' = Idle /\ ok
    BY <2>3, IdleIsTyped
  <2> QED
    BY <2>1, <2>2, <2>3
<1>1. EngineTyped'
  BY <1>0
<1>2. ~undefined' => DyingIsSaid' /\ NewOneWaits' /\ JoinedIsHalted'
  BY <1>0, <1>1 DEF DyingIsSaid, NewOneWaits, JoinedIsHalted, Dying, Halted
<1>3. ~undefined' => FreewheelsAlone' /\ FreewheelThreadIsKnown'
  BY <1>0, <1>1 DEF DyingIsSaid, NewOneWaits, JoinedIsHalted, Dying, Halted,
     FreewheelsAlone, FreewheelThreadIsKnown
<1> QED
  BY <1>1, <1>2, <1>3

LEMMA RequestKeeps ==
    ASSUME EngineIInv, ~undefined, NEW op \in {"bufsize", "freewheel", "stopfreewheel"}, Request(op)
    PROVE  EngineIInv'
<1> USE DEF EngineIInv, EngineTyped, EngineTypeOK, Ats, DriverThreads
<1> USE DEF Request, SetRun
<1>0. /\ server_op' \in [op : {"idle", "bufsize", "freewheel", "stopfreewheel"}, at : Ats]
      /\ server_op'.op = op /\ server_op'.at = (IF op = "stopfreewheel" THEN "joinfw" ELSE "join")
      /\ server_op.at = "done"
  BY DEF Idle
<1>b. stop_freewheeling' \in BOOLEAN
  BY Zenon DEF Request, EngineIInv, EngineTyped
<1>1. EngineTyped'
  BY <1>b, <1>0
<1>2. ~undefined' => DyingIsSaid' /\ NewOneWaits' /\ JoinedIsHalted'
  BY <1>b, <1>0, <1>1 DEF DyingIsSaid, NewOneWaits, JoinedIsHalted, Dying, Halted
<1>3. ~undefined' => FreewheelsAlone' /\ FreewheelThreadIsKnown'
  BY <1>b, <1>0, <1>1 DEF DyingIsSaid, NewOneWaits, JoinedIsHalted, Dying, Halted,
     FreewheelsAlone, FreewheelThreadIsKnown
<1> QED
  BY <1>1, <1>2, <1>3

LEMMA ServerKeeps ==
    ASSUME EngineIInv, ~undefined, Server
    PROVE  EngineIInv'
BY CreatesFreewheelKeeps, CreatesDriverKeeps, StartsDeviceKeeps, ServerJoinsKeeps,
   ServerStopsKeeps, JoinsFreewheelKeeps, ServerExitsKeeps, ServerForgetsKeeps DEF Server

LEMMA EngineStepKeeps ==
    ASSUME EngineIInv, [EngineNext]_engineVars
    PROVE  EngineIInv'
<1>1. CASE UNCHANGED engineVars
  BY <1>1 DEF engineVars, EngineIInv, EngineTyped, EngineTypeOK, DyingIsSaid, NewOneWaits,
              JoinedIsHalted, Dying, Halted, FreewheelsAlone, FreewheelThreadIsKnown
<1>2. CASE EngineNext
  BY <1>2, DriverKeeps, FreewheelKeeps, ServerKeeps, MainKeeps, SignalKeeps, RequestKeeps
     DEF EngineNext
<1> QED
  BY <1>1, <1>2

LEMMA EngineStartsRight ==
    ASSUME EngineInit
    PROVE  EngineIInv
BY DEF EngineInit, Idle, EngineIInv, EngineTyped, EngineTypeOK, DyingIsSaid, NewOneWaits,
       JoinedIsHalted, Dying, Halted, FreewheelsAlone, FreewheelThreadIsKnown, Ats, DriverThreads

LEMMA EngineIInvIsEnough ==
    ASSUME EngineIInv
    PROVE  EngineInv
BY DEF EngineIInv, EngineInv, EngineTyped, OneRunsCycles, StoppedDeviceRests,
   FreewheelThreadEnds,
       DyingIsSaid, NewOneWaits, Dying, FreewheelsAlone, FreewheelThreadIsKnown, Idle

\* However requests, the end of the engine and failing cycles, threads and devices
\* interleave: never do two threads run a cycle at once, nor does one on a device that
\* was stopped, and the freewheel thread runs only while the engine freewheels
\* (driver.c, jack_driver_nt_thread and nt_start; engine.c, jack_start_freewheeling).
THEOREM EngineThreadsStayApart == EngineSpec => []EngineInv
<1>1. EngineInit => EngineIInv
  BY EngineStartsRight
<1>2. EngineIInv /\ [EngineNext]_engineVars => EngineIInv'
  BY EngineStepKeeps
<1>3. EngineIInv => EngineInv
  BY EngineIInvIsEnough
<1> QED
  BY <1>1, <1>2, <1>3, PTL DEF EngineSpec

------------------------------------------------------------------------------
(***************************************************************************)
(* The CoreAudio and PortAudio drivers.  An overload is seen before the    *)
(* callback that skips its cycle; a device is open as it was asked for     *)
(* until the period is changed; and a stream that is closed while the      *)
(* driver lives is one that could not be opened again.                     *)
(***************************************************************************)
CallbackTypeOK ==
    /\ cbAsk \in Asked
    /\ cbUids \in Uids \X Uids /\ (~Core => cbUids[1] = cbUids[2])
    /\ cbPhase \in {"closed", "new", "refused", "attached", "running", "detached", "deleted",
                    "crashed"}

ChannelsAreCounted == cbChannels.in \in Nat /\ cbChannels.out \in Nat

OverloadIsNoted == cbXrun => "overload" \in cbSteps

\* A driver that is open has its devices' channels, and until it is attached the
\* engine has not been told of its period.
OpenAsAsked ==
    cbPhase \in {"new", "attached", "running"} /\ "resize" \notin cbSteps =>
        /\ cbFrames.period = cbFrames.driver
        /\ DeviceHas(cbDevices.in, "in", cbChannels.in)
        /\ DeviceHas(cbDevices.out, "out", cbChannels.out)
ClosedHasOnePeriod == cbPhase = "closed" => cbFrames.period = cbFrames.driver /\ cbSteps = {}

EngineAgrees ==
    cbPhase \in {"attached", "running"} /\ "engine" \notin cbSteps =>
        cbFrames.driver = cbFrames.engine
EngineRefusedChange == "engine" \in cbSteps => "resize" \in cbSteps

ClosedStreams == cbStream = "closed" => cbPhase = "deleted" \/ (~Core /\ "open" \in cbSteps)
OnlyCoreListens == ~Core => cbListeners = {}
CoreEnds == Core /\ cbUndefined => cbPhase \in {"refused", "deleted", "crashed"}

CallbackIInv ==
    /\ CallbackTypeOK /\ ChannelsAreCounted
    /\ OutputIsFilled /\ OverloadIsNoted
    /\ ChannelsHavePorts /\ CrashesAreExplained
    /\ OpenAsAsked /\ ClosedHasOnePeriod /\ EngineAgrees /\ EngineRefusedChange
    /\ EndsAreClean /\ ClosedStreams /\ CoreEnds /\ OnlyCoreListens

LEMMA CallbackStarting == CallbackInit => CallbackIInv
<1> SUFFICES ASSUME CallbackInit PROVE CallbackIInv
  OBVIOUS
<1>1. ~cbXrun /\ ~cbUndefined
  BY DEF CallbackInit
<1>2. /\ cbPhase = "closed" /\ cbChannels = [in |-> 0, out |-> 0] /\ cbOut = "none" /\ cbStream = "none" /\ cbSteps = {} /\ cbListeners = {}
      /\ cbAsk \in Asked /\ cbUids \in Uids \X Uids
      /\ (cbApi = "portaudio" => cbUids[1] = cbUids[2]) /\ cbApi \in CallbackApis
      /\ \E f \in CallbackFrames : cbFrames = [driver |-> f, engine |-> 0, period |-> f]
  BY DEF CallbackInit, OfBoth
<1>3. CallbackTypeOK
  BY <1>2, CallbackAssumption DEF CallbackTypeOK, Core
<1>4. QED
  BY <1>1, <1>2, <1>3
  DEF CallbackIInv, OutputIsFilled, OverloadIsNoted, ChannelsHavePorts, CrashesAreExplained,
      OpenAsAsked, ClosedHasOnePeriod, EngineAgrees, EngineRefusedChange, EndsAreClean,
      ClosedStreams, CoreEnds, ChannelsAreCounted, OnlyCoreListens

\* The device of a driver that is new has the channels it was opened with.
LEMMA CoreDeviceHas ==
    ASSUME CallbackTypeOK, NEW d \in CoreDevice,
           cbAsk.in <= TotalChannels(d).in, cbAsk.out <= TotalChannels(d).out
    PROVE  /\ DeviceHas(d, "in", OrAll(cbAsk.in, TotalChannels(d).in))
           /\ DeviceHas(d, "out", OrAll(cbAsk.out, TotalChannels(d).out))
           /\ OrAll(cbAsk.in, TotalChannels(d).in) \in Nat
           /\ OrAll(cbAsk.out, TotalChannels(d).out) \in Nat
<1>1. d \in DOMAIN SoundDevices /\ d # NoUid
  <2>1. DefaultIn \in DOMAIN SoundDevices /\ DefaultOut \in DOMAIN SoundDevices
        /\ NoUid \notin DOMAIN SoundDevices /\ Uids \subseteq DOMAIN SoundDevices \cup {NoUid}
    BY CallbackAssumption
  <2>2. cbUids[1] \in Uids /\ cbUids[2] \in Uids
    BY DEF CallbackTypeOK
  <2>3. QED
    BY <2>1, <2>2 DEF CoreDevice, get_default_device
<1>2. SoundDevices[d].in \in Nat /\ SoundDevices[d].out \in Nat
  BY <1>1, CallbackAssumption
<1>3. cbAsk.in \in Nat /\ cbAsk.out \in Nat
  BY CallbackAssumption DEF CallbackTypeOK
<1>4. /\ TotalChannels(d).in \in {0, SoundDevices[d].in}
      /\ TotalChannels(d).out \in {0, SoundDevices[d].out}
  BY DEF TotalChannels, OfBoth
<1>5. QED
  BY <1>1, <1>2, <1>3, <1>4 DEF DeviceHas, OrAll

LEMMA TrimmedIsFewer ==
    ASSUME NEW asked \in Nat, NEW n \in Nat
    PROVE  Trimmed(asked, n) \in Nat /\ Trimmed(asked, n) <= n
BY DEF Trimmed, Fewest

LEMMA PortDeviceHas ==
    ASSUME CallbackTypeOK, ~Core,
           NEW channels, channels = OfBoth(Trimmed(cbAsk.in, Found.channels.in),
                                           Trimmed(cbAsk.out, Found.channels.out))
    PROVE  /\ DeviceHas(WithDevice(channels, Found.devices).in, "in", channels.in)
           /\ DeviceHas(WithDevice(channels, Found.devices).out, "out", channels.out)
           /\ channels.in \in Nat /\ channels.out \in Nat
<1>1. cbAsk.in \in Nat /\ cbAsk.out \in Nat
  BY CallbackAssumption DEF CallbackTypeOK
<1>2. /\ DefaultIn \in DOMAIN SoundDevices /\ DefaultOut \in DOMAIN SoundDevices
      /\ NoUid \notin DOMAIN SoundDevices /\ Uids \subseteq DOMAIN SoundDevices \cup {NoUid}
      /\ \A d \in DOMAIN SoundDevices : SoundDevices[d].in \in Nat /\ SoundDevices[d].out \in Nat
  BY CallbackAssumption
<1>3. cbUids[1] \in Uids
  BY DEF CallbackTypeOK
<1>4. /\ Found.channels.in \in Nat
      /\ Found.channels.in > 0 =>
            /\ Found.devices.in # NoUid
            /\ SoundDevices[Found.devices.in].in \in Nat
            /\ Found.channels.in <= SoundDevices[Found.devices.in].in
  <2>1. CASE cbUids[1] = NoUid
    <3>1. /\ Found.devices.in = DefaultIn
          /\ Found.channels.in \in {0, SoundDevices[DefaultIn].in}
      BY <2>1 DEF Found, portaudio_load_default, OfBoth
    <3>2. QED
      BY <1>2, <3>1
  <2>2. CASE cbUids[1] # NoUid
    <3>1. cbUids[1] \in DOMAIN SoundDevices
      BY <1>2, <1>3, <2>2
    <3>2. /\ Found.devices.in = IF SoundDevices[cbUids[1]].in > 0 THEN cbUids[1] ELSE NoUid
          /\ Found.channels.in \in {0, SoundDevices[cbUids[1]].in}
      BY <2>2 DEF Found, portaudio_load_driver, TotalChannels, OfBoth
    <3>3. QED
      BY <1>2, <2>2, <3>1, <3>2
  <2>3. QED
    BY <2>1, <2>2
<1>5. /\ Found.channels.out \in Nat
      /\ Found.channels.out > 0 =>
            /\ Found.devices.out # NoUid
            /\ SoundDevices[Found.devices.out].out \in Nat
            /\ Found.channels.out <= SoundDevices[Found.devices.out].out
  <2>1. CASE cbUids[1] = NoUid
    <3>1. /\ Found.devices.out = DefaultOut
          /\ Found.channels.out \in {0, SoundDevices[DefaultOut].out}
      BY <2>1 DEF Found, portaudio_load_default, OfBoth
    <3>2. QED
      BY <1>2, <3>1
  <2>2. CASE cbUids[1] # NoUid
    <3>1. cbUids[1] \in DOMAIN SoundDevices
      BY <1>2, <1>3, <2>2
    <3>2. /\ Found.devices.out = IF SoundDevices[cbUids[1]].out > 0 THEN cbUids[1] ELSE NoUid
          /\ Found.channels.out \in {0, SoundDevices[cbUids[1]].out}
      BY <2>2 DEF Found, portaudio_load_driver, TotalChannels, OfBoth
    <3>3. QED
      BY <1>2, <2>2, <3>1, <3>2
  <2>3. QED
    BY <2>1, <2>2
<1>6. /\ channels.in \in Nat /\ channels.in <= Found.channels.in
      /\ channels.out \in Nat /\ channels.out <= Found.channels.out
  <2>1. /\ Trimmed(cbAsk.in, Found.channels.in) \in Nat
        /\ Trimmed(cbAsk.in, Found.channels.in) <= Found.channels.in
        /\ Trimmed(cbAsk.out, Found.channels.out) \in Nat
        /\ Trimmed(cbAsk.out, Found.channels.out) <= Found.channels.out
    BY <1>1, <1>4, <1>5, TrimmedIsFewer
  <2>2. QED
    BY <2>1 DEF OfBoth
<1>7. DeviceHas(WithDevice(channels, Found.devices).in, "in", channels.in)
  BY <1>4, <1>6 DEF DeviceHas, WithDevice, OfBoth
<1>8. DeviceHas(WithDevice(channels, Found.devices).out, "out", channels.out)
  BY <1>5, <1>6 DEF DeviceHas, WithDevice, OfBoth
<1>9. QED
  BY <1>6, <1>7, <1>8

LEMMA CallbackStep == CallbackIInv /\ [CallbackNext]_cbVars => CallbackIInv'
<1> SUFFICES ASSUME CallbackIInv, [CallbackNext]_cbVars PROVE CallbackIInv'
  OBVIOUS
<1> USE DEF cbVars, cbFixed, cbOpened, Core
<1> USE DEF CallbackIInv, OutputIsFilled, OverloadIsNoted, ChannelsHavePorts, CrashesAreExplained,
            OpenAsAsked, ClosedHasOnePeriod, EngineAgrees, EngineRefusedChange, EndsAreClean,
            ClosedStreams, CoreEnds, ChannelsAreCounted, OnlyCoreListens
<1>a. UNCHANGED cbFixed /\ cbPhase' \in {"closed", "new", "refused", "attached", "running",
                                          "detached", "deleted", "crashed"}
      => CallbackTypeOK'
  BY DEF CallbackTypeOK
<1>1. CASE coreaudio_driver_new
  <2>1. CASE NewFails /\ UNCHANGED cbUndefined
    BY <1>1, <1>a, <2>1 DEF coreaudio_driver_new, NewFails
  <2>2. CASE cbPhase' = "crashed" /\ cbUndefined' = TRUE
             /\ UNCHANGED <<cbOpened, cbPorts, cbLatency, cbFrames, cbXrun, cbOut, cbSteps, cbListeners>>
    BY <1>1, <1>a, <2>2 DEF coreaudio_driver_new
  <2>3. ASSUME NEW d \in CoreDevice,
               cbAsk.in <= TotalChannels(d).in, cbAsk.out <= TotalChannels(d).out,
               Opens(OfBoth(d, d), OfBoth(OrAll(cbAsk.in, TotalChannels(d).in), OrAll(cbAsk.out, TotalChannels(d).out)))
        PROVE  CallbackIInv'
    <3>1. /\ DeviceHas(cbDevices'.in, "in", cbChannels'.in)
          /\ DeviceHas(cbDevices'.out, "out", cbChannels'.out)
          /\ cbChannels'.in \in Nat /\ cbChannels'.out \in Nat
      BY <2>3, CoreDeviceHas DEF Opens, OfBoth
    <3>2. QED
      BY <1>1, <1>a, <2>3, <3>1 DEF coreaudio_driver_new, Opens
  <2>4. QED
    BY <1>1, <2>1, <2>2, <2>3 DEF coreaudio_driver_new
<1>2. CASE portaudio_driver_new
  <2>1. CASE NewFails /\ UNCHANGED <<cbListeners, cbUndefined>>
    BY <1>2, <1>a, <2>1 DEF portaudio_driver_new, NewFails
  <2>2. ASSUME NEW channels,
               channels = OfBoth(Trimmed(cbAsk.in, Found.channels.in), Trimmed(cbAsk.out, Found.channels.out)),
               Opens(WithDevice(channels, Found.devices), channels)
        PROVE  CallbackIInv'
    <3>1. /\ DeviceHas(cbDevices'.in, "in", cbChannels'.in)
          /\ DeviceHas(cbDevices'.out, "out", cbChannels'.out)
          /\ cbChannels'.in \in Nat /\ cbChannels'.out \in Nat
      BY <1>2, <2>2, PortDeviceHas DEF Opens, portaudio_driver_new
    <3>2. QED
      BY <1>2, <1>a, <2>2, <3>1 DEF portaudio_driver_new, Opens
  <2>3. QED
    BY <1>2, <2>1, <2>2 DEF portaudio_driver_new
<1>3. CASE CallbackRefused
  BY <1>3, <1>a DEF CallbackRefused
<1>4. CASE coreaudio_driver_attach
  BY <1>4, <1>a DEF coreaudio_driver_attach, Registers, OfBoth
<1>5. CASE portaudio_driver_attach
  BY <1>5, <1>a DEF portaudio_driver_attach, Registers, OfBoth
<1>6. CASE CallbackStarts
  BY <1>6, <1>a DEF CallbackStarts, Phases
<1>7. CASE CallbackStops
  BY <1>7, <1>a DEF CallbackStops, Phases
<1>8. CASE render
  <2>1. /\ ~cbXrun'
        /\ cbOut' = "stale" => cbXrun
        /\ cbPhase' = "crashed" => cbPorts.out < cbChannels.out /\ cbPhase = "running"
        /\ cbPhase' \in {"crashed", "running"} /\ cbPhase = "running"
        /\ UNCHANGED <<cbFixed, cbOpened, cbPorts, cbFrames, cbListeners, cbSteps>>
    BY <1>8 DEF render
  <2>2. cbUndefined' <=> cbUndefined
    BY <1>8 DEF render
  <2>3. cbPhase' = "crashed" => "port" \in cbSteps
    BY <2>1
  <2>4. QED
    BY <1>a, <2>1, <2>2, <2>3
<1>9. CASE render_input
  BY <1>9, <1>a DEF render_input
<1>10. CASE paCallback
  BY <1>10, <1>a DEF paCallback
<1>11. CASE Overloads
  <2>1. /\ cbUndefined' <=> cbUndefined \/ cbPhase \in {"deleted", "refused"}
        /\ cbSteps' = cbSteps \cup {"overload"} /\ "overload" \in cbListeners
        /\ UNCHANGED <<cbFixed, cbPhase, cbOpened, cbPorts, cbFrames, cbListeners, cbOut>>
        /\ cbPhase # "closed"
    BY <1>11 DEF Overloads
  <2>2. QED
    BY <1>a, <2>1 DEF CallbackTypeOK
<1>12. CASE RateChanges
  <2>1. /\ cbUndefined' <=> cbUndefined \/ cbPhase = "deleted"
        /\ "rate" \in cbListeners
        /\ UNCHANGED <<cbFixed, cbPhase, cbDevices, cbChannels, cbStream, cbPorts, cbFrames,
                       cbListeners, cbOut, cbSteps>>
    BY <1>12 DEF RateChanges
  <2>2. cbXrun' <=> cbXrun
    BY <1>12 DEF RateChanges
  <2>3. QED
    BY <1>a, <2>1, <2>2 DEF CallbackTypeOK
<1>13. CASE coreaudio_driver_bufsize
  BY <1>13, <1>a DEF coreaudio_driver_bufsize, Phases
<1>14. CASE portaudio_driver_bufsize
  BY <1>14, <1>a DEF portaudio_driver_bufsize, SetFrames
<1>15. CASE CallbackDetaches
  BY <1>15, <1>a DEF CallbackDetaches
<1>16. CASE CallbackDeletes
  BY <1>16, <1>a DEF CallbackDeletes
<1>17. CASE UNCHANGED cbVars
  BY <1>17, <1>a DEF CallbackTypeOK
<1>18. QED
  BY <1>1, <1>2, <1>3, <1>4, <1>5, <1>6, <1>7, <1>8, <1>9, <1>10, <1>11, <1>12, <1>13, <1>14,
     <1>15, <1>16, <1>17
  DEF CallbackNext

\* What devices whose sound system calls the driver are opened as and handed, for
\* all devices, requests and period sizes, and any order of callbacks, notifications,
\* changes and failures: a device has the channels it is used with, its buffer is
\* filled but after an overload, a crash needs a port that was not registered, and
\* memory and streams are used after their end only in the two ways that are named.
THEOREM DevicesAreHandedSound == CallbackSpec => []CallbackInv
<1>1. CallbackIInv => CallbackInv
  <2>1. OpenAsAsked /\ EngineAgrees /\ EngineRefusedChange => AsOpened
    BY DEF OpenAsAsked, EngineAgrees, EngineRefusedChange, AsOpened
  <2>2. EngineAgrees => ChangeIsTold
    BY DEF EngineAgrees, ChangeIsTold
  <2>3. QED
    BY <2>1, <2>2 DEF CallbackIInv, CallbackInv
<1>2. QED
  BY <1>1, CallbackStarting, CallbackStep, PTL DEF CallbackSpec

------------------------------------------------------------------------------
(***************************************************************************)
(* The network driver and its packet cache.  First: a finite set of        *)
(* numbers has a least and a greatest, so that the cache finds what it     *)
(* looks for: as many are smaller than one as than no other, and these     *)
(* counts are 0, 1, ...                                                    *)
(***************************************************************************)
LEMMA LeastExists ==
    ASSUME NEW T \in SUBSET Int, IsFiniteSet(T), T # {}
    PROVE  \E x \in T : \A y \in T : x <= y
<1> DEFINE P(x) == {y \in T : y < x}
           size == Cardinality(T)
           f == [x \in T |-> Cardinality(P(x))]
<1>1. size \in Nat /\ size > 0
  BY FS_CardinalityType, FS_EmptySet
<1>2. ASSUME NEW U \in SUBSET T PROVE IsFiniteSet(U) /\ Cardinality(U) \in Nat
  BY FS_Subset, FS_CardinalityType
<1>3. ASSUME NEW x \in T PROVE Cardinality(P(x)) \in 0 .. (size - 1)
  <2>1. P(x) \in SUBSET (T \ {x})
    OBVIOUS
  <2>2. IsFiniteSet(T \ {x}) /\ Cardinality(T \ {x}) = size - 1
    BY FS_RemoveElement
  <2> HIDE DEF P
  <2>3. IsFiniteSet(P(x)) /\ Cardinality(P(x)) <= size - 1
    BY <2>1, <2>2, FS_Subset
  <2>4. Cardinality(P(x)) \in Nat
    BY <2>3, FS_CardinalityType
  <2> HIDE DEF size
  <2>5. QED
    BY <1>1, <2>3, <2>4
<1>4. ASSUME NEW x \in T, NEW y \in T, x < y PROVE Cardinality(P(x)) # Cardinality(P(y))
  <2>0. x \in Int /\ y \in Int /\ \A z \in T : z \in Int
    OBVIOUS
  <2>a. \A z \in T : z < x => z < y
    BY <1>4, <2>0
  <2>1. x \notin P(x) /\ P(x) \cup {x} \in SUBSET P(y)
    <3>1. x \notin P(x)
      BY <2>0
    <3>2. x \in P(y)
      BY <1>4
    <3>3. P(x) \subseteq P(y)
      BY <2>a
    <3> HIDE DEF P
    <3>4. QED
      BY <3>1, <3>2, <3>3
  <2>2. IsFiniteSet(P(x)) /\ IsFiniteSet(P(y))
    BY <1>2
  <2> HIDE DEF P
  <2>3. Cardinality(P(x) \cup {x}) = Cardinality(P(x)) + 1
    BY <2>1, <2>2, FS_AddElement
  <2>4. Cardinality(P(x) \cup {x}) <= Cardinality(P(y))
    BY <2>1, <2>2, FS_Subset
  <2>5. Cardinality(P(x)) \in Nat /\ Cardinality(P(y)) \in Nat
    BY <2>2, FS_CardinalityType
  <2>6. QED
    BY <2>3, <2>4, <2>5
<1>5. f \in Injection(T, 0 .. (size - 1))
  <2>1. f \in [T -> 0 .. (size - 1)]
    BY <1>3
  <2>2. ASSUME NEW x \in T, NEW y \in T, f[x] = f[y] PROVE x = y
    <3>1. ~(x < y) /\ ~(y < x)
      BY <1>4, <2>2
    <3>2. QED
      BY <3>1
  <2> HIDE DEF f
  <2>3. QED
    BY <2>1, <2>2 DEF Injection, IsInjective
<1>6. PICK x \in T : Cardinality(P(x)) = 0
  <2>1. IsFiniteSet(0 .. (size - 1)) /\ Cardinality(0 .. (size - 1)) = size
    <3> HIDE DEF size
    <3>1. QED
      BY <1>1, FS_Interval
  <2>2. f \in Surjection(T, 0 .. (size - 1))
    <3> HIDE DEF f
    <3>1. QED
      BY <1>5, <2>1, FS_Injection
  <2>3. \A n \in 0 .. (size - 1) : \E x \in T : f[x] = n
    BY <2>2 DEF Surjection
  <2>4. 0 \in 0 .. (size - 1)
    <3> HIDE DEF size
    <3>1. QED
      BY <1>1
  <2>5. QED
    BY <2>3, <2>4
<1>7. P(x) = {}
  <2>1. P(x) \in SUBSET T
    OBVIOUS
  <2> HIDE DEF P
  <2>2. IsFiniteSet(P(x))
    BY <1>2, <2>1
  <2>3. QED
    BY <1>6, <2>2, FS_EmptySet
<1>8. QED
  BY <1>7

LEMMA MinOfBounded ==
    ASSUME NEW a \in Int, NEW b \in Int, NEW T \in SUBSET (a .. b), T # {}
    PROVE  Min(T) \in T /\ \A y \in T : Min(T) <= y
<1>1. IsFiniteSet(T)
  BY FS_Interval, FS_Subset
<1>2. T \in SUBSET Int
  OBVIOUS
<1>3. QED
  BY <1>1, <1>2, LeastExists DEF Min

LEMMA MaxOfBounded ==
    ASSUME NEW a \in Int, NEW b \in Int, NEW T \in SUBSET (a .. b), T # {}
    PROVE  Max(T) \in T /\ \A y \in T : y <= Max(T)
<1> DEFINE U == {- x : x \in T}
<1>1. U \in SUBSET (- b .. - a) /\ U # {}
  <2>1. \A x \in T : - x \in - b .. - a
    <3>1. \A x \in a .. b : - x \in - b .. - a
      OBVIOUS
    <3>2. QED
      BY <3>1
  <2>2. QED
    BY <2>1
<1>2. \A y \in U : - y \in T
  OBVIOUS
<1>3. PICK u \in U : \A y \in U : u <= y
  <2> HIDE DEF U
  <2>1. - b \in Int /\ - a \in Int
    OBVIOUS
  <2>2. QED
    BY <1>1, <2>1, MinOfBounded
<1>4. - u \in T /\ \A y \in T : y <= - u
  BY <1>1, <1>2, <1>3
<1>5. QED
  BY <1>4 DEF Max

\* What the invariants of NetInv need besides.  A frame the driver has found is one
\* that a master sends; the buffer it reads from stays as it was found until it is
\* read; and what is valid in the cache lies ahead of what was read.
FrameIsReal ==
    /\ have_frame => net_phase = "waiting"
    /\ net_phase # "idle" => expected # None
    /\ have_frame \/ (net_phase = "ready" /\ packet_data_valid) => expected \in NetFrames

BufferIsHeld ==
    net_phase = "ready" /\ packet_data_valid /\ ~overrun =>
        /\ rx_buf \in CacheSlots
        /\ packets[rx_buf].valid /\ packets[rx_buf].framecnt = expected
        /\ \A i \in Fragments : packets[rx_buf].got[i] # NoMaster
        /\ last_retreived = expected

PacketsAhead ==
    ~overrun =>
        /\ \A s \in CacheSlots : packets[s].valid => packets[s].framecnt > played
        /\ played <= last_retreived

\* BOOLEAN variables apart from the rest of the type.
NetIInv == NetTypeOK /\ OneSlotAFrame /\ FrameIsReal /\ BufferIsHeld /\ PacketsAhead

LEMMA NetNumbers ==
    /\ CacheSize \in Nat \ {0} /\ NumFragments \in Nat \ {0}
    /\ MaxFrame \in Nat /\ MaxExpected \in Nat /\ MaxFrame <= MaxExpected
    /\ ResyncAt \in Nat /\ LostMany \in Nat /\ LostAll \in Nat
    /\ NetFrames = 0 .. MaxFrame /\ CacheSlots = 1 .. CacheSize /\ None = -1
BY NetAssumption DEF NetFrames, CacheSlots, None

LEMMA CompleteFrames ==
    ASSUME NetTypeOK
    PROVE  /\ FramesOf(CompletePackets) \in SUBSET NetFrames
           /\ FramesOf(CacheSlots) \in SUBSET NetFrames /\ FramesOf(CacheSlots) # {}
           /\ CompletePackets \subseteq CacheSlots
<1>1. packets \in [CacheSlots -> Slot]
  BY DEF NetTypeOK
<1>2. \A s \in CacheSlots : packets[s].framecnt \in NetFrames
  BY <1>1 DEF Slot
<1>3. 1 \in CacheSlots
  BY NetNumbers
<1>4. QED
  BY <1>2, <1>3 DEF FramesOf, CompletePackets

\* A frame that is looked for is None or one of a whole packet.
LEMMA AvailableFrames ==
    ASSUME NetTypeOK
    PROVE  /\ NextAvailable \in NetFrames \cup {None} /\ HighestAvailable \in NetFrames \cup {None}
           /\ NextAvailable # None => NextAvailable \in FramesOf(CompletePackets)
           /\ NextAvailable # None => NextAvailable >= expected
           /\ HighestAvailable # None => HighestAvailable \in FramesOf(CompletePackets)
<1> DEFINE F == {f \in FramesOf(CompletePackets) : f >= expected}
<1>1. FramesOf(CompletePackets) \in SUBSET (0 .. MaxFrame) /\ 0 \in Int /\ MaxFrame \in Int
  BY CompleteFrames, NetNumbers
<1>2. /\ HighestAvailable \in NetFrames \cup {None}
      /\ HighestAvailable # None => HighestAvailable \in FramesOf(CompletePackets)
  <2>1. CASE CompletePackets = {}
    BY <2>1 DEF HighestAvailable
  <2>2. CASE CompletePackets # {}
    <3>1. FramesOf(CompletePackets) # {}
      BY <2>2 DEF FramesOf
    <3>2. Max(FramesOf(CompletePackets)) \in FramesOf(CompletePackets)
      BY <1>1, <3>1, MaxOfBounded
    <3>3. QED
      BY <1>1, <2>2, <3>2, NetNumbers DEF HighestAvailable
  <2>3. QED
    BY <2>1, <2>2
<1>3. NextAvailable \in NetFrames \cup {None}
      /\ (NextAvailable # None => NextAvailable \in FramesOf(CompletePackets) /\ NextAvailable >= expected)
  <2>1. CASE F = {}
    BY <2>1 DEF NextAvailable
  <2>2. CASE F # {}
    <3>1. F \in SUBSET (0 .. MaxFrame)
      BY <1>1
    <3>2. Min(F) \in F
      <4> HIDE DEF F
      <4>1. QED
        BY <1>1, <2>2, <3>1, MinOfBounded
    <3>3. NextAvailable = Min(F)
      BY <2>2 DEF NextAvailable
    <3>4. QED
      BY <1>1, <3>2, <3>3, NetNumbers
  <2>3. QED
    BY <2>1, <2>2
<1>4. QED
  BY <1>2, <1>3

LEMMA FirstOfSlots ==
    ASSUME NEW S \in SUBSET CacheSlots, S # {}
    PROVE  First(S) \in S
<1>1. S \in SUBSET (1 .. CacheSize) /\ 1 \in Int /\ CacheSize \in Int
  BY NetNumbers
<1>2. QED
  BY <1>1, MinOfBounded DEF First

\* The slot of a frame: one that has it, or one to give it to when none has.
LEMMA SlotIsFound ==
    ASSUME NetTypeOK, NEW f \in NetFrames
    PROVE  /\ packet_cache_get_packet(f) \in CacheSlots
           /\ \/ /\ packets[packet_cache_get_packet(f)].valid
                 /\ packets[packet_cache_get_packet(f)].framecnt = f
              \/ \A z \in CacheSlots : ~(packets[z].valid /\ packets[z].framecnt = f)
<1> DEFINE same == {s \in CacheSlots : packets[s].valid /\ packets[s].framecnt = f}
           free == {s \in CacheSlots : ~packets[s].valid}
           old == Min(FramesOf(CacheSlots))
           oldest == {s \in CacheSlots : packets[s].framecnt = old}
<1>1. CASE same # {}
  <2>1. packet_cache_get_packet(f) = First(same)
    BY <1>1 DEF packet_cache_get_packet
  <2>2. First(same) \in same
    BY <1>1, FirstOfSlots
  <2>3. QED
    BY <2>1, <2>2
<1>2. CASE same = {} /\ free # {}
  <2>1. packet_cache_get_packet(f) = First(free)
    BY <1>2 DEF packet_cache_get_packet
  <2>2. First(free) \in free
    BY <1>2, FirstOfSlots
  <2>3. QED
    BY <1>2, <2>1, <2>2
<1>3. CASE same = {} /\ free = {}
  <2>1. packet_cache_get_packet(f) = First(oldest)
    BY <1>3 DEF packet_cache_get_packet
  <2>2. old \in FramesOf(CacheSlots)
    <3>1. FramesOf(CacheSlots) \in SUBSET (0 .. MaxFrame) /\ FramesOf(CacheSlots) # {}
          /\ 0 \in Int /\ MaxFrame \in Int
      BY CompleteFrames, NetNumbers
    <3>2. QED
      BY <3>1, MinOfBounded
  <2>3. oldest # {}
    BY <2>2 DEF FramesOf
  <2>4. First(oldest) \in oldest
    BY <2>3, FirstOfSlots
  <2>5. QED
    BY <1>3, <2>1, <2>4
<1>4. QED
  BY <1>1, <1>2, <1>3

\* A whole packet of a frame is what SlotOf finds.
LEMMA SlotOfIsWhole ==
    ASSUME NetTypeOK, OneSlotAFrame, NEW f \in FramesOf(CompletePackets)
    PROVE  /\ SlotOf(f) \in CacheSlots
           /\ packets[SlotOf(f)].valid /\ packets[SlotOf(f)].framecnt = f
           /\ \A i \in Fragments : packets[SlotOf(f)].got[i] # NoMaster
<1> DEFINE S == {s \in CacheSlots : packets[s].valid /\ packets[s].framecnt = f}
<1>1. PICK s \in CompletePackets : packets[s].framecnt = f
  BY DEF FramesOf
<1>2. s \in CacheSlots /\ packets[s].valid /\ \A i \in Fragments : packets[s].got[i] # NoMaster
  BY <1>1 DEF CompletePackets, cache_packet_is_complete
<1>3. S # {}
  BY <1>1, <1>2
<1>4. SlotOf(f) = First(S)
  BY DEF SlotOf
<1>5. First(S) \in S
  BY <1>3, FirstOfSlots
<1>6. First(S) = s
  BY <1>1, <1>2, <1>5 DEF OneSlotAFrame
<1>7. QED
  BY <1>2, <1>4, <1>5, <1>6

LEMMA NetStarting == NetInit => NetIInv
<1> SUFFICES ASSUME NetInit PROVE NetIInv
  OBVIOUS
<1>1. EmptySlot \in Slot /\ ~EmptySlot.valid
  BY NetNumbers DEF EmptySlot, Slot
<1>2. ~have_frame /\ ~packet_data_valid /\ net_phase = "idle"
  BY DEF NetInit
<1>3. packets = [s \in CacheSlots |-> EmptySlot] /\ last_retreived = None /\ played = None
  BY DEF NetInit
<1>4. NetTypeOK
  BY <1>1, NetNumbers DEF NetInit, NetTypeOK
<1>5. OneSlotAFrame
  BY <1>1, <1>3 DEF OneSlotAFrame
<1>6. FrameIsReal /\ BufferIsHeld
  BY <1>2 DEF FrameIsReal, BufferIsHeld
<1>7. PacketsAhead
  BY <1>1, <1>3, NetNumbers DEF PacketsAhead
<1>8. QED
  BY <1>4, <1>5, <1>6, <1>7 DEF NetIInv

\* A datagram: the frame is later than all that was read from this master, or it
\* changes nothing.
LEMMA ArrivesStep ==
    ASSUME NetIInv, NEW m \in Masters, NEW f \in NetFrames, NEW i \in Fragments, Arrives(m, f, i)
    PROVE  NetIInv'
<1> DEFINE s == packet_cache_get_packet(f)
<1> USE DEF netj
<1>t. /\ packets \in [CacheSlots -> Slot] /\ last_retreived \in NetFrames \cup {None}
      /\ played \in NetFrames \cup {None}
  BY DEF NetIInv, NetTypeOK
<1>1. /\ net_phase = "waiting" /\ net_phase' = "waiting"
      /\ UNCHANGED <<sent, last_retreived, expected, rx_buf, num_lost_packets, srcaddress, played>>
      /\ master_address' = m
      /\ have_frame' => have_frame
      /\ overrun' <=> overrun
  BY DEF Arrives
<1>2. FrameIsReal' /\ BufferIsHeld'
  BY <1>1 DEF NetIInv, FrameIsReal, BufferIsHeld
<1>3. CASE packets' = packets
  BY <1>1, <1>2, <1>3 DEF NetIInv, NetTypeOK, OneSlotAFrame, PacketsAhead
<1>4. CASE ~TooLate(f) /\ packets' = [packets EXCEPT ![s] = [Named(packets[s], f) EXCEPT !.got[i] = m]]
  <2> DEFINE p == [Named(packets[s], f) EXCEPT !.got[i] = m]
  <2>1. /\ s \in CacheSlots
        /\ \/ packets[s].valid /\ packets[s].framecnt = f
           \/ \A z \in CacheSlots : ~(packets[z].valid /\ packets[z].framecnt = f)
    BY SlotIsFound DEF NetIInv
  <2> HIDE DEF s
  <2>2. p \in Slot /\ p.valid /\ p.framecnt = f
    <3>1. packets[s] \in Slot
      BY <1>t, <2>1
    <3>2. /\ Named(packets[s], f) \in Slot /\ Named(packets[s], f).valid
          /\ Named(packets[s], f).framecnt = f
      BY <3>1 DEF Named, Slot, EmptySlot
    <3>3. QED
      BY <3>2 DEF Slot
  <2> HIDE DEF p
  <2>3. packets' = [packets EXCEPT ![s] = p]
    BY <1>4 DEF p
  <2>4. NetTypeOK'
    BY <1>1, <1>t, <2>1, <2>2, <2>3 DEF NetIInv, NetTypeOK
  <2>5. OneSlotAFrame'
    BY <1>t, <2>1, <2>2, <2>3 DEF NetIInv, OneSlotAFrame
  <2>6. PacketsAhead'
    <3> SUFFICES ASSUME ~overrun' PROVE PacketsAhead'
      BY DEF PacketsAhead
    <3>1. /\ \A z \in CacheSlots : packets[z].valid => packets[z].framecnt > played
          /\ played <= last_retreived
      BY <1>1 DEF NetIInv, PacketsAhead
    <3>2. f > last_retreived
      BY <1>4, <1>t, NetNumbers DEF TooLate
    <3>3. f > played
      BY <1>t, <3>1, <3>2, NetNumbers
    <3>4. QED
      BY <1>1, <1>t, <2>1, <2>2, <2>3, <3>1, <3>3 DEF PacketsAhead
  <2>7. QED
    BY <1>2, <2>4, <2>5, <2>6 DEF NetIInv
<1>5. QED
  BY <1>3, <1>4 DEF Arrives

\* The end of a wait that found a packet: one that is whole, or one that was thrown
\* out since it was seen.
LEMMA RetreivesStep ==
    ASSUME NetIInv, NEW f \in NetFrames, Ends, Retreives(f),
           srcaddress' = Answers, UNCHANGED <<master_address, played>>
    PROVE  NetIInv'
<1>t. /\ packets \in [CacheSlots -> Slot] /\ last_retreived \in NetFrames \cup {None}
      /\ played \in NetFrames \cup {None}
      /\ {master_address, srcaddress} \subseteq Masters \cup {NoMaster}
  BY DEF NetIInv, NetTypeOK
<1>1. /\ net_phase' = "ready" /\ ~have_frame' /\ UNCHANGED <<sent, packets>>
      /\ expected' = f /\ num_lost_packets' = 0
  BY DEF Ends, Retreives
<1>2. \/ /\ f \in FramesOf(CompletePackets) /\ rx_buf' = SlotOf(f) /\ last_retreived' = f
         /\ overrun' <=> overrun
      \/ UNCHANGED <<rx_buf, last_retreived>> /\ overrun'
  BY DEF Retreives
<1>3. f \in FramesOf(CompletePackets) =>
         /\ SlotOf(f) \in CacheSlots
         /\ packets[SlotOf(f)].valid /\ packets[SlotOf(f)].framecnt = f
         /\ \A i \in Fragments : packets[SlotOf(f)].got[i] # NoMaster
  BY SlotOfIsWhole DEF NetIInv
<1>4. NetTypeOK'
  <2>1. srcaddress' \in Masters \cup {NoMaster}
    BY <1>t DEF Answers
  <2>2. f \in 0 .. MaxExpected
    BY NetNumbers
  <2>3. QED
    BY <1>t, <1>1, <1>2, <1>3, <2>1, <2>2, NetNumbers DEF NetIInv, NetTypeOK
<1>5. OneSlotAFrame' /\ FrameIsReal'
  BY <1>1, NetNumbers DEF NetIInv, OneSlotAFrame, FrameIsReal
<1>6. BufferIsHeld'
  BY <1>1, <1>2, <1>3 DEF BufferIsHeld
<1>7. PacketsAhead'
  <2> SUFFICES ASSUME ~overrun' PROVE PacketsAhead'
    BY DEF PacketsAhead
  <2>1. f \in FramesOf(CompletePackets) /\ ~overrun /\ last_retreived' = f
    BY <1>2
  <2>2. \A z \in CacheSlots : packets[z].valid => packets[z].framecnt > played
    BY <2>1 DEF NetIInv, PacketsAhead
  <2>3. f > played
    BY <1>3, <2>1, <2>2
  <2>4. played <= f
    BY <1>t, <2>3, NetNumbers
  <2>5. QED
    BY <1>1, <2>1, <2>2, <2>4 DEF PacketsAhead
<1>8. QED
  BY <1>4, <1>5, <1>6, <1>7 DEF NetIInv

LEMMA WaitLosesStep ==
    ASSUME NetIInv, WaitLoses
    PROVE  NetIInv'
<1>t. /\ packets \in [CacheSlots -> Slot] /\ last_retreived \in NetFrames \cup {None}
      /\ played \in NetFrames \cup {None} /\ num_lost_packets \in 0 .. LostAll + 1
      /\ {master_address, srcaddress} \subseteq Masters \cup {NoMaster}
  BY DEF NetIInv, NetTypeOK
<1>1. /\ net_phase' = "ready" /\ ~have_frame' /\ ~packet_data_valid'
      /\ UNCHANGED <<sent, packets, expected, rx_buf>> /\ (overrun' <=> overrun)
      /\ num_lost_packets' = IF num_lost_packets > LostAll THEN num_lost_packets
                             ELSE num_lost_packets + 1
  BY DEF WaitLoses, Ends, Loses
<1>2. \/ /\ srcaddress' = NoMaster /\ master_address' = NoMaster
         /\ last_retreived' = None /\ played' = None
      \/ /\ srcaddress' = Answers /\ UNCHANGED <<master_address, last_retreived, played>>
  BY DEF WaitLoses
<1>3. num_lost_packets' \in 0 .. LostAll + 1
  BY <1>1, <1>t, NetNumbers
<1>4. srcaddress' \in Masters \cup {NoMaster}
  BY <1>2, <1>t DEF Answers
<1>5. NetTypeOK'
  BY <1>t, <1>1, <1>2, <1>3, <1>4 DEF NetIInv, NetTypeOK
<1>w. net_phase = "waiting"
  BY DEF WaitLoses, Ends
<1>6. OneSlotAFrame' /\ FrameIsReal' /\ BufferIsHeld'
  BY <1>1, <1>w DEF NetIInv, OneSlotAFrame, FrameIsReal, BufferIsHeld
<1>7. PacketsAhead'
  <2>1. \A s \in CacheSlots : packets[s].framecnt \in 0 .. MaxFrame
    BY <1>t, NetNumbers DEF Slot
  <2>2. QED
    BY <1>1, <1>2, <2>1, NetNumbers DEF NetIInv, PacketsAhead
<1>8. QED
  BY <1>5, <1>6, <1>7 DEF NetIInv

\* Reading releases the packet and all older ones.
LEMMA ReadsStep ==
    ASSUME NetIInv, Reads
    PROVE  NetIInv'
<1>t. /\ packets \in [CacheSlots -> Slot] /\ last_retreived \in NetFrames \cup {None}
      /\ played \in NetFrames \cup {None}
  BY DEF NetIInv, NetTypeOK
<1>1. /\ net_phase = "ready" /\ net_phase' = "idle"
      /\ UNCHANGED <<sent, master_address, last_retreived, expected, rx_buf, num_lost_packets,
                     srcaddress>>
      /\ (overrun' <=> overrun) /\ (have_frame' => have_frame)
  BY DEF Reads
<1>2. ~have_frame'
  BY <1>1 DEF NetIInv, FrameIsReal
<1>3. FrameIsReal' /\ BufferIsHeld'
  BY <1>1, <1>2 DEF FrameIsReal, BufferIsHeld
<1>4. CASE ~packet_data_valid
  <2>1. UNCHANGED <<packets, played>>
    BY <1>4 DEF Reads
  <2>2. QED
    BY <1>1, <1>3, <2>1 DEF NetIInv, NetTypeOK, OneSlotAFrame, PacketsAhead
<1>5. CASE packet_data_valid
  <2>1. packets' = packet_cache_release_packet(expected) /\ played' = expected
    BY <1>5 DEF Reads
  <2>2. expected \in NetFrames
    BY <1>1, <1>5 DEF NetIInv, FrameIsReal
  <2>3. packets' \in [CacheSlots -> Slot]
        /\ \A s \in CacheSlots : packets'[s].valid =>
              packets[s].valid /\ packets'[s].framecnt = packets[s].framecnt
    <3>1. \A s \in CacheSlots : /\ packets[s] \in Slot /\ Reset(packets[s]) \in Slot
                                /\ ~Reset(packets[s]).valid
      BY <1>t DEF Slot, Reset, EmptySlot
    <3>2. \A s \in CacheSlots : packets'[s] \in {packets[s], Reset(packets[s])}
      BY <1>t, <2>1 DEF packet_cache_release_packet
    <3>3. packets' = [s \in CacheSlots |-> packets'[s]]
      BY <1>t, <2>1 DEF packet_cache_release_packet
    <3>4. QED
      BY <3>1, <3>2, <3>3
  <2>4. NetTypeOK'
    BY <1>1, <2>1, <2>2, <2>3 DEF NetIInv, NetTypeOK
  <2>5. OneSlotAFrame'
    BY <2>3 DEF NetIInv, OneSlotAFrame
  <2>6. PacketsAhead'
    <3> SUFFICES ASSUME ~overrun PROVE PacketsAhead'
      BY <1>1 DEF PacketsAhead
    <3>1. /\ rx_buf \in CacheSlots
          /\ packets[rx_buf].valid /\ packets[rx_buf].framecnt = expected
          /\ \A i \in Fragments : packets[rx_buf].got[i] # NoMaster
          /\ last_retreived = expected
      BY <1>1, <1>5 DEF NetIInv, BufferIsHeld
    <3>2. expected \in FramesOf(CompletePackets)
      BY <3>1 DEF FramesOf, CompletePackets, cache_packet_is_complete
    <3>3. packets' = [s \in CacheSlots |->
                         IF packets[s].valid /\ packets[s].framecnt <= expected
                         THEN Reset(packets[s]) ELSE packets[s]]
      BY <2>1, <3>2 DEF packet_cache_release_packet
    <3>4. \A s \in CacheSlots : packets'[s].valid => packets'[s].framecnt > expected
      <4>1. \A s \in CacheSlots : ~Reset(packets[s]).valid /\ packets[s].framecnt \in 0 .. MaxFrame
        BY <1>t, NetNumbers DEF Slot, Reset, EmptySlot
      <4>2. QED
        BY <2>2, <3>3, <4>1, NetNumbers
    <3>5. played' <= last_retreived'
      BY <1>1, <2>1, <2>2, <3>1, NetNumbers
    <3>6. QED
      BY <2>1, <3>4, <3>5 DEF PacketsAhead
  <2>7. QED
    BY <1>3, <2>4, <2>5, <2>6 DEF NetIInv
<1>6. QED
  BY <1>4, <1>5

LEMMA NetStep == NetIInv /\ [NetNext]_netVars => NetIInv'
<1> SUFFICES ASSUME NetIInv, [NetNext]_netVars PROVE NetIInv'
  OBVIOUS
<1>t. NetTypeOK
  BY DEF NetIInv
<1>1. ASSUME NEW m \in Masters, MasterSends(m) PROVE NetIInv'
  <2>1. /\ sent' = [sent EXCEPT ![m] = sent[m] + 1] /\ sent[m] <= MaxFrame
        /\ UNCHANGED <<packets, master_address, last_retreived, expected, rx_buf, num_lost_packets,
                       srcaddress, net_phase, played>>
        /\ (have_frame' => have_frame) /\ (overrun' <=> overrun)
        /\ (packet_data_valid' <=> packet_data_valid)
    BY <1>1 DEF MasterSends, netj
  <2>2. have_frame' <=> have_frame
    BY <1>1 DEF MasterSends, netj
  <2>3. sent' \in [Masters -> 0 .. MaxFrame + 1]
    BY <1>t, <2>1, NetNumbers DEF NetTypeOK
  <2>4. QED
    BY <2>1, <2>2, <2>3
    DEF NetIInv, NetTypeOK, OneSlotAFrame, FrameIsReal, BufferIsHeld, PacketsAhead
<1>2. ASSUME NEW m \in Masters, NEW f \in NetFrames, NEW i \in Fragments, Arrives(m, f, i)
      PROVE  NetIInv'
  BY <1>2, ArrivesStep
<1>3. CASE WaitBegins
  <2>1. /\ net_phase' = "waiting" /\ ~have_frame'
        /\ UNCHANGED <<sent, packets, master_address, last_retreived, rx_buf, num_lost_packets,
                       srcaddress, played>>
        /\ (overrun' <=> overrun)
    BY <1>3 DEF WaitBegins
  <2>2. expected' \in 0 .. MaxExpected /\ expected' # None
    <3>1. HighestAvailable \in NetFrames \cup {None}
      BY <1>t, AvailableFrames
    <3>2. expected < MaxExpected /\ expected \in 0 .. MaxExpected \cup {None}
      BY <1>3, <1>t DEF WaitBegins, NetTypeOK
    <3>3. expected' = IF expected # None THEN expected + 1
                      ELSE IF HighestAvailable = None THEN 0 ELSE HighestAvailable
      BY <1>3 DEF WaitBegins
    <3>4. QED
      BY <3>1, <3>2, <3>3, NetNumbers
  <2>3. QED
    BY <2>1, <2>2 DEF NetIInv, NetTypeOK, OneSlotAFrame, FrameIsReal, BufferIsHeld, PacketsAhead
<1>4. CASE SeesFrame
  <2>1. /\ net_phase = "waiting" /\ net_phase' = "waiting" /\ NextAvailable = expected
        /\ UNCHANGED <<sent, packets, master_address, last_retreived, expected, rx_buf,
                       num_lost_packets, srcaddress, played>>
        /\ (overrun' <=> overrun)
    BY <1>4 DEF SeesFrame
  <2>2. expected \in NetFrames
    BY <1>t, <2>1, AvailableFrames DEF NetIInv, FrameIsReal
  <2>3. QED
    BY <2>1, <2>2 DEF NetIInv, NetTypeOK, OneSlotAFrame, FrameIsReal, BufferIsHeld, PacketsAhead
<1>5. CASE WaitFinds
  <2>1. expected \in NetFrames
    <3>1. CASE have_frame
      BY <3>1 DEF NetIInv, FrameIsReal
    <3>2. CASE NextAvailable = expected
      BY <1>5, <1>t, <3>2, AvailableFrames DEF WaitFinds, Ends, NetIInv, FrameIsReal
    <3>3. QED
      BY <1>5, <3>1, <3>2 DEF WaitFinds
  <2>2. PICK f \in NetFrames : f = expected
    BY <2>1
  <2>3. Retreives(f)
    BY <1>5, <2>2 DEF WaitFinds, Retreives
  <2>4. QED
    BY <1>5, <2>2, <2>3, RetreivesStep DEF WaitFinds
<1>6. CASE WaitJumps
  <2>1. NextAvailable \in NetFrames
    BY <1>6, <1>t, AvailableFrames, NetNumbers DEF WaitJumps, NetTypeOK
  <2>2. PICK f \in NetFrames : f = NextAvailable
    BY <2>1
  <2>3. Retreives(f)
    BY <1>6, <2>2 DEF WaitJumps, Retreives
  <2>4. QED
    BY <1>6, <2>2, <2>3, RetreivesStep DEF WaitJumps
<1>7. CASE WaitLoses
  BY <1>7, WaitLosesStep
<1>8. CASE WaitResyncs
  <2>1. HighestAvailable \in NetFrames
    BY <1>8, <1>t, AvailableFrames DEF WaitResyncs
  <2>2. PICK f \in NetFrames : f = HighestAvailable
    BY <2>1
  <2>3. Retreives(f)
    BY <1>8, <2>2 DEF WaitResyncs, Retreives
  <2>4. QED
    BY <1>8, <2>2, <2>3, RetreivesStep DEF WaitResyncs
<1>9. CASE Reads
  BY <1>9, ReadsStep
<1>10. CASE NetNullCycle
  <2>1. /\ net_phase = "ready" /\ net_phase' = "idle"
        /\ UNCHANGED <<sent, packets, master_address, last_retreived, expected, rx_buf,
                       num_lost_packets, srcaddress, played>>
        /\ (overrun' <=> overrun) /\ (have_frame' => have_frame)
    BY <1>10 DEF NetNullCycle
  <2>2. ~have_frame'
    BY <2>1 DEF NetIInv, FrameIsReal
  <2>3. QED
    BY <2>1, <2>2 DEF NetIInv, NetTypeOK, OneSlotAFrame, FrameIsReal, BufferIsHeld, PacketsAhead
<1>11. CASE UNCHANGED netVars
  <2>1. /\ UNCHANGED <<sent, packets, master_address, last_retreived, expected, rx_buf,
                       num_lost_packets, srcaddress, net_phase, played>>
        /\ (overrun' <=> overrun) /\ (packet_data_valid' <=> packet_data_valid)
    BY <1>11 DEF netVars
  <2>2. have_frame' <=> have_frame
    BY <1>11 DEF netVars
  <2>3. QED
    BY <2>1, <2>2 DEF NetIInv, NetTypeOK, OneSlotAFrame, FrameIsReal, BufferIsHeld, PacketsAhead
<1>12. QED
  BY <1>1, <1>2, <1>3, <1>4, <1>5, <1>6, <1>7, <1>8, <1>9, <1>10, <1>11 DEF NetNext

\* The packet cache and the driver that reads from it, for any number of masters,
\* fragments and slots, and datagrams that are lost, late, doubled and in any order:
\* a frame has one slot, what is read is the whole packet that was waited for, and
\* frames of one master go forward, until a packet is thrown out that was found.
THEOREM FramesAreWholeAndInOrder == NetSpec => []NetInv
<1>1. NetIInv => NetInv
  <2> SUFFICES ASSUME NetIInv PROVE NetInv
    OBVIOUS
  <2>1. ReadsExpectedFrame
    BY DEF NetIInv, BufferIsHeld, ReadsExpectedFrame
  <2>2. FramesGoForward
    BY DEF NetIInv, BufferIsHeld, PacketsAhead, FramesGoForward
  <2>3. QED
    BY <2>1, <2>2 DEF NetIInv, NetInv
<1>2. QED
  BY <1>1, NetStarting, NetStep, PTL DEF NetSpec

------------------------------------------------------------------------------
(* The FireWire drivers.                                                       *)

FireKinds == {"none", "run", "joined"}
FireOpen == {"attached", "running", "paused"}

FireTypes ==
    /\ fireApi \in FireApis /\ fireDevice \in FireDevices /\ fireMidi \in FireMidi
    /\ firePhase \in {"new", "refused", "attached", "running", "paused", "detached", "deleted", "crashed"}
    /\ fireThreads \in [queue : FireKinds, dequeue : FireKinds]
    /\ fireUndefined \in BOOLEAN
    /\ ~freebob => fireHandle = NoHandle

\* An open driver's lists hold the streams with a port, each at its own place,
\* and the ports of the lists are the ones the engine knows.
ListsAreInPlace ==
    firePhase \in FireOpen =>
        /\ \A dir \in FireDirections :
            /\ fireList[dir] \in Seq(Nat) /\ Len(fireList[dir]) <= Len(fireDevice[dir])
            /\ \A i \in 1 .. Len(fireList[dir]) : fireList[dir][i] = IF HasPort(dir, i) THEN i ELSE 0
        /\ firePorts = Ports(fireList)

\* A stream behind the end of its list is never pointed at anything.
BehindTheList ==
    \A dir \in FireDirections : \A s \in Streams(dir) :
        firePhase = "new" \/ (firePhase \in FireOpen /\ s > Len(fireList[dir])) => fireBuf[dir][s] = "null"

\* The MIDI threads: both run while the driver does, none when it is stopped.
ThreadsFollow ==
    /\ firePhase = "running" /\ fireHandle # NoHandle => fireThreads.queue = "run" /\ fireThreads.dequeue = "run"
    /\ firePhase \in {"new", "attached"} => fireThreads.queue # "run" /\ fireThreads.dequeue # "run"
    /\ firePhase = "paused" => "start" \in fireFailed

OpenPeriod ==
    firePhase \in FireOpen /\ "bufsize" \notin fireFailed =>
        firePeriod.driver = firePeriod.device /\ firePeriod.device = firePeriod.engine

OpenLatency ==
    freebob /\ firePhase \in FireOpen => \A p \in firePorts : <<p, p[1]>> \in fireLatency

FireIInv ==
    /\ FireTypes /\ ListsAreInPlace /\ BehindTheList /\ ThreadsFollow /\ OpenPeriod /\ OpenLatency
    /\ PortsAreGivenBack /\ BuffersAreAlive /\ ThreadsEndOnce

LEMMA FireDeviceIsLists ==
    ASSUME fireDevice \in FireDevices, NEW dir \in FireDirections
    PROVE  Len(fireDevice[dir]) \in Nat
<1>1. fireDevice \in Seq({"audio", "midi", "other"}) \X Seq({"audio", "midi", "other"})
    BY FireAssumption
<1>2. fireDevice[1] \in Seq({"audio", "midi", "other"}) /\ fireDevice[2] \in Seq({"audio", "midi", "other"})
    BY <1>1
<1> QED BY <1>2 DEF FireDirections, Capture, Playback

\* The kind of driver, its device and its build never change.
LEMMA FireStaysTheSame ==
    ASSUME [FireNext]_fireVars
    PROVE  fireApi' = fireApi /\ fireDevice' = fireDevice /\ fireMidi' = fireMidi
BY DEF FireNext, AttachFails, freebob_driver_attach, ffado_driver_attach, Attached, ffado_latency_callback, FireStarts,
       FireStops, FireRuns, FireNulls, Transfers, FireBufsize, FireDetaches, FireDies, FireDeletes, Detaches, fireVars, fireFixed

LEMMA FireInitHolds == FireInit => FireIInv
<1> SUFFICES ASSUME FireInit PROVE FireIInv
    OBVIOUS
<1>1. FireTypes /\ ThreadsFollow /\ OpenPeriod /\ OpenLatency
    BY FireAssumption DEF FireInit, FireTypes, ThreadsFollow, OpenPeriod, OpenLatency, NoThreads, FireKinds, FireOpen, freebob
<1>2. ListsAreInPlace
    BY DEF FireInit, ListsAreInPlace, FireOpen
<1>3. BehindTheList
    BY DEF FireInit, BehindTheList, NullBuffers, FireOpen
<1>4. PortsAreGivenBack /\ BuffersAreAlive
    BY DEF FireInit, PortsAreGivenBack, BuffersAreAlive, NoTransfer
<1>5. ThreadsEndOnce
    BY DEF FireInit, ThreadsEndOnce, NoThreads
<1> QED BY <1>1, <1>2, <1>3, <1>4, <1>5 DEF FireIInv

------------------------------------------------------------------------------
(* What an attached driver has.                                                *)

\* One direction's list, up to the port that could not be registered.
LEMMA ListedInPlace ==
    ASSUME fireDevice \in FireDevices, NEW dir \in FireDirections, NEW fails \in Failures(dir)
    PROVE  /\ Listed(dir, fails) \in Seq(Nat)
           /\ Len(Listed(dir, fails)) <= Len(fireDevice[dir])
           /\ \A i \in 1 .. Len(Listed(dir, fails)) : Listed(dir, fails)[i] = IF HasPort(dir, i) THEN i ELSE 0
<1>1. Len(fireDevice[dir]) \in Nat
    BY FireDeviceIsLists
<1>2. PICK n \in Nat : n = IF fails = 0 THEN Len(fireDevice[dir]) ELSE fails - 1
    BY <1>1 DEF Failures, Streams
<1>3. n <= Len(fireDevice[dir])
    BY <1>1, <1>2 DEF Failures, Streams
<1>4. Listed(dir, fails) = [s \in 1 .. n |-> IF HasPort(dir, s) THEN s ELSE 0]
    BY <1>2 DEF Listed
<1>5. Listed(dir, fails) \in Seq(Nat) /\ Len(Listed(dir, fails)) = n
    <2>1. \A s \in 1 .. n : (IF HasPort(dir, s) THEN s ELSE 0) \in Nat
        OBVIOUS
    <2> QED BY <1>4, <2>1
<1> QED BY <1>3, <1>4, <1>5

\* A port's own entry is the last one that "port" pointed to.
LEMMA PortAtItsEntry ==
    ASSUME NEW list, NEW dir \in FireDirections, list[dir] \in Seq(Nat), NEW i \in 1 .. Len(list[dir]), list[dir][i] # 0, NEW before
    PROVE  PortAt(list, dir, i, before) = <<dir, list[dir][i]>>
<1> DEFINE own == {j \in 1 .. i : list[dir][j] # 0}
<1>1. i \in own /\ \A k \in own : k <= i
    OBVIOUS
<1>2. \A j \in own : (\A k \in own : k <= j) => j = i
    BY <1>1
<1>3. (CHOOSE j \in own : \A k \in own : k <= j) = i
    BY <1>1, <1>2
<1> QED BY <1>1, <1>3 DEF PortAt

LEMMA AttachedTellsLatency ==
    ASSUME fireDevice \in FireDevices, NEW list,
           \A dir \in FireDirections :
               /\ list[dir] \in Seq(Nat)
               /\ \A i \in 1 .. Len(list[dir]) : list[dir][i] = IF HasPort(dir, i) THEN i ELSE 0,
           NEW fails
    PROVE  \A p \in Ports(list) : <<p, p[1]>> \in LatenciesSet(list, fails)
<1> SUFFICES ASSUME NEW p \in Ports(list) PROVE <<p, p[1]>> \in LatenciesSet(list, fails)
    OBVIOUS
<1>a. PICK dir \in FireDirections : \E i \in DOMAIN list[dir] : list[dir][i] # 0 /\ p = <<dir, list[dir][i]>>
    BY DEF Ports
<1>1. PICK i \in DOMAIN list[dir] : list[dir][i] # 0 /\ p = <<dir, list[dir][i]>>
    BY <1>a
<1>2. i \in 1 .. Len(list[dir]) /\ list[dir] \in Seq(Nat)
    BY <1>1
<1>3. PortAt(list, dir, i, Before(list, dir, fails)) = p
    BY <1>1, <1>2, PortAtItsEntry
<1> QED BY <1>1, <1>3 DEF LatenciesSet

\* Attaching puts each direction's ports in place.
LEMMA AttachedInPlace ==
    ASSUME fireDevice \in FireDevices, NEW c \in Failures(Capture), NEW p \in Failures(Playback), NEW list,
           list = [dir \in FireDirections |-> Listed(dir, IF dir = Capture THEN c ELSE p)]
    PROVE  \A dir \in FireDirections :
               /\ list[dir] \in Seq(Nat) /\ Len(list[dir]) <= Len(fireDevice[dir])
               /\ \A i \in 1 .. Len(list[dir]) : list[dir][i] = IF HasPort(dir, i) THEN i ELSE 0
<1> SUFFICES ASSUME NEW dir \in FireDirections
             PROVE  /\ list[dir] \in Seq(Nat) /\ Len(list[dir]) <= Len(fireDevice[dir])
                    /\ \A i \in 1 .. Len(list[dir]) : list[dir][i] = IF HasPort(dir, i) THEN i ELSE 0
    OBVIOUS
<1>1. PICK fails : fails = IF dir = Capture THEN c ELSE p
    OBVIOUS
<1>2. fails \in Failures(dir)
    BY <1>1 DEF FireDirections, Capture, Playback
<1>3. list[dir] = Listed(dir, fails)
    BY <1>1
<1> QED BY <1>2, <1>3, ListedInPlace

LEMMA SamePort ==
    ASSUME [FireNext]_fireVars
    PROVE  /\ \A dir, s : HasPort(dir, s)' <=> HasPort(dir, s)
           /\ \A dir, s : Type(dir, s)' = Type(dir, s)
           /\ \A dir : Streams(dir)' = Streams(dir)
           /\ freebob' <=> freebob
BY FireStaysTheSame DEF HasPort, Type, Streams, freebob

LEMMA FireAttaches ==
    ASSUME FireTypes, NEW c \in Failures(Capture), NEW p \in Failures(Playback), NEW list,
           list = [dir \in FireDirections |-> Listed(dir, IF dir = Capture THEN c ELSE p)], NEW latencies,
           firePhase = "new", BehindTheList, [FireNext]_fireVars, Attached(list, latencies)
    PROVE  /\ ListsAreInPlace' /\ BehindTheList' /\ OpenPeriod'
           /\ fireThreads' = fireThreads
           /\ fireTransfer' = fireTransfer /\ fireUndefined' = fireUndefined /\ fireFailed' = fireFailed
           /\ ~freebob => fireHandle' = NoHandle
<1>1. \A dir \in FireDirections :
               /\ list[dir] \in Seq(Nat) /\ Len(list[dir]) <= Len(fireDevice[dir])
               /\ \A i \in 1 .. Len(list[dir]) : list[dir][i] = IF HasPort(dir, i) THEN i ELSE 0
    BY AttachedInPlace DEF FireTypes
<1>2. fireList' = list /\ firePorts' = Ports(list) /\ fireDevice' = fireDevice /\ fireMidi' = fireMidi
    BY FireStaysTheSame DEF Attached
<1>3. ListsAreInPlace'
    <2>1. Ports(fireList)' = Ports(list)
        BY <1>2 DEF Ports
    <2> QED BY <1>1, <1>2, <2>1 DEF ListsAreInPlace, HasPort, Type
<1>4. BehindTheList'
    BY <1>2 DEF BehindTheList, Attached, fireCycleVars, Streams
<1>5. OpenPeriod'
    <2>1. firePeriod' = [firePeriod EXCEPT !.device = firePeriod.driver, !.engine = firePeriod.driver]
        BY DEF Attached
    <2> QED BY <2>1 DEF OpenPeriod
<1> QED BY <1>3, <1>4, <1>5 DEF Attached, fireCycleVars, FireTypes, freebob

LEMMA FreebobAttachKeeps == ASSUME FireIInv, [FireNext]_fireVars, freebob_driver_attach PROVE FireIInv'
<1>a. PICK c \in Failures(Capture), p \in Failures(Playback) :
        /\ Attached([dir \in FireDirections |-> Listed(dir, IF dir = Capture THEN c ELSE p)],
                    LatenciesSet([dir \in FireDirections |-> Listed(dir, IF dir = Capture THEN c ELSE p)], c))
        /\ firePhase' \in {"crashed", "attached", "refused"}
    BY DEF freebob_driver_attach
<1>b. PICK list : list = [dir \in FireDirections |-> Listed(dir, IF dir = Capture THEN c ELSE p)]
    OBVIOUS
<1>1. /\ list = [dir \in FireDirections |-> Listed(dir, IF dir = Capture THEN c ELSE p)]
      /\ Attached(list, LatenciesSet(list, c))
      /\ firePhase' \in {"crashed", "attached", "refused"}
    BY <1>a, <1>b
<1>2. PICK latencies : latencies = LatenciesSet(list, c)
    OBVIOUS
<1>3. freebob /\ firePhase = "new" /\ FireTypes /\ BehindTheList
    BY DEF freebob_driver_attach, FireIInv
<1>4. /\ ListsAreInPlace' /\ BehindTheList' /\ OpenPeriod'
      /\ fireThreads' = fireThreads
      /\ fireTransfer' = fireTransfer /\ fireUndefined' = fireUndefined /\ fireFailed' = fireFailed
      /\ ~freebob => fireHandle' = NoHandle
    BY <1>1, <1>2, <1>3, FireAttaches
<1>5. freebob' <=> freebob
    BY SamePort
<1>6. FireTypes'
    BY <1>1, <1>3, <1>4, <1>5, FireStaysTheSame DEF FireTypes
<1>7. ThreadsFollow' /\ ThreadsEndOnce'
    BY <1>1, <1>3, <1>4 DEF FireIInv, ThreadsFollow, ThreadsEndOnce, FireTypes
<1>8. OpenLatency'
    <2>1. \A dir \in FireDirections :
               /\ list[dir] \in Seq(Nat)
               /\ \A i \in 1 .. Len(list[dir]) : list[dir][i] = IF HasPort(dir, i) THEN i ELSE 0
        BY <1>1, <1>3, AttachedInPlace DEF FireTypes
    <2>2. \A q \in Ports(list) : <<q, q[1]>> \in LatenciesSet(list, c)
        BY <1>3, <2>1, AttachedTellsLatency DEF FireTypes
    <2>3. firePorts' = Ports(list) /\ fireLatency' = LatenciesSet(list, c)
        BY <1>1 DEF Attached
    <2> QED BY <2>2, <2>3 DEF OpenLatency
<1>9. PortsAreGivenBack'
    BY <1>1 DEF PortsAreGivenBack
<1>10. BuffersAreAlive'
    BY <1>4, SamePort DEF FireIInv, BuffersAreAlive
<1> QED BY <1>4, <1>6, <1>7, <1>8, <1>9, <1>10 DEF FireIInv

LEMMA FfadoAttachKeeps == ASSUME FireIInv, [FireNext]_fireVars, ffado_driver_attach PROVE FireIInv'
<1>a. PICK c \in Failures(Capture), p \in Failures(Playback) :
        /\ Attached([dir \in FireDirections |-> Listed(dir, IF dir = Capture THEN c ELSE p)],
                    {})
    BY DEF ffado_driver_attach
<1>b. PICK list : list = [dir \in FireDirections |-> Listed(dir, IF dir = Capture THEN c ELSE p)]
    OBVIOUS
<1>1. /\ list = [dir \in FireDirections |-> Listed(dir, IF dir = Capture THEN c ELSE p)]
      /\ Attached(list, {})
    BY <1>a, <1>b
<1>3. ~freebob /\ firePhase = "new" /\ FireTypes /\ BehindTheList /\ firePhase' \in {"attached", "refused"}
    BY DEF ffado_driver_attach, FireIInv
<1>4. /\ ListsAreInPlace' /\ BehindTheList' /\ OpenPeriod'
      /\ fireThreads' = fireThreads
      /\ fireTransfer' = fireTransfer /\ fireUndefined' = fireUndefined /\ fireFailed' = fireFailed
      /\ ~freebob => fireHandle' = NoHandle
    BY <1>1, <1>3, FireAttaches
<1>5. freebob' <=> freebob
    BY SamePort
<1>6. FireTypes'
    BY <1>1, <1>3, <1>4, <1>5, FireStaysTheSame DEF FireTypes
<1>7. ThreadsFollow' /\ ThreadsEndOnce'
    BY <1>1, <1>3, <1>4 DEF FireIInv, ThreadsFollow, ThreadsEndOnce, FireTypes
<1>8. OpenLatency'
    BY <1>3, <1>5 DEF OpenLatency
<1>9. PortsAreGivenBack'
    BY <1>3 DEF PortsAreGivenBack
<1>10. BuffersAreAlive'
    BY <1>4, SamePort DEF FireIInv, BuffersAreAlive
<1> QED BY <1>4, <1>6, <1>7, <1>8, <1>9, <1>10 DEF FireIInv

------------------------------------------------------------------------------
(* Starting, stopping and the cycles.                                          *)

\* What starting leaves of the threads, when none runs.
LEMMA StartedThreads ==
    ASSUME NEW threads \in [queue : FireKinds, dequeue : FireKinds], NEW s \in DriverStarts(threads)
    PROVE  /\ s.threads \in [queue : FireKinds, dequeue : FireKinds]
           /\ s.ok /\ fireHandle # NoHandle => s.threads.queue = "run" /\ s.threads.dequeue = "run"
           /\ ~s.ok => "start" \in s.failed
           /\ fireHandle = NoHandle => s.threads = threads
           /\ s.ok \in BOOLEAN
<1>1. CASE fireHandle = NoHandle
    <2>1. s \in {[ok |-> TRUE, threads |-> threads, failed |-> {}], [ok |-> FALSE, threads |-> threads, failed |-> {"start"}]}
        BY <1>1 DEF DriverStarts
    <2>2. CASE s = [ok |-> TRUE, threads |-> threads, failed |-> {}]
        BY <1>1, <2>2
    <2>3. CASE s = [ok |-> FALSE, threads |-> threads, failed |-> {"start"}]
        BY <1>1, <2>3
    <2> QED BY <2>1, <2>2, <2>3
<1>2. CASE fireHandle # NoHandle
    <2> DEFINE both == [queue |-> "run", dequeue |-> "run"]
    <2>1. s \in {[ok |-> TRUE, threads |-> both, failed |-> {}],
              [ok |-> FALSE, threads |-> ThreadsJoined(both).threads, failed |-> {"start"}],
              [ok |-> FALSE, threads |-> [threads EXCEPT !.queue = "run"], failed |-> {"start", "thread"}],
              [ok |-> FALSE, threads |-> threads, failed |-> {"start", "thread"}]}
        BY <1>2 DEF DriverStarts
    <2>2. CASE s = [ok |-> TRUE, threads |-> both, failed |-> {}]
        BY <1>2, <2>2 DEF FireKinds
    <2>3. CASE s = [ok |-> FALSE, threads |-> ThreadsJoined(both).threads, failed |-> {"start"}]
        <3>1. ThreadsJoined(both).threads = [t \in {"queue", "dequeue"} |-> "joined"]
            BY DEF ThreadsJoined
        <3>2. ThreadsJoined(both).threads \in [queue : FireKinds, dequeue : FireKinds]
            BY <3>1 DEF FireKinds
        <3> QED BY <1>2, <2>3, <3>2
    <2>4. CASE s = [ok |-> FALSE, threads |-> [threads EXCEPT !.queue = "run"], failed |-> {"start", "thread"}]
        BY <1>2, <2>4 DEF FireKinds
    <2>5. CASE s = [ok |-> FALSE, threads |-> threads, failed |-> {"start", "thread"}]
        BY <1>2, <2>5 DEF FireKinds
    <2> QED BY <2>1, <2>2, <2>3, <2>4, <2>5
<1> QED BY <1>1, <1>2

\* What stopping leaves of them.
LEMMA StoppedThreads ==
    ASSUME NEW threads \in [queue : FireKinds, dequeue : FireKinds]
    PROVE  /\ Stops(threads).threads \in [queue : FireKinds, dequeue : FireKinds]
           /\ fireHandle # NoHandle => Stops(threads).threads.queue # "run" /\ Stops(threads).threads.dequeue # "run"
           /\ fireHandle = NoHandle => Stops(threads).threads = threads
           /\ fireHandle # NoHandle /\ threads.queue = "run" /\ threads.dequeue = "run" => ~Stops(threads).undefined
           /\ fireHandle = NoHandle => ~Stops(threads).undefined
           /\ Stops(threads).undefined \in BOOLEAN
BY DEF Stops, ThreadsJoined, FireKinds

LEMMA ListsStay ==
    ASSUME ListsAreInPlace, [FireNext]_fireVars, firePhase \in FireOpen \/ firePhase' \notin FireOpen, UNCHANGED <<fireList, firePorts>>
    PROVE  ListsAreInPlace'
<1>1. fireDevice' = fireDevice /\ fireMidi' = fireMidi
    BY FireStaysTheSame
<1>2. Ports(fireList)' = Ports(fireList)
    BY DEF Ports
<1> QED BY <1>1, <1>2 DEF ListsAreInPlace, HasPort, Type

LEMMA FireStartsKeeps == ASSUME FireIInv, [FireNext]_fireVars, FireStarts PROVE FireIInv'
<1>1. PICK s \in DriverStarts(fireThreads) :
        /\ firePhase' = IF s.ok THEN "running" ELSE "paused"
        /\ fireThreads' = s.threads /\ fireFailed' = fireFailed \cup s.failed
    BY DEF FireStarts
<1>2. /\ firePhase = "attached"
      /\ UNCHANGED <<fireApi, fireDevice, fireMidi, fireList, firePorts, fireLatency, fireDev, fireHandle, firePeriod,
                     fireUndefined, fireBuf, fireTransfer>>
    BY DEF FireStarts, fireFixed, firePortVars, fireCycleVars
<1>3. FireTypes /\ ListsAreInPlace /\ BehindTheList /\ OpenPeriod /\ OpenLatency /\ ThreadsFollow /\ ThreadsEndOnce
    BY DEF FireIInv
<1>4. firePhase' \in {"running", "paused"}
    BY <1>1, StartedThreads DEF FireIInv, FireTypes
<1>5. /\ s.threads \in [queue : FireKinds, dequeue : FireKinds]
      /\ s.ok /\ fireHandle # NoHandle => s.threads.queue = "run" /\ s.threads.dequeue = "run"
      /\ ~s.ok => "start" \in s.failed
      /\ fireHandle = NoHandle => s.threads = fireThreads
    BY <1>3, StartedThreads DEF FireTypes
<1>6. FireTypes'
    BY <1>1, <1>2, <1>3, <1>4, <1>5 DEF FireTypes, freebob
<1>7. ListsAreInPlace'
    BY <1>2, <1>3, ListsStay DEF FireOpen
<1>8. BehindTheList'
    BY <1>2, <1>3, <1>4 DEF BehindTheList, FireOpen, Streams
<1>9. OpenPeriod' /\ OpenLatency'
    BY <1>1, <1>2, <1>3 DEF OpenPeriod, OpenLatency, FireOpen, freebob
<1>10. ThreadsFollow' /\ ThreadsEndOnce'
    BY <1>1, <1>2, <1>3, <1>5 DEF ThreadsFollow, ThreadsEndOnce, FireTypes
<1>11. PortsAreGivenBack'
    BY <1>4 DEF PortsAreGivenBack
<1>12. BuffersAreAlive'
    BY <1>2, SamePort DEF FireIInv, BuffersAreAlive
<1> QED BY <1>6, <1>7, <1>8, <1>9, <1>10, <1>11, <1>12 DEF FireIInv

LEMMA FireStopsKeeps == ASSUME FireIInv, [FireNext]_fireVars, FireStops PROVE FireIInv'
<1>1. PICK s : s = Stops(fireThreads)
    OBVIOUS
<1>2. /\ firePhase \in {"running", "paused"} /\ firePhase' = "attached"
      /\ fireThreads' = s.threads /\ fireUndefined' = (fireUndefined \/ s.undefined)
      /\ UNCHANGED <<fireApi, fireDevice, fireMidi, fireList, firePorts, fireLatency, fireDev, fireHandle, firePeriod,
                     fireFailed, fireBuf, fireTransfer>>
    BY <1>1 DEF FireStops, fireFixed, firePortVars, fireCycleVars
<1>3. FireTypes /\ ListsAreInPlace /\ BehindTheList /\ OpenPeriod /\ OpenLatency /\ ThreadsFollow /\ ThreadsEndOnce
    BY DEF FireIInv
<1>5. /\ s.threads \in [queue : FireKinds, dequeue : FireKinds]
      /\ fireHandle # NoHandle => s.threads.queue # "run" /\ s.threads.dequeue # "run"
      /\ fireHandle = NoHandle => s.threads = fireThreads
      /\ fireHandle # NoHandle /\ fireThreads.queue = "run" /\ fireThreads.dequeue = "run" => ~s.undefined
      /\ fireHandle = NoHandle => ~s.undefined
      /\ s.undefined \in BOOLEAN
    BY <1>1, <1>3, StoppedThreads DEF FireTypes
<1>6. FireTypes'
    BY <1>2, <1>3, <1>5 DEF FireTypes, freebob
<1>7. ListsAreInPlace'
    BY <1>2, <1>3, ListsStay DEF FireOpen
<1>8. BehindTheList'
    BY <1>2, <1>3 DEF BehindTheList, FireOpen, Streams
<1>9. OpenPeriod' /\ OpenLatency'
    BY <1>2, <1>3 DEF OpenPeriod, OpenLatency, FireOpen, freebob
<1>10. ThreadsFollow' /\ ThreadsEndOnce'
    BY <1>2, <1>3, <1>5 DEF ThreadsFollow, ThreadsEndOnce, FireTypes
<1>11. PortsAreGivenBack'
    BY <1>2 DEF PortsAreGivenBack
<1>12. BuffersAreAlive'
    BY <1>2, SamePort DEF FireIInv, BuffersAreAlive
<1> QED BY <1>6, <1>7, <1>8, <1>9, <1>10, <1>11, <1>12 DEF FireIInv

\* A cycle leaves everything but the buffers and the transfer as it is.
LEMMA TransferKeeps ==
    ASSUME FireIInv, [FireNext]_fireVars, firePhase = "running", NEW cycle, NEW new, Transfers(cycle, Pointed(new)),
           BuffersAreAlive'
    PROVE  FireIInv'
<1>2. UNCHANGED <<fireApi, fireDevice, fireMidi, firePhase, fireList, firePorts, fireLatency, fireDev, fireHandle, fireThreads,
                  firePeriod, fireFailed, fireUndefined>>
    BY DEF Transfers, fireFixed, firePortVars, fireRunVars
<1>3. FireTypes /\ ListsAreInPlace /\ BehindTheList /\ OpenPeriod /\ OpenLatency /\ ThreadsFollow /\ ThreadsEndOnce
    BY DEF FireIInv
<1>6. FireTypes'
    BY <1>2, <1>3 DEF FireTypes, freebob
<1>7. ListsAreInPlace'
    BY <1>2, <1>3, ListsStay DEF FireOpen
<1>8. BehindTheList'
    <2>1. SUFFICES ASSUME NEW dir \in FireDirections, NEW s \in Streams(dir), s > Len(fireList[dir])
                   PROVE  fireBuf'[dir][s] = "null"
        BY <1>2 DEF BehindTheList, Streams
    <2>2. fireBuf[dir][s] = "null"
        BY <1>3, <2>1 DEF BehindTheList, FireOpen
    <2>3. Pointed(new)[dir][s] = "null"
        BY <2>1, <2>2 DEF Pointed
    <2> QED BY <2>3 DEF Transfers, Left
<1>9. OpenPeriod' /\ OpenLatency'
    BY <1>2, <1>3 DEF OpenPeriod, OpenLatency, FireOpen, freebob
<1>10. ThreadsFollow' /\ ThreadsEndOnce'
    BY <1>2, <1>3 DEF ThreadsFollow, ThreadsEndOnce, FireTypes
<1>11. PortsAreGivenBack'
    BY <1>2 DEF PortsAreGivenBack
<1> QED BY <1>6, <1>7, <1>8, <1>9, <1>10, <1>11 DEF FireIInv

\* What a cycle points a stream at is alive but on the stack, for all streams
\* but MIDI ones of freebob; and behind the list nothing was pointed at.
LEMMA PointedIsAlive ==
    ASSUME FireIInv, firePhase = "running", NEW new, NEW x \in DeadIn(Pointed(new))
    PROVE  /\ x[1] \in FireDirections /\ x[2] \in Streams(x[1]) /\ x = <<x[1], x[2]>>
           /\ ~(freebob /\ Type(x[1], x[2]) = "midi")
           /\ new[x[1]][x[2]] \in {"", "dead", "freed"}
<1>1. PICK dir \in FireDirections : \E s \in Streams(dir) : x = <<dir, s>>
    BY DEF DeadIn
<1>2. PICK s \in Streams(dir) : x = <<dir, s>>
    BY <1>1
<1>3. Pointed(new)[dir][s] \in {"dead", "freed"} /\ ~(freebob /\ Type(dir, s) = "midi")
    BY <1>2 DEF DeadIn
<1>4. s > Len(fireList[dir]) => fireBuf[dir][s] = "null"
    BY DEF FireIInv, BehindTheList, FireOpen
<1>5. Pointed(new)[dir][s] = IF s > Len(fireList[dir]) \/ new[dir][s] = "" THEN fireBuf[dir][s] ELSE new[dir][s]
    BY DEF Pointed
<1> QED BY <1>2, <1>3, <1>4, <1>5

LEMMA FireRunsKeeps == ASSUME FireIInv, [FireNext]_fireVars, FireRuns PROVE FireIInv'
<1>1. PICK new : /\ Transfers("run", Pointed(new))
                 /\ \A dir \in FireDirections : \A s \in Streams(dir) :
                        \E c \in BOOLEAN : new[dir][s] = RunBuffer(dir, s, c)
    <2>1. PICK wired \in SUBSET firePorts :
            Transfers("run", Pointed([dir \in FireDirections |->
                [s \in Streams(dir) |-> RunBuffer(dir, s, <<dir, s>> \in wired)]]))
        BY DEF FireRuns
    <2>2. PICK new : new = [dir \in FireDirections |-> [s \in Streams(dir) |-> RunBuffer(dir, s, <<dir, s>> \in wired)]]
        OBVIOUS
    <2>3. Transfers("run", Pointed(new))
        BY <2>1, <2>2
    <2>4. ASSUME NEW dir \in FireDirections, NEW s \in Streams(dir)
          PROVE  \E c \in BOOLEAN : new[dir][s] = RunBuffer(dir, s, c)
        <3>1. CASE <<dir, s>> \in wired
            BY <2>2, <3>1 DEF RunBuffer
        <3>2. CASE <<dir, s>> \notin wired
            BY <2>2, <3>2 DEF RunBuffer
        <3> QED BY <3>1, <3>2
    <2> QED BY <2>3, <2>4
<1>2. firePhase = "running"
    BY DEF FireRuns
<1>3. DeadIn(Pointed(new)) = {}
    <2>1. SUFFICES ASSUME NEW x \in DeadIn(Pointed(new)) PROVE FALSE
        OBVIOUS
    <2>2. /\ x[1] \in FireDirections /\ x[2] \in Streams(x[1])
          /\ ~(freebob /\ Type(x[1], x[2]) = "midi") /\ new[x[1]][x[2]] \in {"", "dead", "freed"}
        BY <1>2, <2>1, PointedIsAlive
    <2>3. PICK c \in BOOLEAN : new[x[1]][x[2]] = RunBuffer(x[1], x[2], c)
        BY <1>1, <2>2
    <2> QED BY <2>2, <2>3 DEF RunBuffer
<1>4. fireTransfer' = [cycle |-> "run", dead |-> {}]
    BY <1>1, <1>3 DEF Transfers
<1>5. BuffersAreAlive'
    BY <1>4 DEF BuffersAreAlive
<1> QED BY <1>1, <1>2, <1>5, TransferKeeps

LEMMA FireNullsKeeps == ASSUME FireIInv, [FireNext]_fireVars, FireNulls PROVE FireIInv'
<1>1. PICK new : new = [dir \in FireDirections |-> [s \in Streams(dir) |-> NullBuffer(dir, s)]]
    OBVIOUS
<1>2. firePhase = "running" /\ Transfers("null", Pointed(new))
    BY <1>1 DEF FireNulls
<1>3. ASSUME NEW x \in DeadIn(Pointed(new)) PROVE Type(x[1], x[2]) # "audio"
    <2>2. x[1] \in FireDirections /\ x[2] \in Streams(x[1]) /\ new[x[1]][x[2]] \in {"", "dead", "freed"}
        BY <1>2, PointedIsAlive
    <2>3. new[x[1]][x[2]] = NullBuffer(x[1], x[2])
        BY <1>1, <2>2
    <2>4. Type(x[1], x[2]) = "audio" => NullBuffer(x[1], x[2]) \in {"stack", "still"}
        BY DEF NullBuffer
    <2> QED BY <2>2, <2>3, <2>4
<1>4. fireTransfer' = [cycle |-> "null", dead |-> DeadIn(Pointed(new))]
    BY <1>2 DEF Transfers
<1>5. BuffersAreAlive'
    BY <1>3, <1>4, SamePort DEF BuffersAreAlive
<1> QED BY <1>2, <1>5, TransferKeeps

------------------------------------------------------------------------------
(* Changing the period, and the end.                                           *)

\* What a change of the period leaves of it and of the buffers.
LEMMA ResizedPeriod ==
    ASSUME NEW p, NEW r \in Resized(p)
    PROVE  /\ r.ok \in BOOLEAN
           /\ r.period = firePeriod \/ ~r.ok \/ (r.period.driver = r.period.device /\ r.period.device = r.period.engine)
           /\ r.period = firePeriod => ~r.ok \/ (r.period.driver = r.period.device /\ r.period.device = r.period.engine)
           /\ r.buf = fireBuf \/ r.buf = Freed(fireBuf)
<1>1. \/ r = [ok |-> FALSE, period |-> firePeriod, buf |-> fireBuf]
      \/ r = [ok |-> FALSE, period |-> [firePeriod EXCEPT !.driver = p], buf |-> Freed(fireBuf)]
      \/ r = [ok |-> FALSE, period |-> [firePeriod EXCEPT !.driver = p, !.device = p], buf |-> Freed(fireBuf)]
      \/ r = [ok |-> TRUE, period |-> [driver |-> p, device |-> p, engine |-> p], buf |-> Freed(fireBuf)]
    BY DEF Resized
<1>2. CASE r = [ok |-> FALSE, period |-> firePeriod, buf |-> fireBuf]
    BY <1>2
<1>3. CASE r = [ok |-> FALSE, period |-> [firePeriod EXCEPT !.driver = p], buf |-> Freed(fireBuf)]
    BY <1>3
<1>4. CASE r = [ok |-> FALSE, period |-> [firePeriod EXCEPT !.driver = p, !.device = p], buf |-> Freed(fireBuf)]
    BY <1>4
<1>5. CASE r = [ok |-> TRUE, period |-> [driver |-> p, device |-> p, engine |-> p], buf |-> Freed(fireBuf)]
    BY <1>5
<1> QED BY <1>1, <1>2, <1>3, <1>4, <1>5

LEMMA FireBufsizeKeeps == ASSUME FireIInv, [FireNext]_fireVars, FireBufsize PROVE FireIInv'
<1>1. PICK p \in FirePeriods : \E r \in Resized(p), s \in DriverStarts(Stops(fireThreads).threads) :
        /\ firePeriod' = r.period /\ fireBuf' = r.buf
        /\ firePhase' = IF s.ok THEN "running" ELSE "paused"
        /\ fireThreads' = s.threads
        /\ fireFailed' = fireFailed \cup s.failed \cup (IF r.ok THEN {} ELSE {"bufsize"})
        /\ fireUndefined' = (fireUndefined \/ Stops(fireThreads).undefined)
    BY DEF FireBufsize
<1>2. PICK stop : stop = Stops(fireThreads)
    OBVIOUS
<1>3. PICK r \in Resized(p), s \in DriverStarts(stop.threads) :
        /\ firePeriod' = r.period /\ fireBuf' = r.buf
        /\ firePhase' = IF s.ok THEN "running" ELSE "paused"
        /\ fireThreads' = s.threads
        /\ fireFailed' = fireFailed \cup s.failed \cup (IF r.ok THEN {} ELSE {"bufsize"})
        /\ fireUndefined' = (fireUndefined \/ stop.undefined)
    BY <1>1, <1>2
<1>4. /\ firePhase = "running" /\ fireTransfer' = NoTransfer
      /\ UNCHANGED <<fireApi, fireDevice, fireMidi, fireList, firePorts, fireLatency, fireDev, fireHandle>>
    BY DEF FireBufsize, fireFixed, firePortVars
<1>5. FireTypes /\ ListsAreInPlace /\ BehindTheList /\ OpenPeriod /\ OpenLatency /\ ThreadsFollow /\ ThreadsEndOnce
    BY DEF FireIInv
<1>6. /\ stop.threads \in [queue : FireKinds, dequeue : FireKinds]
      /\ fireHandle = NoHandle => stop.threads = fireThreads
      /\ fireHandle # NoHandle /\ fireThreads.queue = "run" /\ fireThreads.dequeue = "run" => ~stop.undefined
      /\ fireHandle = NoHandle => ~stop.undefined
      /\ stop.undefined \in BOOLEAN
    BY <1>2, <1>5, StoppedThreads DEF FireTypes
<1>7. /\ s.threads \in [queue : FireKinds, dequeue : FireKinds]
      /\ s.ok /\ fireHandle # NoHandle => s.threads.queue = "run" /\ s.threads.dequeue = "run"
      /\ ~s.ok => "start" \in s.failed
      /\ fireHandle = NoHandle => s.threads = stop.threads
      /\ s.ok \in BOOLEAN
    BY <1>3, <1>6, StartedThreads
<1>8. firePhase' \in {"running", "paused"}
    BY <1>3, <1>7
<1>9. FireTypes'
    BY <1>3, <1>4, <1>5, <1>6, <1>7, <1>8 DEF FireTypes, freebob
<1>10. ListsAreInPlace'
    BY <1>4, <1>5, ListsStay DEF FireOpen
<1>11. BehindTheList'
    <2>1. SUFFICES ASSUME NEW dir \in FireDirections, NEW i \in Streams(dir), i > Len(fireList[dir])
                   PROVE  fireBuf'[dir][i] = "null"
        BY <1>4, <1>8 DEF BehindTheList, Streams
    <2>2. fireBuf[dir][i] = "null"
        BY <1>4, <1>5, <2>1 DEF BehindTheList, FireOpen
    <2>3. r.buf = fireBuf \/ r.buf = Freed(fireBuf)
        BY <1>3, ResizedPeriod
    <2>4. Freed(fireBuf)[dir][i] = "null"
        BY <2>1, <2>2 DEF Freed
    <2> QED BY <1>3, <2>2, <2>3, <2>4
<1>12. OpenPeriod'
    <2>1. /\ r.ok \in BOOLEAN
          /\ r.period = firePeriod \/ ~r.ok \/ (r.period.driver = r.period.device /\ r.period.device = r.period.engine)
          /\ r.period = firePeriod => ~r.ok \/ (r.period.driver = r.period.device /\ r.period.device = r.period.engine)
        BY <1>3, ResizedPeriod
    <2> QED BY <1>3, <2>1 DEF OpenPeriod
<1>13. OpenLatency'
    BY <1>4, <1>5 DEF OpenLatency, FireOpen, freebob
<1>14. ThreadsFollow' /\ ThreadsEndOnce'
    <2>1. \A t \in {"queue", "dequeue"} : fireHandle = NoHandle => fireThreads[t] # "run"
        BY <1>5 DEF ThreadsEndOnce, FireTypes
    <2>2. ~stop.undefined
        BY <1>4, <1>5, <1>6 DEF ThreadsFollow
    <2> QED BY <1>3, <1>4, <1>5, <1>6, <1>7, <2>1, <2>2 DEF ThreadsFollow, ThreadsEndOnce
<1>15. PortsAreGivenBack'
    BY <1>8 DEF PortsAreGivenBack
<1>16. BuffersAreAlive'
    BY <1>4 DEF BuffersAreAlive, NoTransfer
<1> QED BY <1>9, <1>10, <1>11, <1>12, <1>13, <1>14, <1>15, <1>16 DEF FireIInv

\* Detaching: what stays registered was behind an entry without a port.
LEMMA DetachGivesBack ==
    ASSUME ListsAreInPlace, firePhase \in FireOpen, fireDevice \in FireDevices,
           NEW q \in firePorts \ UNION {Unregistered(fireList, dir) : dir \in FireDirections}
    PROVE  freebob /\ \E s \in Streams(q[1]) : s < q[2] /\ ~HasPort(q[1], s)
<1>1. /\ \A dir \in FireDirections :
            /\ fireList[dir] \in Seq(Nat) /\ Len(fireList[dir]) <= Len(fireDevice[dir])
            /\ \A i \in 1 .. Len(fireList[dir]) : fireList[dir][i] = IF HasPort(dir, i) THEN i ELSE 0
      /\ firePorts = Ports(fireList)
    BY DEF ListsAreInPlace
<1>2. PICK dir \in FireDirections : \E i \in DOMAIN fireList[dir] : fireList[dir][i] # 0 /\ q = <<dir, fireList[dir][i]>>
    BY <1>1 DEF Ports
<1>3. PICK i \in DOMAIN fireList[dir] : fireList[dir][i] # 0 /\ q = <<dir, fireList[dir][i]>>
    BY <1>2
<1>4. i \in 1 .. Len(fireList[dir]) /\ fireList[dir][i] = i /\ q = <<dir, i>>
    BY <1>1, <1>3
<1>5. q \notin Unregistered(fireList, dir)
    OBVIOUS
<1>6. freebob /\ \E k \in 1 .. i : fireList[dir][k] = 0
    BY <1>3, <1>4, <1>5 DEF Unregistered
<1>7. PICK k \in 1 .. i : fireList[dir][k] = 0
    BY <1>6
<1>8. Len(fireDevice[dir]) \in Nat /\ Len(fireList[dir]) \in Nat
    BY <1>1, FireDeviceIsLists
<1>9. k < i /\ k \in 1 .. Len(fireList[dir])
    BY <1>4, <1>7, <1>8
<1>10. ~HasPort(dir, k)
    BY <1>1, <1>7, <1>9
<1>11. k \in Streams(dir)
    BY <1>1, <1>8, <1>9 DEF Streams
<1> QED BY <1>4, <1>6, <1>9, <1>10, <1>11

LEMMA DetachesKeeps ==
    ASSUME FireIInv, [FireNext]_fireVars, NEW phase \in {"detached", "deleted"}, Detaches(phase), firePhase \in FireOpen,
           UNCHANGED <<fireThreads, fireUndefined>>, fireHandle = NoHandle \/ firePhase = "attached"
    PROVE  FireIInv'
<1>1. /\ firePhase' = phase /\ fireHandle' = NoHandle
      /\ firePorts' = firePorts \ UNION {Unregistered(fireList, dir) : dir \in FireDirections}
      /\ UNCHANGED <<fireApi, fireDevice, fireMidi, firePeriod, fireFailed, fireBuf, fireTransfer>>
    BY DEF Detaches, fireFixed, fireCycleVars
<1>2. FireTypes'
    BY <1>1 DEF FireIInv, FireTypes, freebob
<1>3. ListsAreInPlace' /\ BehindTheList' /\ OpenPeriod' /\ OpenLatency' /\ ThreadsFollow'
    BY <1>1 DEF ListsAreInPlace, BehindTheList, OpenPeriod, OpenLatency, ThreadsFollow, FireOpen
<1>4. ThreadsEndOnce'
    BY <1>1 DEF FireIInv, FireTypes, ThreadsFollow, ThreadsEndOnce
<1>5. PortsAreGivenBack'
    <2>1. SUFFICES ASSUME NEW q \in firePorts'
                   PROVE  freebob' /\ \E s \in Streams(q[1])' : s < q[2] /\ ~HasPort(q[1], s)'
        BY DEF PortsAreGivenBack
    <2>2. q \in firePorts \ UNION {Unregistered(fireList, dir) : dir \in FireDirections}
        BY <1>1
    <2>3. freebob /\ \E s \in Streams(q[1]) : s < q[2] /\ ~HasPort(q[1], s)
        BY <2>2, DetachGivesBack DEF FireIInv, FireTypes
    <2> QED BY <2>3, SamePort
<1>6. BuffersAreAlive'
    BY <1>1, SamePort DEF FireIInv, BuffersAreAlive
<1> QED BY <1>2, <1>3, <1>4, <1>5, <1>6 DEF FireIInv

LEMMA AttachFailsKeeps == ASSUME FireIInv, [FireNext]_fireVars, AttachFails PROVE FireIInv'
<1>1. /\ firePhase = "new" /\ firePhase' = "refused"
      /\ UNCHANGED <<fireApi, fireDevice, fireMidi, fireHandle, fireThreads, fireFailed, fireUndefined, fireTransfer>>
    BY DEF AttachFails, fireFixed, fireCycleVars
<1>2. FireTypes'
    BY <1>1 DEF FireIInv, FireTypes, freebob
<1>3. ListsAreInPlace' /\ BehindTheList' /\ OpenPeriod' /\ OpenLatency' /\ ThreadsFollow' /\ PortsAreGivenBack'
    BY <1>1 DEF ListsAreInPlace, BehindTheList, OpenPeriod, OpenLatency, ThreadsFollow, FireOpen, PortsAreGivenBack
<1>4. ThreadsEndOnce'
    BY <1>1 DEF FireIInv, ThreadsEndOnce
<1>5. BuffersAreAlive'
    BY <1>1, SamePort DEF FireIInv, BuffersAreAlive
<1> QED BY <1>2, <1>3, <1>4, <1>5 DEF FireIInv

LEMMA FfadoLatencyKeeps == ASSUME FireIInv, [FireNext]_fireVars, ffado_latency_callback PROVE FireIInv'
<1>1. /\ ~freebob /\ firePhase \in {"attached", "running"}
      /\ UNCHANGED <<fireApi, fireDevice, fireMidi, firePhase, fireList, firePorts, fireHandle, fireThreads, firePeriod, fireFailed,
                     fireUndefined, fireBuf, fireTransfer>>
    BY DEF ffado_latency_callback, fireFixed, fireRunVars, fireCycleVars
<1>2. FireTypes'
    BY <1>1 DEF FireIInv, FireTypes, freebob
<1>3. ListsAreInPlace'
    BY <1>1, ListsStay DEF FireIInv, FireOpen
<1>4. BehindTheList' /\ OpenPeriod' /\ OpenLatency' /\ ThreadsFollow' /\ PortsAreGivenBack'
    BY <1>1 DEF FireIInv, BehindTheList, OpenPeriod, OpenLatency, ThreadsFollow, FireOpen, PortsAreGivenBack, freebob, Streams
<1>5. ThreadsEndOnce'
    BY <1>1 DEF FireIInv, ThreadsEndOnce
<1>6. BuffersAreAlive'
    BY <1>1, SamePort DEF FireIInv, BuffersAreAlive
<1> QED BY <1>2, <1>3, <1>4, <1>5, <1>6 DEF FireIInv

LEMMA FireEndsKeep == ASSUME FireIInv, [FireNext]_fireVars, FireDetaches \/ FireDies \/ FireDeletes PROVE FireIInv'
<1>1. CASE FireDetaches
    BY <1>1, DetachesKeeps DEF FireDetaches, FireOpen
<1>2. CASE FireDies
    BY <1>2, DetachesKeeps DEF FireDies, FireOpen, FireIInv, FireTypes
<1>3. CASE FireDeletes /\ freebob
    <2>1. firePhase = "attached" /\ Detaches("deleted") /\ UNCHANGED <<fireThreads, fireUndefined>>
        BY <1>3 DEF FireDeletes
    <2> QED BY <2>1, DetachesKeeps DEF FireOpen
<1>4. CASE FireDeletes /\ ~freebob
    <2>1. /\ firePhase = "attached" /\ firePhase' = "deleted"
          /\ UNCHANGED <<fireApi, fireDevice, fireMidi, fireHandle, fireThreads, fireFailed, fireUndefined, fireTransfer>>
        BY <1>4 DEF FireDeletes, fireFixed, fireCycleVars
    <2>2. FireTypes'
        BY <2>1 DEF FireIInv, FireTypes, freebob
    <2>3. ListsAreInPlace' /\ BehindTheList' /\ OpenPeriod' /\ OpenLatency' /\ ThreadsFollow' /\ PortsAreGivenBack'
        BY <2>1 DEF ListsAreInPlace, BehindTheList, OpenPeriod, OpenLatency, ThreadsFollow, FireOpen, PortsAreGivenBack
    <2>4. ThreadsEndOnce'
        BY <2>1 DEF FireIInv, ThreadsEndOnce
    <2>5. BuffersAreAlive'
        BY <2>1, SamePort DEF FireIInv, BuffersAreAlive
    <2> QED BY <2>2, <2>3, <2>4, <2>5 DEF FireIInv
<1> QED BY <1>1, <1>2, <1>3, <1>4

LEMMA FireStutters == ASSUME FireIInv, UNCHANGED fireVars PROVE FireIInv'
<1>1. UNCHANGED <<fireApi, fireDevice, fireMidi, firePhase, fireList, firePorts, fireLatency, fireHandle, fireThreads, firePeriod,
                  fireFailed, fireUndefined, fireBuf, fireTransfer>>
    BY DEF fireVars, fireFixed, firePortVars, fireRunVars, fireCycleVars
<1>2. FireTypes' /\ ThreadsFollow' /\ ThreadsEndOnce' /\ OpenPeriod' /\ OpenLatency'
    BY <1>1 DEF FireIInv, FireTypes, freebob, ThreadsFollow, ThreadsEndOnce, OpenPeriod, OpenLatency
<1>3. ListsAreInPlace' /\ BehindTheList'
    BY <1>1 DEF FireIInv, ListsAreInPlace, BehindTheList, Ports, Streams, HasPort, Type
<1>4. PortsAreGivenBack' /\ BuffersAreAlive'
    BY <1>1 DEF FireIInv, PortsAreGivenBack, BuffersAreAlive, Streams, HasPort, Type, freebob
<1> QED BY <1>2, <1>3, <1>4 DEF FireIInv

\* What FireWire devices are pointed at and what is left when they are, for
\* devices of any number of streams in any order, whatever fails: ports are given
\* back but those behind a freebob stream without one, a cycle that runs
\* transfers through memory that is there, a period that could be changed is
\* everyone's, and the threads end once for each start (freebob_driver.c,
\* ffado_driver.c).
THEOREM StreamsAreLeftInOrder == FireSpec => []FirewireInv
<1>1. FireInit => FireIInv
    BY FireInitHolds
<1>2. FireIInv /\ [FireNext]_fireVars => FireIInv'
    <2> SUFFICES ASSUME FireIInv, [FireNext]_fireVars PROVE FireIInv'
        OBVIOUS
    <2>1. CASE UNCHANGED fireVars
        BY <2>1, FireStutters
    <2>2. CASE AttachFails
        BY <2>2, AttachFailsKeeps
    <2>3. CASE freebob_driver_attach
        BY <2>3, FreebobAttachKeeps
    <2>4. CASE ffado_driver_attach
        BY <2>4, FfadoAttachKeeps
    <2>5. CASE ffado_latency_callback
        BY <2>5, FfadoLatencyKeeps
    <2>6. CASE FireStarts
        BY <2>6, FireStartsKeeps
    <2>7. CASE FireStops
        BY <2>7, FireStopsKeeps
    <2>8. CASE FireRuns
        BY <2>8, FireRunsKeeps
    <2>9. CASE FireNulls
        BY <2>9, FireNullsKeeps
    <2>10. CASE FireBufsize
        BY <2>10, FireBufsizeKeeps
    <2>11. CASE FireDetaches \/ FireDies \/ FireDeletes
        BY <2>11, FireEndsKeep
    <2> QED BY <2>1, <2>2, <2>3, <2>4, <2>5, <2>6, <2>7, <2>8, <2>9, <2>10, <2>11 DEF FireNext
<1>3. FireIInv => FirewireInv
    BY DEF FireIInv, FirewireInv, OpenPeriod, OpenLatency, OnePeriod, LatencyIsTold, FireOpen
<1> QED BY <1>1, <1>2, <1>3, PTL DEF FireSpec
==============================================================================
