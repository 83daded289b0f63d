----------------------------- MODULE AlsaDriver -----------------------------
(* The ALSA driver (drivers/alsa/alsa_driver.c) against the sound card: one    *)
(* period is one slot of the card's ring. The driver's thread waits for both   *)
(* streams, runs as many cycles as there are periods and starts anew after an  *)
(* xrun or a suspend; the card goes on playing and recording meanwhile.        *)
(* Soft mode (-s) and hardware monitoring (-H) are off.                        *)
EXTENDS Integers, FiniteSets

CONSTANTS
    Channels,       \* playback channels, numbered from 1
    MonitorPorts,   \* the channels that have a monitor port (--monitor)
    Setups,         \* <<streams that open, periods granted for playback, linked>>
    UserPeriods,    \* user_nperiods
    Frames,         \* sizes of a period that are asked for
    Refused,        \* sizes that the card does not take
    MaxDelays,      \* consecutive_excessive_delays that are let pass, 10 in the code
    CardFaults          \* "suspend", "unplug", "signal"

ASSUME AlsaAssumption ==
    /\ Channels \subseteq Nat \ {0} /\ MonitorPorts \subseteq Channels
    /\ UserPeriods \in Nat \ {0, 1} /\ MaxDelays \in Nat
    /\ \A s \in Setups : s[1] # {} /\ s[1] \subseteq {"playback", "capture"}
                         /\ s[2] \in Nat /\ s[2] >= UserPeriods /\ s[3] \in BOOLEAN

VARIABLES
    handles,            \* the streams that are open
    nperiods,           \* playback_nperiods
    linked,             \* ~capture_and_playback_not_synced
    alsaPc,             \* driver thread: "stopped", "poll", "cycle", "dead"
    left,               \* periods the wakeup still has to run
    pcm,                \* the state of each stream
    queued, captured,   \* periods between the card's and the driver's pointers
    appl,               \* the slot the driver writes next
    ring,               \* what a slot holds: "quiet", "sound", or sound that was played: "spent"
    silent,             \* periods of silence written in a row, for each channel
    channels_not_done,
    passedOver,         \* history: channels that got nothing in a cycle since the last start,
                        \* as an earlier cycle of the same wakeup had marked them done
    connected, watched, \* playback and monitor ports that are connected
    monitored,          \* the channel each monitor port was given last, 0: none
    delays,             \* consecutive_excessive_delays
    frames_per_cycle, buffer_size,   \* the driver's and the engine's period
    present             \* the card is there

alsaVars == <<handles, nperiods, linked, alsaPc, left, pcm, queued, captured, appl, ring, silent,
              channels_not_done, passedOver, connected, watched, monitored, delays,
              frames_per_cycle, buffer_size, present>>
alsaFixed == <<handles, nperiods, linked>>
alsaPorts == <<connected, watched>>
alsaSizes == <<frames_per_cycle, buffer_size>>

Playing == "playback" \in handles
Capturing == "capture" \in handles
Slots == 0 .. nperiods - 1
Behind(k) == (appl - k + nperiods) % nperiods     \* the slot k before appl

\* The streams that a command to stream s reaches: snd_pcm_link.
Group(s) == IF linked THEN handles ELSE {s}
CaptureIsApart == Capturing /\ (~linked \/ ~Playing)

------------------------------------------------------------------------------
(* Start, stop and recovery. An operator gives the new values of the card.     *)

alsa_driver_silence_on_channel(c) == 0

\* alsa_driver_start: the ring is primed with user_nperiods of silence.
Primed == [c \in Channels |-> [s \in Slots |->
              IF s < UserPeriods THEN "quiet" ELSE ring[c][s]]]

StartedStreams(P) ==
    [s \in handles |-> IF \/ Playing /\ s \in Group("playback")
                          \/ CaptureIsApart /\ s = "capture"
                       THEN "running" ELSE P[s]]

alsa_driver_start(P) ==
    /\ present
    /\ pcm' = StartedStreams(P)
    /\ IF Playing
       THEN /\ ring' = Primed /\ appl' = UserPeriods % nperiods /\ queued' = UserPeriods
            /\ silent' = [c \in Channels |-> alsa_driver_silence_on_channel(c)]
            /\ channels_not_done' = {} /\ passedOver' = {}
       ELSE UNCHANGED <<ring, appl, queued, silent, channels_not_done, passedOver>>
    /\ captured' = 0

\* alsa_driver_stop: snd_pcm_drop.
Stopped(P) == [s \in handles |-> IF \/ Playing /\ s \in Group("playback")
                                    \/ CaptureIsApart /\ s = "capture"
                                 THEN "setup" ELSE P[s]]

\* alsa_driver_xrun_recovery, alsa_driver_restart. Only the stream whose status is read is
\* prepared after a suspend, and stop and start do it once more.
alsa_driver_xrun_recovery ==
    LET seen == IF Capturing THEN "capture" ELSE "playback"
        P == IF pcm[seen] = "suspended"
             THEN [s \in handles |-> IF s \in Group(seen) THEN "prepared" ELSE pcm[s]] ELSE pcm
    IN  alsa_driver_start(Stopped(P))

alsa_driver_new(setup) ==
    /\ handles = setup[1] /\ nperiods = setup[2]
    /\ linked = (setup[3] /\ setup[1] = {"playback", "capture"})
    /\ pcm = [s \in setup[1] |-> "setup"]
    /\ ring = [c \in Channels |-> [s \in 0 .. setup[2] - 1 |-> "spent"]]

AlsaInit ==
    /\ \E setup \in Setups : alsa_driver_new(setup)
    /\ alsaPc = "stopped" /\ left = 0 /\ queued = 0 /\ captured = 0 /\ appl = 0
    /\ silent = [c \in Channels |-> 0] /\ channels_not_done = {} /\ passedOver = {}
    /\ connected = {} /\ watched = {} /\ monitored = [c \in MonitorPorts |-> 0]
    /\ delays = 0 /\ present = TRUE
    /\ frames_per_cycle \in Frames \ Refused /\ buffer_size = frames_per_cycle

AlsaStarts ==
    /\ alsaPc = "stopped" /\ alsa_driver_start(pcm)
    /\ alsaPc' = "poll"
    /\ UNCHANGED <<alsaFixed, alsaPorts, alsaSizes, left, monitored, delays, present>>

------------------------------------------------------------------------------
(* alsa_driver_wait.                                                           *)

avail_min == nperiods - UserPeriods + 1

Broken(s) == pcm[s] \in {"xrun", "suspended"}
Ready == /\ Playing => Broken("playback") \/ nperiods - queued >= avail_min
         /\ Capturing => Broken("capture") \/ captured >= 1

Least(a, b) == IF a < b THEN a ELSE b
Available == IF ~Capturing THEN nperiods - queued
             ELSE IF ~Playing THEN captured ELSE Least(captured, nperiods - queued)

WakesUp ==
    /\ alsaPc = "poll" /\ present /\ Ready /\ ~\E s \in handles : Broken(s)
    /\ left' = Available /\ channels_not_done' = Channels
    /\ alsaPc' = "cycle"
    /\ UNCHANGED <<alsaFixed, alsaPorts, alsaSizes, pcm, queued, captured, appl, ring, silent,
                   passedOver, monitored, delays, present>>

\* nframes = 0: the engine is told of the delay, and the wait begins again.
Recovers ==
    /\ alsaPc = "poll" /\ Ready /\ \E s \in handles : Broken(s)
    /\ alsa_driver_xrun_recovery
    /\ UNCHANGED <<alsaFixed, alsaPorts, alsaSizes, alsaPc, left, monitored, delays, present>>

\* A signal, a time-out or a card that does not start again end the driver's thread; the
\* engine's driver_exit stops the card.
AlsaDies ==
    /\ alsaPc = "poll" /\ (~present \/ "signal" \in CardFaults)
    /\ alsaPc' = "dead" /\ pcm' = Stopped(pcm)
    /\ UNCHANGED <<alsaFixed, alsaPorts, alsaSizes, left, queued, captured, appl, ring, silent,
                   channels_not_done, passedOver, monitored, delays, present>>

------------------------------------------------------------------------------
(* The cycles of a wakeup: jack_run_cycle, jack_run_one_cycle.                 *)

\* The pointers move only on a stream that runs.
Commits(s) == IF pcm[s] = "running" THEN 1 ELSE 0
Committed ==
    /\ captured' = IF Capturing THEN captured - Commits("capture") ELSE captured
    /\ IF Playing THEN /\ queued' = queued + Commits("playback")
                       /\ appl' = (appl + Commits("playback")) % nperiods
       ELSE UNCHANGED <<queued, appl>>
CycleEnds == left' = left - 1 /\ alsaPc' = IF left = 1 THEN "poll" ELSE "cycle"

\* alsa_driver_null_cycle: the graph or the problems are locked, or there are problems.
NullCycle ==
    /\ alsaPc = "cycle" /\ CycleEnds /\ Committed
    /\ IF Playing
       THEN /\ ring' = [c \in Channels |-> [ring[c] EXCEPT ![appl] = "quiet"]]
            /\ silent' = [c \in Channels |-> alsa_driver_silence_on_channel(c)]
            /\ channels_not_done' = {}
       ELSE UNCHANGED <<ring, silent, channels_not_done>>
    /\ delays' = 0
    /\ UNCHANGED <<alsaFixed, alsaPorts, alsaSizes, pcm, passedOver, monitored, present>>

\* Mutant: one period short of the ring.
Silences_Short(c) == c \in channels_not_done /\ silent[c] < nperiods - 1

\* alsa_driver_silence_untouched_channels: a ring that is all silence is left alone.
Silences(c) == c \in channels_not_done /\ silent[c] < nperiods

\* The playback channels whose data a monitor port gets. A playback port that is not
\* connected is passed over, and so is the step to the next monitor port; where a
\* monitor port is not connected the walk stays at it as well.
MonitorOf[c \in Nat] ==     \* mon_node when the loop reaches channel c
    IF c = 1 THEN 1
    ELSE IF c - 1 \in connected /\ MonitorOf[c - 1] \in watched THEN MonitorOf[c - 1] + 1
    ELSE MonitorOf[c - 1]
Monitors == [m \in MonitorPorts |->
    LET C == {c \in connected : MonitorOf[c] = m /\ m \in watched}
    IN  IF C = {} THEN monitored[m] ELSE CHOOSE c \in C : TRUE]

\* alsa_driver_write.
Writes ==
    IF Playing
    THEN /\ ring' = [c \in Channels |-> [ring[c] EXCEPT ![appl] =
                        IF c \in connected THEN "sound" ELSE IF Silences(c) THEN "quiet" ELSE @]]
         /\ silent' = [c \in Channels |-> IF c \in connected THEN 0
                           ELSE IF Silences(c) THEN silent[c] + 1 ELSE silent[c]]
         /\ channels_not_done' = channels_not_done \ connected
         /\ passedOver' = passedOver \cup (Channels \ (connected \cup channels_not_done))
         /\ monitored' = Monitors
    ELSE UNCHANGED <<ring, silent, channels_not_done, passedOver, monitored>>

RealCycle ==
    /\ alsaPc = "cycle" /\ CycleEnds /\ Committed /\ Writes
    /\ delays' = 0
    /\ UNCHANGED <<alsaFixed, alsaPorts, alsaSizes, pcm, present>>

\* alsa_driver_read on a stream that has stopped may fail, and the driver ends.
ReadFails ==
    /\ alsaPc = "cycle" /\ Capturing /\ pcm["capture"] # "running"
    /\ alsaPc' = "dead" /\ left' = 0 /\ delays' = 0 /\ pcm' = Stopped(pcm)
    /\ UNCHANGED <<alsaFixed, alsaPorts, alsaSizes, queued, captured, appl, ring, silent,
                   channels_not_done, passedOver, monitored, present>>

\* The delay is more than the cycle can make up: the period is left alone.
Delayed ==
    /\ alsaPc = "cycle"
    /\ IF delays < MaxDelays
       THEN CycleEnds /\ delays' = delays + 1 /\ UNCHANGED pcm
       ELSE alsaPc' = "dead" /\ left' = 0 /\ pcm' = Stopped(pcm) /\ UNCHANGED delays
    /\ UNCHANGED <<alsaFixed, alsaPorts, alsaSizes, queued, captured, appl, ring, silent,
                   channels_not_done, passedOver, monitored, present>>

------------------------------------------------------------------------------
(* The engine's thread, between two cycles: connections and sizes.             *)

Reconnects ==
    /\ alsaPc # "dead"
    /\ \/ \E c \in Channels : /\ connected' = IF c \in connected THEN connected \ {c} ELSE connected \cup {c}
                              /\ UNCHANGED watched
       \/ \E m \in MonitorPorts : /\ watched' = IF m \in watched THEN watched \ {m} ELSE watched \cup {m}
                                  /\ UNCHANGED connected
    /\ UNCHANGED <<alsaFixed, alsaSizes, alsaPc, left, pcm, queued, captured, appl, ring, silent,
                   channels_not_done, passedOver, monitored, delays, present>>

\* The old parameters are set again, engine->set_buffer_size with them.
FallsBack(f) == UNCHANGED alsaSizes

\* alsa_driver_set_parameters: the card or the engine may refuse a size, and the engine's
\* buffer_size may have been changed before it fails.
alsa_driver_set_parameters(f) ==
    \/ f \notin Refused /\ frames_per_cycle' = f /\ buffer_size' = f
    \/ FallsBack(f)

\* alsa_driver_bufsize between the stop and the start of the thread: the ring's memory is new.
alsa_driver_bufsize(f) ==
    /\ alsaPc = "poll" /\ present /\ f # frames_per_cycle
    /\ alsa_driver_set_parameters(f)
    /\ pcm' = StartedStreams(Stopped(pcm))
    /\ IF Playing
       THEN /\ ring' = [c \in Channels |-> [s \in Slots |->
                           IF s < UserPeriods THEN "quiet" ELSE "spent"]]
            /\ appl' = UserPeriods % nperiods /\ queued' = UserPeriods
            /\ silent' = [c \in Channels |-> 0] /\ passedOver' = {}
       ELSE UNCHANGED <<ring, appl, queued, silent, passedOver>>
    /\ captured' = 0 /\ channels_not_done' = {}
    /\ UNCHANGED <<alsaFixed, alsaPorts, alsaPc, left, monitored, delays, present>>

------------------------------------------------------------------------------
(* The card (external).                                                        *)

Xruns(s) == IF s = "playback" THEN queued' = 0 ELSE captured' = UserPeriods

\* A period passes: every stream that runs moves on, and one that has nothing left stops.
PeriodPasses ==
    LET R == {s \in handles : pcm[s] = "running"} IN
    /\ R # {} /\ present
    /\ queued' = IF "playback" \in R THEN queued - 1 ELSE queued
    /\ captured' = IF "capture" \in R THEN captured + 1 ELSE captured
    /\ ring' = IF "playback" \in R
               THEN [c \in Channels |-> [ring[c] EXCEPT ![Behind(queued)] =
                        IF @ = "sound" THEN "spent" ELSE @]] ELSE ring
    /\ pcm' = [s \in handles |-> IF s \in R /\ \E t \in R \cap Group(s) : Xruns(t)
                                 THEN "xrun" ELSE pcm[s]]
    /\ UNCHANGED <<alsaFixed, alsaPorts, alsaSizes, alsaPc, left, appl, silent, channels_not_done,
                   passedOver, monitored, delays, present>>

Suspends ==
    /\ "suspend" \in CardFaults /\ \E s \in handles : pcm[s] = "running"
    /\ pcm' = [s \in handles |-> IF pcm[s] = "running" THEN "suspended" ELSE pcm[s]]
    /\ UNCHANGED <<alsaFixed, alsaPorts, alsaSizes, alsaPc, left, queued, captured, appl, ring,
                   silent, channels_not_done, passedOver, monitored, delays, present>>

Unplugs ==
    /\ "unplug" \in CardFaults /\ present /\ present' = FALSE
    /\ UNCHANGED <<alsaFixed, alsaPorts, alsaSizes, alsaPc, left, pcm, queued, captured, appl, ring,
                   silent, channels_not_done, passedOver, monitored, delays>>

AlsaNext ==
    \/ AlsaStarts \/ WakesUp \/ Recovers \/ AlsaDies \/ NullCycle \/ RealCycle \/ ReadFails \/ Delayed
    \/ Reconnects \/ (\E f \in Frames : alsa_driver_bufsize(f)) \/ PeriodPasses \/ Suspends \/ Unplugs

AlsaSpec == AlsaInit /\ [][AlsaNext]_alsaVars

------------------------------------------------------------------------------
AlsaTypeOK ==
    /\ handles \subseteq {"playback", "capture"} /\ nperiods \in Nat /\ linked \in BOOLEAN
    /\ alsaPc \in {"stopped", "poll", "cycle", "dead"} /\ left \in 0 .. nperiods
    /\ pcm \in [handles -> {"setup", "prepared", "running", "xrun", "suspended"}]
    /\ queued \in 0 .. nperiods /\ captured \in 0 .. UserPeriods /\ appl \in Slots
    /\ ring \in [Channels -> [Slots -> {"quiet", "sound", "spent"}]]
    /\ silent \in [Channels -> 0 .. nperiods]
    /\ channels_not_done \subseteq Channels /\ passedOver \subseteq Channels
    /\ connected \subseteq Channels /\ watched \subseteq MonitorPorts
    /\ monitored \in [MonitorPorts -> Channels \cup {0}] /\ delays \in 0 .. MaxDelays
    /\ {frames_per_cycle, buffer_size} \subseteq Frames /\ present \in BOOLEAN

\* Nothing that was played is in the queue to be played again: a channel nobody is connected
\* to plays silence, although the driver writes no silence where it thinks it still lies
\* (alsa_driver_silence_untouched_channels), through restarts, null cycles and reconnections.
\* Channels that a cycle passed over are left out: see PassedOverPlayOnce.
NothingIsPlayedTwice ==
    (Playing /\ pcm["playback"] = "running") =>
        \A c \in Channels \ passedOver, k \in 1 .. queued : ring[c][Behind(k)] # "spent"

\* What one would want of every channel, and the code does not give when a wakeup runs two
\* cycles: channels are marked done for the wakeup, so that one that was written or silenced
\* in the first cycle and not in the second leaves old sound in the second period.
PassedOverPlayOnce ==
    (Playing /\ pcm["playback"] = "running") =>
        \A c \in passedOver, k \in 1 .. queued : ring[c][Behind(k)] # "spent"

\* No more periods wait to be played than the user asked for, although the card may grant a
\* longer ring: the playback latency that alsa_driver_attach sets counts on it.
LatencyIsAsAsked == Playing /\ Capturing => queued <= UserPeriods

\* A thread that waits for the card waits for streams that run or have failed, never for one
\* that nobody started: poll would time out and the server lose its driver.
WaitsForRunningStreams ==
    alsaPc = "poll" => \A s \in handles : pcm[s] \in {"running", "xrun", "suspended"}

\* The engine's cycles are as long as the card's periods, after a refused size as well.
SizesAgree == frames_per_cycle = buffer_size

\* A monitor port gets the data of the playback port it was made for.
MonitorsMatch == \A m \in MonitorPorts : monitored[m] \in {0, m}

\* The ALSA driver plays nothing twice, keeps its latency, waits only for streams
\* that run, and agrees with the engine on the size of a period.
AlsaInv ==
    /\ AlsaTypeOK
    /\ NothingIsPlayedTwice
    /\ LatencyIsAsAsked
    /\ WaitsForRunningStreams
    /\ SizesAgree
=============================================================================
