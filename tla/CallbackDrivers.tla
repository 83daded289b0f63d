--------------------------- MODULE CallbackDrivers ---------------------------
(* The drivers whose cycle is a callback of the sound system: CoreAudio        *)
(* (drivers/coreaudio) and PortAudio (drivers/portaudio). How a device is      *)
(* found, opened, attached, changed and given back, what each step leaves when *)
(* it fails, and what a callback hands the device. What the sound system and   *)
(* the engine answer is chosen.                                                *)
EXTENDS Naturals, FiniteSets

CONSTANTS
    CallbackApis,       \* "coreaudio", "portaudio"
    Uids,               \* devices that can be named; NoUid: none was
    NoUid,
    SoundDevices,       \* device -> [in, out]: its channels
    DefaultIn, DefaultOut,      \* the devices the system uses by default
    Asked,              \* requests: [capturing, playing, in, out]: channels, 0: all
    CallbackFrames      \* period sizes that are powers of two

ASSUME CallbackAssumption ==
    /\ CallbackApis \subseteq {"coreaudio", "portaudio"}
    /\ NoUid \notin DOMAIN SoundDevices /\ Uids \subseteq DOMAIN SoundDevices \cup {NoUid}
    /\ {DefaultIn, DefaultOut} \subseteq DOMAIN SoundDevices
    /\ \A d \in DOMAIN SoundDevices : SoundDevices[d].in \in Nat /\ SoundDevices[d].out \in Nat
    /\ Asked \subseteq [capturing : BOOLEAN, playing : BOOLEAN, in : Nat, out : Nat]
    /\ CallbackFrames \subseteq Nat \ {0}

VARIABLES
    cbApi, cbAsk, cbUids,       \* fixed: the driver, what was asked for, the names <<capture, playback>>
    cbPhase,        \* "closed", "new", "refused", "attached", "running", "detached", "deleted", "crashed"
    cbDevices,      \* the devices of the open stream: [in, out]
    cbChannels,     \* capture_nchannels, playback_nchannels
    cbPorts,        \* ports in capture_ports and playback_ports
    cbLatency,      \* the kind of latency the ports of each direction were given
    cbFrames,       \* frames: of the driver, of the engine, and that period_usecs was computed from
    cbRate,         \* the device runs at the rate that was asked for
    cbListeners,    \* notifications that are installed: "overload", "rate"
    cbStream,       \* the stream or unit: "none", "open", "closed"
    cbXrun,         \* xrun_detected
    cbOut,          \* what the last callback left in the device's buffer
    cbSteps,        \* what failed or was changed: "overload", "port", "resize", "open", "engine"
    cbUndefined     \* the driver's memory or stream was used after its end

cbFixed == <<cbApi, cbAsk, cbUids>>
cbOpened == <<cbDevices, cbChannels, cbRate, cbStream>>
cbVars == <<cbFixed, cbPhase, cbOpened, cbPorts, cbLatency, cbFrames, cbListeners, cbXrun, cbOut, cbSteps, cbUndefined>>

Core == cbApi = "coreaudio"
OfBoth(n, k) == [in |-> n, out |-> k]

CallbackInit ==
    /\ cbApi \in CallbackApis /\ cbAsk \in Asked /\ cbUids \in Uids \X Uids
    /\ (cbApi = "portaudio" => cbUids[1] = cbUids[2])
    /\ cbPhase = "closed" /\ cbDevices = OfBoth(NoUid, NoUid) /\ cbChannels = OfBoth(0, 0) /\ cbPorts = OfBoth(0, 0)
    /\ cbLatency = OfBoth("none", "none") /\ cbRate = TRUE /\ cbListeners = {} /\ cbStream = "none"
    /\ cbFrames \in {[driver |-> f, engine |-> 0, period |-> f] : f \in CallbackFrames}
    /\ cbXrun = FALSE /\ cbOut = "none" /\ cbSteps = {} /\ cbUndefined = FALSE

------------------------------------------------------------------------------
(* Opening CoreAudio.                                                          *)

\* get_default_device: the two defaults have to be the same device.
get_default_device == IF DefaultIn = DefaultOut THEN {DefaultIn} ELSE {}

\* The one device of coreaudio_driver_new: that of the name, or a default when no
\* device has it. Two names: that of playback. No name is taken for playback only,
\* as playback_driver_uid is never NULL.
CoreDevice ==
    CASE cbUids[1] # NoUid /\ cbUids[2] # NoUid -> {cbUids[2]} \cup get_default_device
      [] cbUids[1] # NoUid /\ cbUids[2] = NoUid -> {cbUids[1], DefaultIn}
      [] OTHER -> {cbUids[2], DefaultOut} \ {NoUid}

\* get_total_channels, of a direction that is asked for.
TotalChannels(d) ==
    OfBoth(IF cbAsk.capturing THEN SoundDevices[d].in ELSE 0, IF cbAsk.playing THEN SoundDevices[d].out ELSE 0)

OrAll(asked, all) == IF asked = 0 THEN all ELSE asked

NewFails ==
    /\ cbPhase' = "refused"
    /\ UNCHANGED <<cbOpened, cbPorts, cbLatency, cbFrames, cbXrun, cbOut, cbSteps>>

Opens(device, channels) ==
    /\ cbPhase' = "new" /\ cbDevices' = device /\ cbChannels' = channels /\ cbStream' = "open"
    /\ UNCHANGED <<cbPorts, cbLatency, cbFrames, cbXrun, cbOut, cbSteps, cbUndefined>>

\* coreaudio_driver_new. Any call may fail; when the second listener cannot be
\* added the driver is freed with the first one installed. A rate that differs is
\* waited for, ten seconds at most; a failure there returns -1 for a pointer.
coreaudio_driver_new ==
    /\ Core /\ cbPhase = "closed"
    /\ \/ NewFails /\ cbListeners' \in {{}, {"overload"}} /\ UNCHANGED cbUndefined
       \/ cbPhase' = "crashed" /\ cbUndefined' = TRUE
          /\ UNCHANGED <<cbOpened, cbPorts, cbLatency, cbFrames, cbXrun, cbOut, cbSteps, cbListeners>>
       \/ \E d \in CoreDevice :
            /\ cbAsk.in <= TotalChannels(d).in /\ cbAsk.out <= TotalChannels(d).out
            /\ Opens(OfBoth(d, d), OfBoth(OrAll(cbAsk.in, TotalChannels(d).in), OrAll(cbAsk.out, TotalChannels(d).out)))
            /\ cbRate' \in BOOLEAN /\ cbListeners' = {"overload", "rate"}
    /\ UNCHANGED cbFixed

------------------------------------------------------------------------------
(* Opening PortAudio.                                                          *)

\* Mutant: the channels that are asked for are opened, whatever the device has.
Fewest_Asked(n, k) == k
Fewest(n, k) == IF n < k THEN n ELSE k

\* portaudio_load_default: the default of each direction.
portaudio_load_default ==
    [devices |-> OfBoth(DefaultIn, DefaultOut),
     channels |-> OfBoth(IF cbAsk.capturing THEN SoundDevices[DefaultIn].in ELSE 0,
                       IF cbAsk.playing THEN SoundDevices[DefaultOut].out ELSE 0)]

\* portaudio_load_driver: the directions that the named device has.
portaudio_load_driver ==
    LET d == cbUids[1]
    IN  [devices |-> OfBoth(IF SoundDevices[d].in > 0 THEN d ELSE NoUid, IF SoundDevices[d].out > 0 THEN d ELSE NoUid),
         channels |-> TotalChannels(d)]

\* What portaudio_driver_new opens: at most the channels that are asked for. A
\* direction without channels is opened without a device.
Found == IF cbUids[1] = NoUid THEN portaudio_load_default ELSE portaudio_load_driver
Trimmed(asked, n) == IF asked > 0 THEN Fewest(n, asked) ELSE n
WithDevice(channels, devices) ==
    OfBoth(IF channels.in > 0 THEN devices.in ELSE NoUid, IF channels.out > 0 THEN devices.out ELSE NoUid)

portaudio_driver_new ==
    /\ ~Core /\ cbPhase = "closed"
    /\ \/ NewFails /\ UNCHANGED <<cbListeners, cbUndefined>>
       \/ LET channels == OfBoth(Trimmed(cbAsk.in, Found.channels.in), Trimmed(cbAsk.out, Found.channels.out))
          IN  /\ channels # OfBoth(0, 0)
              /\ Opens(WithDevice(channels, Found.devices), channels)
              /\ UNCHANGED <<cbRate, cbListeners>>
    /\ UNCHANGED cbFixed

------------------------------------------------------------------------------
(* Attaching, starting, stopping.                                              *)

\* The engine refuses the period size.
CallbackRefused ==
    /\ cbPhase = "new" /\ cbPhase' = "refused"
    /\ UNCHANGED <<cbFixed, cbOpened, cbPorts, cbLatency, cbFrames, cbListeners, cbXrun, cbOut, cbSteps, cbUndefined>>

\* A loop ends at the first port that cannot be registered.
Registers(n, k) ==
    /\ cbPorts' = OfBoth(n, k)
    /\ cbSteps' = cbSteps \cup (IF cbPorts' = cbChannels THEN {} ELSE {"port"})
    /\ cbFrames' = [cbFrames EXCEPT !.engine = cbFrames.driver]
    /\ UNCHANGED <<cbFixed, cbOpened, cbListeners, cbXrun, cbOut, cbUndefined>>

\* The latency of the playback ports is set as that of capture. The buffers are
\* taken of all channels, one that has no port is NULL.
coreaudio_driver_attach ==
    /\ Core /\ cbPhase = "new"
    /\ \E n \in 0 .. cbChannels.in, k \in 0 .. cbChannels.out :
        /\ Registers(n, k)
        /\ cbPhase' = IF n < cbChannels.in THEN "crashed" ELSE "attached"
        /\ cbLatency' = OfBoth("capture", "capture")

portaudio_driver_attach ==
    /\ ~Core /\ cbPhase = "new" /\ cbPhase' = "attached"
    /\ \E n \in 0 .. cbChannels.in, k \in 0 .. cbChannels.out : Registers(n, k)
    /\ cbLatency' = OfBoth("capture", "playback")

\* coreaudio_driver_audio_start and _stop, portaudio_driver_audio_start and _stop.
Phases(from, to) ==
    /\ cbPhase = from /\ cbPhase' = to
    /\ UNCHANGED <<cbFixed, cbOpened, cbPorts, cbLatency, cbFrames, cbListeners, cbXrun, cbOut, cbSteps, cbUndefined>>

CallbackStarts == cbStream = "open" /\ Phases("attached", "running")
CallbackStops == Phases("running", "attached")

------------------------------------------------------------------------------
(* Callbacks and notifications.                                                *)

RendersOnly == cbAsk.capturing /\ cbChannels.in > 0 /\ cbChannels.out = 0

\* render: after an overload nothing is run and nothing is written; otherwise a
\* null cycle is silence, and a cycle copies a buffer for each channel.
render ==
    /\ Core /\ cbPhase = "running" /\ cbChannels.out > 0
    /\ cbXrun' = FALSE
    /\ \E cycle \in {"run", "null"} :
        /\ cbOut' = IF cbXrun THEN "stale" ELSE IF cycle = "null" THEN "silence" ELSE "ports"
        /\ cbPhase' = IF ~cbXrun /\ cycle = "run" /\ cbPorts.out < cbChannels.out THEN "crashed" ELSE "running"
    /\ UNCHANGED <<cbFixed, cbOpened, cbPorts, cbLatency, cbFrames, cbListeners, cbSteps, cbUndefined>>

\* render_input, of a device that only captures.
render_input ==
    /\ Core /\ cbPhase = "running" /\ RendersOnly /\ cbXrun' = FALSE
    /\ UNCHANGED <<cbFixed, cbPhase, cbOpened, cbPorts, cbLatency, cbFrames, cbListeners, cbOut, cbSteps, cbUndefined>>

\* paCallback: portaudio_driver_write clears all channels and fills those whose
\* port is connected; portaudio_driver_null_cycle clears them.
paCallback ==
    /\ ~Core /\ cbPhase = "running"
    /\ cbOut' \in (IF cbChannels.out = 0 THEN {cbOut} ELSE {"ports", "silence"})
    /\ UNCHANGED <<cbFixed, cbPhase, cbOpened, cbPorts, cbLatency, cbFrames, cbListeners, cbXrun, cbSteps, cbUndefined>>

\* notification, of the system's own thread, at any time a listener is there.
Overloads ==
    /\ "overload" \in cbListeners /\ cbPhase \in {"attached", "running", "refused", "deleted"}
    /\ cbUndefined' = (cbUndefined \/ cbPhase \in {"deleted", "refused"})
    /\ cbXrun' = TRUE /\ cbSteps' = cbSteps \cup {"overload"}
    /\ UNCHANGED <<cbFixed, cbPhase, cbOpened, cbPorts, cbLatency, cbFrames, cbListeners, cbOut>>

\* The formats of the unit follow the device's new rate; the driver and the
\* engine keep theirs.
RateChanges ==
    /\ "rate" \in cbListeners /\ cbPhase \in {"attached", "running", "deleted"}
    /\ cbRate' \in BOOLEAN /\ cbUndefined' = (cbUndefined \/ cbPhase = "deleted")
    /\ UNCHANGED <<cbFixed, cbPhase, cbDevices, cbChannels, cbStream, cbPorts, cbLatency, cbFrames, cbListeners, cbXrun, cbOut, cbSteps>>

------------------------------------------------------------------------------
(* Changing the period, and the end.                                           *)

\* coreaudio_driver_bufsize does nothing, and says that it is done.
coreaudio_driver_bufsize == Core /\ Phases("running", "running")

\* What portaudio_driver_set_parameters makes of the drivers' frames:
\* period_usecs is computed before they change.
SetFrames(frames, engine) == [driver |-> frames, period |-> cbFrames.driver, engine |-> engine]

\* portaudio_driver_bufsize, with a power of two: the stream is closed and
\* opened on the default devices, and started again whatever came of it.
portaudio_driver_bufsize ==
    /\ ~Core /\ cbPhase = "running"
    /\ \E frames \in CallbackFrames :
        \/ \E engine \in {cbFrames.engine, frames} :
            /\ cbFrames' = SetFrames(frames, engine) /\ cbPhase' = "running" /\ cbStream' = "open"
            /\ cbDevices' = OfBoth(IF cbAsk.capturing THEN DefaultIn ELSE NoUid, IF cbAsk.playing THEN DefaultOut ELSE NoUid)
            /\ cbSteps' = cbSteps \cup {"resize"} \cup (IF engine = frames THEN {} ELSE {"engine"})
            /\ UNCHANGED cbUndefined
        \/ /\ cbStream' = "closed" /\ cbPhase' = "attached"
           /\ cbSteps' = cbSteps \cup {"open"} /\ cbUndefined' = TRUE
           /\ UNCHANGED <<cbFrames, cbDevices>>
    /\ UNCHANGED <<cbFixed, cbChannels, cbRate, cbPorts, cbLatency, cbListeners, cbXrun, cbOut>>

\* coreaudio_driver_detach, portaudio_driver_detach
CallbackDetaches ==
    /\ cbPhase = "attached" /\ cbPhase' = "detached" /\ cbPorts' = OfBoth(0, 0)
    /\ UNCHANGED <<cbFixed, cbOpened, cbLatency, cbFrames, cbListeners, cbXrun, cbOut, cbSteps, cbUndefined>>

\* coreaudio_driver_delete removes one of its two listeners.
\* portaudio_driver_delete closes the stream, once more if that was done.
CallbackDeletes ==
    /\ cbPhase \in {"attached", "detached"} /\ cbPhase' = "deleted"
    /\ cbListeners' = cbListeners \ {"overload"}
    /\ cbUndefined' = (cbUndefined \/ cbStream = "closed") /\ cbStream' = "closed"
    /\ UNCHANGED <<cbFixed, cbDevices, cbChannels, cbRate, cbPorts, cbLatency, cbFrames, cbXrun, cbOut, cbSteps>>

CallbackNext ==
    \/ coreaudio_driver_new \/ portaudio_driver_new
    \/ CallbackRefused \/ coreaudio_driver_attach \/ portaudio_driver_attach
    \/ CallbackStarts \/ CallbackStops
    \/ render \/ render_input \/ paCallback \/ Overloads \/ RateChanges
    \/ coreaudio_driver_bufsize \/ portaudio_driver_bufsize
    \/ CallbackDetaches \/ CallbackDeletes

CallbackSpec == CallbackInit /\ [][CallbackNext]_cbVars

------------------------------------------------------------------------------
(* What CallbackInv puts together.                                      *)

\* A device is handed what the ports hold, or silence; what was in its buffer
\* before only in the callback after an overload.
OutputIsFilled == cbOut = "stale" => "overload" \in cbSteps

\* A callback never meets a channel without a port, unless a port could not be
\* registered.
ChannelsHavePorts ==
    cbPhase \in {"attached", "running"} /\ "port" \notin cbSteps => cbPorts = cbChannels

CrashesAreExplained == cbPhase = "crashed" => "port" \in cbSteps \/ cbUndefined

DeviceHas(d, direction, n) == n > 0 => d # NoUid /\ SoundDevices[d][direction] >= n

\* Driver, engine and the duration of a period agree, and each device has the
\* channels that it is used with, as long as the period was not changed.
AsOpened ==
    cbPhase \in {"attached", "running"} /\ "resize" \notin cbSteps =>
        /\ cbFrames.driver = cbFrames.engine /\ cbFrames.period = cbFrames.driver
        /\ DeviceHas(cbDevices.in, "in", cbChannels.in)
        /\ DeviceHas(cbDevices.out, "out", cbChannels.out)

\* After a change they agree unless the engine refused; the duration is that of
\* the period before.
ChangeIsTold ==
    cbPhase = "running" /\ "engine" \notin cbSteps => cbFrames.driver = cbFrames.engine

\* Memory and streams are not used after their end, but for a notification of
\* CoreAudio, whose listener stays, and a stream that could not be opened again.
EndsAreClean ==
    cbUndefined => \/ Core /\ (cbListeners # {} \/ cbPhase = "crashed")
                   \/ ~Core /\ "open" \in cbSteps

\* What devices whose sound system calls the driver are opened as and handed.
CallbackInv ==
    /\ OutputIsFilled /\ ChannelsHavePorts /\ CrashesAreExplained
    /\ AsOpened /\ ChangeIsTold /\ EndsAreClean
==============================================================================
