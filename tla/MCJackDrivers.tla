---------------------------- MODULE MCJackDrivers ----------------------------
(* The drivers of jackd, for TLC, the packets of the one that drives the cycle *)
(* from the network, and the options that drivers and the server are opened    *)
(* with. Only one driver is loaded; "part" names what a behaviour runs.        *)
EXTENDS NetJack, NetPacket, AlsaDriver, BsdDrivers, DriverOptions, ServerOptions,
        FirewireDrivers, FirewireMidi, CallbackDrivers, TLC

CONSTANTS Parts     \* what is run: "net", "packet", "alsa", "oss", "bsd", "options", "server",
                    \* "firewire", "firemidi", "callback"

VARIABLE part

driverVars == <<netVars, packetVars, alsaVars, ossVars, bsdVars, optionVars, serverOptionVars,
                fireVars, fmVars, cbVars>>
vars == <<part, driverVars>>

\* Cards with one playback channel: a linked pair that is granted a longer ring,
\* one that is not linked, and cards for one direction, of which the one that plays
\* is granted a longer ring as well, so that every wakeup runs two cycles.
Cards == {<<{"playback", "capture"}, 3, TRUE>>, <<{"playback", "capture"}, 2, FALSE>>,
          <<{"playback"}, 3, FALSE>>, <<{"capture"}, 2, FALSE>>}

\* Events with data that may be taken for a time or a size.
SomeEvents == {[time |-> 1, quads |-> 1, data |-> 0], [time |-> 2, quads |-> 2, data |-> 5],
               [time |-> 0, quads |-> 4, data |-> 4]}

\* FireWire devices: with MIDI behind sound, before sound, between two ports,
\* and with a stream of a type no driver knows.
FireWireDevices == {<<<<"audio", "midi">>, <<"audio", "midi">>>>, <<<<"audio", "midi", "audio">>, <<"other", "audio">>>>,
                    <<<<"midi">>, <<"audio">>>>, <<<<"audio", "other">>, <<>>>>}

\* Notes, one with velocity 0; a message with one byte of data; a realtime and
\* a system message, and a system exclusive one longer than the unpacker's buffer.
MidiMessages == {<<144, 5, 5>>, <<144, 5, 0>>, <<192, 5>>, <<248>>, <<241, 5>>, <<240, 5, 5, 5, 247>>}

\* A card for both directions, and a microphone.
SoundCards == ("card" :> [in |-> 2, out |-> 2]) @@ ("mic" :> [in |-> 1, out |-> 0])
AskedFor == [capturing : {TRUE}, playing : {TRUE}, in : {0}, out : {0}]
            \cup [capturing : {TRUE}, playing : {TRUE}, in : {2}, out : {1}]
            \cup [capturing : {TRUE}, playing : {FALSE}, in : {0}, out : {0}]

\* The drivers that are not run stay in one initial state.
Init ==
    /\ part \in Parts
    /\ NetInit /\ (part = "net" \/ (srcaddress = NoMaster /\ ~always_deadline))
    /\ PacketInit /\ (part = "packet" \/ (mtu = 6 /\ packet_size = 3))
    /\ AlsaInit /\ (part = "alsa" \/ (handles = {"playback"} /\ frames_per_cycle = 1))
    /\ OssInit /\ (part = "oss" \/ (fds = {"in"} /\ useBarrier))
    /\ BsdInit /\ (part = "bsd" \/ (kind = "sun" /\ prime = 2))
    /\ OptionsInit /\ (part = "options" \/ driver = "dummy")
    /\ ServerOptionsInit
    /\ FireInit
    /\ (part = "firewire" \/ (fireApi = "ffado" /\ fireDevice = <<<<"midi">>, <<"audio">>>> /\ firePeriod.driver = 1))
    /\ FirewireMidiInit /\ (part = "firemidi" \/ fmPath = "ffado")
    /\ CallbackInit
    /\ (part = "callback" \/ (cbApi = "coreaudio" /\ cbAsk.in = 2 /\ cbUids = <<NoUid, NoUid>> /\ cbFrames.driver = 1))

Rests(name, own) == IF part = name THEN TRUE ELSE UNCHANGED own

Next ==
    /\ \/ part = "net" /\ NetNext
       \/ part = "packet" /\ PacketNext
       \/ part = "alsa" /\ AlsaNext
       \/ part = "oss" /\ OssNext
       \/ part = "bsd" /\ BsdNext
       \/ part = "options" /\ OptionsNext
       \/ part = "server" /\ ServerOptionsNext
       \/ part = "firewire" /\ FireNext
       \/ part = "firemidi" /\ FirewireMidiNext
       \/ part = "callback" /\ CallbackNext
    /\ UNCHANGED part
    /\ Rests("net", netVars)
    /\ Rests("packet", packetVars)
    /\ Rests("alsa", alsaVars)
    /\ Rests("oss", ossVars)
    /\ Rests("bsd", bsdVars)
    /\ Rests("options", optionVars)
    /\ Rests("server", serverOptionVars)
    /\ Rests("firewire", fireVars)
    /\ Rests("firemidi", fmVars)
    /\ Rests("callback", cbVars)

Spec == Init /\ [][Next]_vars

\* What is given at one end is what the other end has: what was typed or set when
\* drivers and servers are opened, and what is put on a wire, of the network or of
\* FireWire, when it comes off again.
PassedOnInv ==
    /\ part = "options" => DriverOptionsInv
    /\ part = "server" => ServerOptionsInv
    /\ part = "packet" => PacketInv
    /\ part = "firemidi" => MessagesArriveWhole
==============================================================================
