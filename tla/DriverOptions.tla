---------------------------- MODULE DriverOptions ----------------------------
(* How options become the configuration of a driver. A driver describes its    *)
(* parameters by letters, each with the default that is shown to the user      *)
(* (driver_get_descriptor), and turns a list of letters and values into what   *)
(* it opens (driver_initialize). The list comes from jackd's command line      *)
(* (driver_parse.h) or from a program that sets and resets parameters          *)
(* (jackd/controlapi.c).                                                       *)
EXTENDS Integers, Sequences, SequencesExt, TLC

CONSTANTS
    DriverNames,    \* the drivers that are tried
    Built,          \* what the network driver is built with: "celt", "samplerate"
    MaxWords,       \* the options of a command line
    MaxSets         \* the values a program sets

VARIABLES
    driver,         \* the name of the driver
    words,          \* the options typed: [letter, shape, value]
    set_parameters, \* the driver's list of [letter, value]
    parameters,     \* letter -> [value, is_set, listed], what the control API keeps
    sets            \* every value set, in order

optionVars == <<driver, words, set_parameters, parameters, sets>>

-----------------------------------------------------------------------------
(* The descriptors: the default of every letter; which letters are flags (Bool) *)
(* and which take text. All others are numbers. Then driver_initialize: what    *)
(* it starts from, the fields a letter's value goes to, the fields a letter     *)
(* sets whatever its value, the letters whose value "none" keeps the name, and  *)
(* whether no direction means both.                                             *)

Both == [capture |-> TRUE, playback |-> TRUE]
Directions == [C |-> [capture |-> TRUE], P |-> [playback |-> TRUE], D |-> Both]
Nowhere == [capture |-> FALSE, playback |-> FALSE]
NoEffect == <<>>
DeviceNames == {"capture_name", "playback_name"}

alsa_descriptor ==
    [flags |-> {"H", "M", "D", "s", "m", "S"}, texts |-> {"C", "P", "d", "z", "X"},
     shown |-> [C |-> "none", P |-> "none", d |-> "hw:0", r |-> 48000, p |-> 1024, n |-> 2,
                H |-> FALSE, M |-> FALSE, D |-> TRUE, s |-> FALSE, m |-> FALSE, z |-> "n",
                i |-> 0, o |-> 0, S |-> FALSE, I |-> 0, O |-> 0, X |-> "none"]]

alsa_initialize ==
    [start |-> Nowhere @@ [srate |-> 48000, period |-> 1024, nperiods |-> 2,
                           playback_name |-> "hw:0", capture_name |-> "hw:0",
                           hw_monitoring |-> FALSE, hw_metering |-> FALSE, soft_mode |-> FALSE,
                           monitor |-> FALSE, dither |-> "n", chan_in |-> 0, chan_out |-> 0,
                           shorts_first |-> FALSE, in_latency |-> 0, out_latency |-> 0],
     into |-> [C |-> {"capture_name"}, P |-> {"playback_name"}, d |-> DeviceNames,
               H |-> {"hw_monitoring"}, m |-> {"monitor"}, M |-> {"hw_metering"},
               r |-> {"srate"}, p |-> {"period"}, n |-> {"nperiods"}, s |-> {"soft_mode"},
               z |-> {"dither"}, i |-> {"chan_in"}, o |-> {"chan_out"}, S |-> {"shorts_first"},
               I |-> {"in_latency"}, O |-> {"out_latency"}],
     fixed |-> Directions, names |-> {"C", "P"}, duplex |-> TRUE]

coreaudio_descriptor ==
    [flags |-> {"D", "l"}, texts |-> {"C", "P", "d"},
     shown |-> [c |-> 2, i |-> 2, o |-> 2, C |-> "will take default CoreAudio input device",
                P |-> "will take default CoreAudio output device", D |-> TRUE, r |-> 44100,
                p |-> 128, d |-> "will take default CoreAudio device name", I |-> 0, O |-> 0,
                l |-> FALSE]]

coreaudio_initialize ==
    [start |-> Nowhere @@ [srate |-> 44100, period |-> 128, chan_in |-> 0, chan_out |-> 0,
                           capture_name |-> "", playback_name |-> "",
                           in_latency |-> 0, out_latency |-> 0],
     into |-> [d |-> DeviceNames, c |-> {"chan_in", "chan_out"}, i |-> {"chan_in"},
               o |-> {"chan_out"}, C |-> {"capture_name"}, P |-> {"playback_name"},
               r |-> {"srate"}, p |-> {"period"}, I |-> {"in_latency"}, O |-> {"out_latency"}],
     fixed |-> Directions, names |-> {"C", "P"}, duplex |-> TRUE]

portaudio_descriptor ==
    [flags |-> {"C", "P", "D"}, texts |-> {"n", "z"},
     shown |-> [c |-> 0, i |-> 0, o |-> 0, C |-> TRUE, P |-> TRUE, D |-> TRUE, r |-> 48000,
                p |-> 1024, n |-> "byte 128", z |-> "-"]]

portaudio_initialize ==
    [start |-> Nowhere @@ [srate |-> 48000, period |-> 1024, chan_in |-> -1, chan_out |-> -1,
                           dither |-> "-", name |-> "NULL"],
     into |-> [n |-> {"name"}, c |-> {"chan_in", "chan_out"}, i |-> {"chan_in"},
               o |-> {"chan_out"}, C |-> {"capture"}, P |-> {"playback"}, r |-> {"srate"},
               p |-> {"period"}, z |-> {"dither"}],
     fixed |-> [D |-> Both], names |-> {}, duplex |-> TRUE]

net_descriptor ==
    [flags |-> {}, texts |-> {},
     shown |-> [i |-> 2, o |-> 2, I |-> 1, O |-> 1, r |-> 48000, p |-> 1024, n |-> 5, l |-> 3000,
                f |-> 1, u |-> 0, c |-> 0, b |-> 0, t |-> 1, a |-> 1, R |-> 1, e |-> 0, J |-> 0,
                D |-> 0]]

net_initialize ==
    [start |-> [capture_ports |-> 2, playback_ports |-> 2, capture_ports_midi |-> 1,
                playback_ports_midi |-> 1, sample_rate |-> 48000, period_size |-> 1024,
                listen_port |-> 3000, resample_factor |-> 1, resample_factor_up |-> 0,
                bitdepth |-> 0, handle_transport_sync |-> 1, use_autoconfig |-> 1, latency |-> 5,
                redundancy |-> 1, dont_htonl_floats |-> 0, always_deadline |-> 0,
                jitter_val |-> 0],
     into |-> [i |-> {"capture_ports"}, o |-> {"playback_ports"}, I |-> {"capture_ports_midi"},
               O |-> {"playback_ports_midi"}, r |-> {"sample_rate"}, p |-> {"period_size"},
               l |-> {"listen_port"}, f |-> {"resample_factor"}, u |-> {"resample_factor_up"},
               b |-> {"bitdepth"}, c |-> {"resample_factor"}, t |-> {"handle_transport_sync"},
               a |-> {"use_autoconfig"}, n |-> {"latency"}, R |-> {"redundancy"},
               e |-> {"dont_htonl_floats"}, J |-> {"jitter_val"}, D |-> {"always_deadline"}],
     fixed |-> [c |-> [bitdepth |-> 1000]], names |-> {}, duplex |-> FALSE]

ffado_descriptor ==
    [flags |-> {}, texts |-> {"d"},
     shown |-> [d |-> "hw:0", p |-> 1024, n |-> 3, r |-> 48000, i |-> 1, o |-> 1, I |-> 0,
                O |-> 0, x |-> 0, X |-> 0, v |-> 0]]

ffado_initialize ==
    [start |-> [device_info |-> "hw:0", period_size |-> 1024, buffer_size |-> 3,
                sample_rate |-> 48000, period_size_set |-> FALSE, buffer_size_set |-> FALSE,
                sample_rate_set |-> FALSE, playback_ports |-> 1, capture_ports |-> 1,
                playback_frame_latency |-> 0, capture_frame_latency |-> 0, slave_mode |-> 0,
                snoop_mode |-> 0, verbose_level |-> 0],
     into |-> [d |-> {"device_info"}, p |-> {"period_size"}, n |-> {"buffer_size"},
               r |-> {"sample_rate"}, i |-> {"capture_ports"}, o |-> {"playback_ports"},
               I |-> {"capture_frame_latency"}, O |-> {"playback_frame_latency"},
               x |-> {"slave_mode"}, X |-> {"snoop_mode"}, v |-> {"verbose_level"}],
     fixed |-> [p |-> [period_size_set |-> TRUE], n |-> [buffer_size_set |-> TRUE],
                r |-> [sample_rate_set |-> TRUE]],
     names |-> {}, duplex |-> FALSE]

freebob_descriptor ==
    [flags |-> {"C", "P", "D"}, texts |-> {"d"},
     shown |-> [d |-> "hw:0", p |-> 1024, n |-> 3, r |-> 48000, C |-> FALSE, P |-> FALSE,
                D |-> TRUE, I |-> 0, O |-> 0, i |-> 0, o |-> 0]]

\* capture_ports and playback_ports are 0 or 1 here: the directions.
freebob_initialize ==
    [start |-> Nowhere @@ [device |-> "hw:0", period_size |-> 1024, buffer_size |-> 3,
                           sample_rate |-> 48000, period_size_set |-> FALSE,
                           buffer_size_set |-> FALSE, sample_rate_set |-> FALSE,
                           playback_frame_latency |-> 0, capture_frame_latency |-> 0],
     into |-> [d |-> {"device"}, p |-> {"period_size"}, n |-> {"buffer_size"},
               r |-> {"sample_rate"}, I |-> {"capture_frame_latency"},
               O |-> {"playback_frame_latency"}],
     fixed |-> Directions @@ [p |-> [period_size_set |-> TRUE], n |-> [buffer_size_set |-> TRUE],
                              r |-> [sample_rate_set |-> TRUE]],
     names |-> {}, duplex |-> TRUE]

dummy_descriptor ==
    [flags |-> {}, texts |-> {}, shown |-> [C |-> 2, P |-> 2, r |-> 48000, p |-> 1024, w |-> 21333]]

dummy_initialize ==
    [start |-> [capture_ports |-> 2, playback_ports |-> 2, sample_rate |-> 48000,
                period_size |-> 1024, wait_time |-> 0, wait_time_set |-> FALSE],
     into |-> [C |-> {"capture_ports"}, P |-> {"playback_ports"}, r |-> {"sample_rate"},
               p |-> {"period_size"}, w |-> {"wait_time"}],
     fixed |-> [w |-> [wait_time_set |-> TRUE]], names |-> {}, duplex |-> FALSE]

oss_params ==
    [flags |-> {"b"}, texts |-> {"C", "P"},
     shown |-> [r |-> 48000, p |-> 1024, n |-> 2, w |-> 16, i |-> 2, o |-> 2, C |-> "/dev/dsp",
                P |-> "/dev/dsp", b |-> FALSE, I |-> 0, O |-> 0]]

oss_initialize ==
    [start |-> [sample_rate |-> 48000, period_size |-> 1024, nperiods |-> 2, bits |-> 16,
                capture_channels |-> 2, playback_channels |-> 2, indev |-> "/dev/dsp",
                outdev |-> "/dev/dsp", ignorehwbuf |-> FALSE, in_latency |-> 0,
                out_latency |-> 0],
     into |-> [r |-> {"sample_rate"}, p |-> {"period_size"}, n |-> {"nperiods"}, w |-> {"bits"},
               i |-> {"capture_channels"}, o |-> {"playback_channels"}, C |-> {"indev"},
               P |-> {"outdev"}, I |-> {"in_latency"}, O |-> {"out_latency"}],
     fixed |-> [b |-> [ignorehwbuf |-> TRUE]], names |-> {}, duplex |-> FALSE]

sun_params ==
    [oss_params EXCEPT !.shown = [C |-> "/dev/audio", P |-> "/dev/audio"] @@ @]

sun_initialize ==
    [oss_initialize EXCEPT !.start = [indev |-> "/dev/audio", outdev |-> "/dev/audio"] @@ @]

sndio_params ==
    [flags |-> {"b"}, texts |-> {"d"},
     shown |-> [r |-> 44100, p |-> 1024, n |-> 2, w |-> 16, i |-> 2, o |-> 2, d |-> "", b |-> FALSE,
                I |-> 0, O |-> 0]]

sndio_initialize ==
    [start |-> [sample_rate |-> 44100, period_size |-> 1024, nperiods |-> 2, bits |-> 16,
                capture_channels |-> 2, playback_channels |-> 2, dev |-> "",
                ignorehwbuf |-> FALSE, cap_latency |-> 0, play_latency |-> 0],
     into |-> [r |-> {"sample_rate"}, p |-> {"period_size"}, n |-> {"nperiods"}, w |-> {"bits"},
               i |-> {"capture_channels"}, o |-> {"playback_channels"}, d |-> {"dev"},
               I |-> {"cap_latency"}, O |-> {"play_latency"}],
     fixed |-> [b |-> [ignorehwbuf |-> TRUE]], names |-> {}, duplex |-> FALSE]

Descriptor ==
    [alsa |-> alsa_descriptor, coreaudio |-> coreaudio_descriptor,
     portaudio |-> portaudio_descriptor, net |-> net_descriptor, ffado |-> ffado_descriptor,
     freebob |-> freebob_descriptor, dummy |-> dummy_descriptor, oss |-> oss_params,
     sun |-> sun_params, sndio |-> sndio_params]

Initializer ==
    [alsa |-> alsa_initialize, coreaudio |-> coreaudio_initialize,
     portaudio |-> portaudio_initialize, net |-> net_initialize, ffado |-> ffado_initialize,
     freebob |-> freebob_initialize, dummy |-> dummy_initialize, oss |-> oss_initialize,
     sun |-> sun_initialize, sndio |-> sndio_initialize]

Letters == DOMAIN Descriptor[driver].shown
Flags == Descriptor[driver].flags

-----------------------------------------------------------------------------
(* driver_initialize, from a list of parameters. *)

\* What a value becomes on its way into the field. A period count below two is two;
\* the letters of the dither types are kept.
Stored(x) ==
    CASE driver = "alsa" /\ x.letter = "n" /\ x.value < 2 -> 2
      [] driver = "portaudio" /\ x.letter = "z" /\ x.value \notin {"-", "r", "s"} -> "t"
      [] OTHER -> x.value

Into(x) ==
    LET init == Initializer[driver]
        kept == x.letter \in init.names /\ x.value = "none"
    IN  IF x.letter \in DOMAIN init.into /\ ~kept THEN init.into[x.letter] ELSE {}

Fixed(x) ==
    IF x.letter \in DOMAIN Initializer[driver].fixed
    THEN Initializer[driver].fixed[x.letter]
    ELSE NoEffect

Effect(x) == [f \in Into(x) |-> Stored(x)] @@ Fixed(x)

\* dither_opt knows five letters; a Firewire device is named hw:<port>[,<node>].
Refuses(x) ==
    driver = "alsa" /\ x.letter = "z" /\ x.value \notin {"-", "n", "r", "s", "t"}

\* The network driver ends the server where it was built without the library.
Exits(x) ==
    /\ driver = "net"
    /\ \/ x.letter \in {"f", "u"} /\ "samplerate" \notin Built
       \/ x.letter = "c" /\ "celt" \notin Built

Failed(how) == [result |-> how, config |-> NoEffect]

Applied(params) == FoldLeft(LAMBDA config, x : Effect(x) @@ config, Initializer[driver].start, params)

\* Neither direction asked for means both; the dummy driver waits for a period.
Completed(config) ==
    CASE Initializer[driver].duplex /\ ~(config.capture \/ config.playback) -> Both @@ config
      [] driver = "dummy" /\ ~config.wait_time_set ->
            [config EXCEPT !.wait_time = (config.period_size * 1000000) \div config.sample_rate]
      [] OTHER -> config

driver_initialize(params) ==
    LET has(P(_)) == \E i \in DOMAIN params : P(params[i])
        config == Completed(Applied(params))
    IN  IF has(Exits) THEN Failed("exit")
        ELSE IF has(Refuses) \/ (driver = "freebob" /\ config.device \notin {"hw:0", "hw:1"}) THEN Failed("refused")
        ELSE [result |-> "opened", config |-> config]

-----------------------------------------------------------------------------
(* The command line: an option takes the next word as its value unless that     *)
(* begins with a minus, which makes it an option of its own.                    *)

Understood(w) == w.letter \in Letters /\ w.shape # "negative"

ParsedWord(w) ==
    [letter |-> w.letter,
     value |-> CASE w.shape = "valued" -> w.value
                 [] w.shape # "valued" /\ w.letter \in Flags -> TRUE
                 [] OTHER -> Descriptor[driver].shown[w.letter]]

\* jackd ends at the first option it does not know.
jack_parse_driver_params ==
    IF \A i \in DOMAIN words : Understood(words[i])
    THEN driver_initialize([i \in DOMAIN words |-> ParsedWord(words[i])])
    ELSE Failed("exit")

Values(letter) ==
    CASE letter \in Flags -> BOOLEAN
      [] letter = "z" -> {"r", "?"}
      [] letter \in Descriptor[driver].texts \ {"z"} -> {"none", "hw:1"}
      [] OTHER -> {1, 7}

Typed(l, s, v) ==
    /\ sets = <<>>
    /\ Len(words) < MaxWords
    /\ words' = Append(words, [letter |-> l, shape |-> s, value |-> v])
    /\ UNCHANGED <<driver, set_parameters, parameters, sets>>

Types ==
    \/ \E l \in Letters \cup {"?"} : \E s \in {"alone", "negative"} : Typed(l, s, "no value")
    \/ \E l \in Letters : \E v \in Values(l) : Typed(l, "valued", v)

-----------------------------------------------------------------------------
(* The control API. *)

jackctl_add_driver_parameters(d) ==
    [l \in DOMAIN Descriptor[d].shown |->
        [value |-> Descriptor[d].shown[l], is_set |-> FALSE, listed |-> FALSE]]

\* Mutated form: the list keeps the first value of a letter.
jackctl_parameter_set_value_Once(l, v) ==
    /\ words = <<>>
    /\ Len(sets) < MaxSets
    /\ set_parameters' =
         IF parameters[l].listed
         THEN set_parameters
         ELSE Append(set_parameters, [letter |-> l, value |-> v])
    /\ parameters' = [parameters EXCEPT ![l] = [value |-> v, is_set |-> TRUE, listed |-> TRUE]]
    /\ sets' = Append(sets, [letter |-> l, value |-> v])
    /\ UNCHANGED <<driver, words>>

\* The letter is listed by the first call; later ones change its entry.
jackctl_parameter_set_value(l, v) ==
    /\ words = <<>>
    /\ Len(sets) < MaxSets
    /\ set_parameters' =
         IF parameters[l].listed
         THEN [i \in DOMAIN set_parameters |->
                 IF set_parameters[i].letter = l THEN [letter |-> l, value |-> v] ELSE set_parameters[i]]
         ELSE Append(set_parameters, [letter |-> l, value |-> v])
    /\ parameters' = [parameters EXCEPT ![l] = [value |-> v, is_set |-> TRUE, listed |-> TRUE]]
    /\ sets' = Append(sets, [letter |-> l, value |-> v])
    /\ UNCHANGED <<driver, words>>

\* The driver's list keeps the entry.
jackctl_parameter_reset(l) ==
    /\ parameters[l].is_set
    /\ parameters' = [parameters EXCEPT ![l].value = Descriptor[driver].shown[l], ![l].is_set = FALSE]
    /\ UNCHANGED <<driver, words, set_parameters, sets>>

-----------------------------------------------------------------------------
OptionsInit ==
    /\ driver \in DriverNames
    /\ words = <<>>
    /\ set_parameters = <<>>
    /\ parameters = jackctl_add_driver_parameters(driver)
    /\ sets = <<>>

OptionsNext ==
    \/ Types
    \/ \E l \in Letters : \E v \in Values(l) : jackctl_parameter_set_value(l, v)
    \/ \E l \in Letters : jackctl_parameter_reset(l)

OptionsSpec == OptionsInit /\ [][OptionsNext]_optionVars

-----------------------------------------------------------------------------
\* What the driver is opened with from either source.
Openings == {jack_parse_driver_params, driver_initialize(set_parameters)}

\* A driver that distinguishes directions opens one at least.
OpensADirection ==
    \A o \in Openings :
        o.result = "opened" /\ Initializer[driver].duplex => o.config.capture \/ o.config.playback

\* The letters that were listed and may change a field.
WrittenBy(f) ==
    {set_parameters[i].letter : i \in {j \in DOMAIN set_parameters : f \in DOMAIN Effect(set_parameters[j])}}

\* What a program set, and did not reset, is what the driver is opened with, however
\* often and in whatever order values were set, unless another letter changes the same
\* field: the list the driver gets and the values the program sees are kept apart. A
\* direction that is switched off may be on all the same, when no other is.
SetReachesDriver ==
    LET o == driver_initialize(set_parameters)
    IN  o.result = "opened" => \A l \in Letters :
            LET x == [letter |-> l, value |-> parameters[l].value]
            IN  parameters[l].is_set => \A f \in Into(x) :
                    \/ WrittenBy(f) # {l}
                    \/ o.config[f] = Stored(x)
                    \/ f \in DOMAIN Both /\ ~x.value

\* The letters whose shown default is not what the driver starts from.
OwnDefaults ==
    [coreaudio |-> {"c", "i", "o", "d", "C", "P"}, portaudio |-> {"c", "i", "o", "n", "C", "P"},
     net |-> {"c"}]

\* A letter nobody set means what is shown for it: the tables that describe a driver
\* and the values it starts from are kept apart. The dummy driver's wait is shown for
\* its default period and rate.
ShownIsUsed ==
    LET o == driver_initialize(set_parameters)
        touched == {set_parameters[i].letter : i \in DOMAIN set_parameters}
    IN  o.result = "opened" => \A l \in Letters \ touched :
            LET x == [letter |-> l, value |-> Descriptor[driver].shown[l]]
            IN  \A f \in Into(x) :
                    \/ WrittenBy(f) # {}
                    \/ driver \in DOMAIN OwnDefaults /\ l \in OwnDefaults[driver]
                    \/ driver = "dummy" /\ l = "w" /\ touched \cap {"p", "r"} # {}
                    \/ o.config[f] = Stored(x)

\* An option without a value means its default, so it may as well be left out, but
\* where it names a direction or the default is not what the driver starts from.
LoneOptionChangesNothing ==
    Len(words) = 1 /\ words[1].shape = "alone" =>
        LET l == words[1].letter
        IN  \/ l \notin Letters \/ l \in Flags \cup DOMAIN Initializer[driver].fixed
            \/ driver \in DOMAIN OwnDefaults /\ l \in OwnDefaults[driver]
            \/ jack_parse_driver_params = driver_initialize(<<>>)
            \/ jack_parse_driver_params.result = "exit"

\* control.h, of jackctl_parameter_reset: "Call this function to reset parameter to
\* its default value." The driver's list keeps the value that was set.
ResetReachesDriver ==
    \A i \in DOMAIN set_parameters : parameters[set_parameters[i].letter].is_set

\* Options reach the driver as they are shown.
DriverOptionsInv ==
    /\ OpensADirection
    /\ SetReachesDriver
    /\ ShownIsUsed
    /\ LoneOptionChangesNothing
==============================================================================
