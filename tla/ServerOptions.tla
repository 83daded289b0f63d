---------------------------- MODULE ServerOptions ----------------------------
(* How options become a server: jackd's command line and the parameters of a   *)
(* server in the control API (jackd/jackd.c, jackd/controlapi.c), which keep   *)
(* the same settings in two places, and the specifications of the internal     *)
(* clients to load. What the registry does at a start is in ShmRegistry.       *)
EXTENDS Integers, Sequences, SequencesExt, TLC

CONSTANTS
    MaxTyped,       \* the options of jackd before its driver
    MaxCalls        \* the calls of a program that keeps a server

VARIABLES
    typed,          \* jackd's options: [letter, value]
    settings,       \* name of a parameter -> [value, is_set]
    engine_args,    \* what the engine was made with, or NoArgs
    nonrealtime,    \* the server was started without real time before
    calls

serverOptionVars == <<typed, settings, engine_args, nonrealtime, calls>>

NoArgs == <<>>
NoValue == "none"

-----------------------------------------------------------------------------
(* jackd *)

jackd_globals ==
    [realtime |-> TRUE, realtime_priority |-> 10, do_mlock |-> TRUE, do_unlock |-> FALSE,
     name |-> "default", temporary |-> FALSE, verbose |-> FALSE, client_timeout |-> 0,
     port_max |-> 256, nozombies |-> FALSE, timeout_count_threshold |-> 0,
     replace_registry |-> FALSE, clock_source |-> "system", midi_buffer_size |-> 0,
     do_sanity_checks |-> TRUE, show_version |-> FALSE, silent |-> FALSE,
     slave_drivers |-> <<>>, load_list |-> <<>>, ends |-> "no"]

\* The switches, and the globals that take a value.
Switches ==
    [m |-> [do_mlock |-> FALSE], N |-> [do_sanity_checks |-> FALSE], r |-> [realtime |-> FALSE],
     R |-> [realtime |-> TRUE], s |-> [silent |-> TRUE], S |-> <<>>, T |-> [temporary |-> TRUE],
     u |-> [do_unlock |-> TRUE], v |-> [verbose |-> TRUE], V |-> [show_version |-> TRUE],
     Z |-> [nozombies |-> TRUE], W |-> [replace_registry |-> TRUE], h |-> [ends |-> "usage"],
     D |-> [ends |-> "usage"], C0 |-> [timeout_count_threshold |-> 250], l |-> [ends |-> "tmpdir"]]

Valued ==
    [M |-> "midi_buffer_size", n |-> "name", p |-> "port_max", P |-> "realtime_priority",
     t |-> "client_timeout", C |-> "timeout_count_threshold"]

\* -D is not among the letters getopt was given, so it is unknown like -h is known.
\* --replace-registry has no letter, W stands for it; C0 is -C without its value.
main_option(g, o) ==
    LET clocks == [h |-> "hpet", c |-> "system", s |-> "system"]
    IN  IF g.ends # "no" THEN g
        ELSE CASE o.letter \in DOMAIN Switches -> Switches[o.letter] @@ g
               [] o.letter \in DOMAIN Valued -> (Valued[o.letter] :> o.value) @@ g
               [] o.letter = "X" -> [g EXCEPT !.slave_drivers = Append(@, o.value)]
               [] o.letter = "I" -> [g EXCEPT !.load_list = Append(@, o.value)]
               [] o.letter = "c" -> IF o.value \in DOMAIN clocks THEN [g EXCEPT !.clock_source = clocks[o.value]]
                                    ELSE [g EXCEPT !.ends = "usage"]
               [] OTHER -> g

main_options == FoldLeft(main_option, jackd_globals, typed)

\* Old control programs give -X seq to the driver: it is a slave driver now. Only the
\* first -X counts.
main_driver_args(slaves, args) ==
    LET marks == {i \in DOMAIN args : args[i] \in {"-X", "-Xseq"}}
        first == CHOOSE i \in marks : \A j \in marks : i <= j
        seq == \/ args[first] = "-Xseq"
               \/ first < Len(args) /\ args[first + 1] = "seq"
    IN  IF marks # {} /\ seq THEN Append(slaves, "alsa_midi") ELSE slaves

\* A server that does not run in real time gives its clients half a second.
Timeout(realtime, client_timeout) ==
    IF ~realtime /\ client_timeout = 0 THEN 500 ELSE client_timeout

EngineArgs == {"realtime", "realtime_priority", "do_mlock", "do_unlock", "name", "temporary",
               "verbose", "client_timeout", "port_max", "nozombies", "timeout_count_threshold"}

jack_main(g) ==
    [f \in EngineArgs |-> IF f = "client_timeout" THEN Timeout(g.realtime, g.client_timeout) ELSE g[f]]

-----------------------------------------------------------------------------
(* Internal clients: a specification as its parts, "" where one is missing,    *)
(* and the two separators.                                                     *)

LoadSpec(name, colon, type, slash, args) ==
    [name |-> name, colon |-> colon, type |-> type, slash |-> slash, args |-> args]

\* Without a separator the one word names the client and its type.
Incorrect == [name |-> "", path |-> "", init |-> "incorrect"]

jack_load_internal_client(s) ==
    CASE ~s.slash /\ ~s.colon -> [name |-> s.type, path |-> s.type, init |-> ""]
      [] s.slash /\ s.colon ->
            LET path == IF s.type = "" THEN s.name ELSE s.type
            IN  IF s.name = "" THEN Incorrect ELSE [name |-> s.name, path |-> path, init |-> s.args]
      [] s.slash /\ ~s.colon -> Incorrect
      [] OTHER -> IF s.name = "" THEN Incorrect ELSE [name |-> s.name, path |-> s.type, init |-> ""]

Specs ==
    {x \in {LoadSpec(n, c, t, l, a) : n, t, a \in {"", "synth", "pad"}, c, l \in BOOLEAN} :
        (x.colon \/ x.name = "") /\ (x.slash \/ x.args = "")}

-----------------------------------------------------------------------------
(* The control API. *)

jackctl_server_create ==
    [realtime |-> FALSE, realtime_priority |-> 10, do_mlock |-> FALSE, do_unlock |-> FALSE,
     name |-> "default", temporary |-> FALSE, verbose |-> FALSE, client_timeout |-> 0,
     port_max |-> 128, nozombies |-> FALSE, timeout_count_threshold |-> 0,
     replace_registry |-> FALSE, clock_source |-> 0]

ServerFlags == {"realtime", "do_mlock", "do_unlock", "temporary", "verbose", "nozombies", "replace_registry"}

ServerValues(f) ==
    CASE f \in ServerFlags -> BOOLEAN
      [] f = "name" -> {"other"}
      [] OTHER -> {1, 7}

Calls ==
    /\ typed = <<>>
    /\ calls < MaxCalls
    /\ calls' = calls + 1

SetsServerParameter(f, v) ==
    /\ Calls
    /\ settings' = [settings EXCEPT ![f] = [value |-> v, is_set |-> TRUE]]
    /\ UNCHANGED <<typed, engine_args, nonrealtime>>

ResetsServerParameter(f) ==
    /\ Calls
    /\ settings[f].is_set
    /\ settings' = [settings EXCEPT ![f] = [value |-> jackctl_server_create[f], is_set |-> FALSE]]
    /\ UNCHANGED <<typed, engine_args, nonrealtime>>

\* The half second is written into the parameter.
jackctl_server_start ==
    /\ Calls
    /\ engine_args = NoArgs
    /\ settings' = [settings EXCEPT !.client_timeout.value = Timeout(settings.realtime.value, @)]
    /\ engine_args' = [f \in EngineArgs |-> settings'[f].value]
    /\ nonrealtime' = (nonrealtime \/ ~settings.realtime.value)
    /\ UNCHANGED typed

jackctl_server_stop ==
    /\ Calls
    /\ engine_args # NoArgs
    /\ engine_args' = NoArgs
    /\ UNCHANGED <<typed, settings, nonrealtime>>

-----------------------------------------------------------------------------
TypesOption ==
    /\ calls = 0
    /\ Len(typed) < MaxTyped
    /\ \/ \E l \in DOMAIN Switches : typed' = Append(typed, [letter |-> l, value |-> NoValue])
       \/ \E l \in DOMAIN Valued \ {"n"} : \E v \in {1, 7} : typed' = Append(typed, [letter |-> l, value |-> v])
       \/ typed' = Append(typed, [letter |-> "n", value |-> "other"])
       \/ typed' = Append(typed, [letter |-> "X", value |-> "alsa_midi"])
       \/ \E s \in Specs : typed' = Append(typed, [letter |-> "I", value |-> s])
       \/ \E v \in {"h", "c", "s", "x"} : typed' = Append(typed, [letter |-> "c", value |-> v])
    /\ UNCHANGED <<settings, engine_args, nonrealtime, calls>>

ServerOptionsInit ==
    /\ typed = <<>>
    /\ settings = [f \in DOMAIN jackctl_server_create |-> [value |-> jackctl_server_create[f], is_set |-> FALSE]]
    /\ engine_args = NoArgs
    /\ nonrealtime = FALSE
    /\ calls = 0

ServerOptionsNext ==
    \/ TypesOption
    \/ \E f \in DOMAIN jackctl_server_create : \E v \in ServerValues(f) : SetsServerParameter(f, v)
    \/ \E f \in DOMAIN jackctl_server_create : ResetsServerParameter(f)
    \/ jackctl_server_start
    \/ jackctl_server_stop

ServerOptionsSpec == ServerOptionsInit /\ [][ServerOptionsNext]_serverOptionVars

-----------------------------------------------------------------------------
\* Parameters whose default in jackd is another than in the control API.
OwnServerDefaults == {"realtime", "do_mlock", "port_max"}

\* jackd without options makes the server that a program makes which sets nothing but
\* those: the defaults are kept in two files.
ServersAgree ==
    LET plain == [f \in EngineArgs |-> jackctl_server_create[f]]
        same == EngineArgs \ OwnServerDefaults
    IN  typed = <<>> => \A f \in same : jack_main(main_options)[f] = plain[f]

\* A server without real time never waits for a client without a limit.
AlwaysLimited(args) == args.realtime \/ args.client_timeout > 0
ClientsAreLimited ==
    /\ main_options.ends = "no" => AlwaysLimited(jack_main(main_options))
    /\ engine_args # NoArgs => AlwaysLimited(engine_args)

\* A server in real time gives no half second, unless the server ran without real time
\* before: what that start wrote into the parameter stays there.
HalfSecondIsNotRealtime ==
    engine_args # NoArgs /\ ~nonrealtime => engine_args.client_timeout # 500

\* Every -I and -X is loaded, in the order they were given, before the driver's -X.
EverythingIsLoaded ==
    LET given(l) == SelectSeq(typed, LAMBDA o : o.letter = l)
        values(l) == [i \in DOMAIN given(l) |-> given(l)[i].value]
    IN  main_options.ends = "no" =>
            /\ main_options.load_list = values("I")
            /\ main_driver_args(main_options.slave_drivers, <<"-d", "-X", "seq", "-Xseq">>)
                  = Append(values("X"), "alsa_midi")

\* jackd.c lists four forms of a specification. Three of them load the type that is
\* named under the name that is named, or the type's; client-type/args is refused.
SpecsAreUnderstood ==
    \A i \in DOMAIN typed : typed[i].letter = "I" =>
        LET s == typed[i].value
            name == IF s.name = "" THEN s.type ELSE s.name
        IN  s.type # "" /\ (s.name # "" <=> s.colon) =>
                jack_load_internal_client(s) =
                    IF s.slash /\ ~s.colon THEN Incorrect
                    ELSE [name |-> name, path |-> s.type, init |-> s.args]

\* jackd and the control API make the servers that were asked for.
ServerOptionsInv ==
    /\ ServersAgree
    /\ ClientsAreLimited
    /\ HalfSecondIsNotRealtime
    /\ EverythingIsLoaded
    /\ SpecsAreUnderstood
==============================================================================
