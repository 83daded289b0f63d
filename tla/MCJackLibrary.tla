---------------------------- MODULE MCJackLibrary ----------------------------
(* The parts of libjack that stand on their own, for TLC: the ring buffer, the *)
(* MIDI buffers of ports, the registry of shared memory, the properties of     *)
(* ports and their latencies. They share no state; "part" names the one that a *)
(* behaviour runs.                                                             *)
EXTENDS RingBuffer, MidiPort, ShmRegistry, JackMetadata, JackLatency, TLC

CONSTANTS
    Parts,              \* the parts that are run: "ring", "midi", "shm", "metadata", "latency"
    p1, p2, p3, srv1, srv2, app, port1, port2, pretty, hint

VARIABLE part

vars == <<part, ringVars, midiVars, shmVars, metadataVars, latencyVars>>
Symmetry == Permutations(Procs) \cup Permutations(ServerNames)

\* One client describes the two ports it has.
PortsOfApp == (port1 :> app) @@ (port2 :> app)
DescribesItsOwn == {app} \X {port1, port2}

\* An effect that adds to what it takes in, before a mixer of two inputs.
InputPorts == ("effect" :> {"in"}) @@ ("mixer" :> {"left", "right"}) @@ ("driver" :> {"playback"})
OutputPorts == ("effect" :> {"out"}) @@ ("mixer" :> {"mix"}) @@ ("driver" :> {"capture"})
Delays == ("effect" :> 3) @@ ("mixer" :> 0)

Init ==
    /\ part \in Parts
    /\ RingInit /\ MidiInit /\ ShmInit /\ MetadataInit
    /\ LatencyInit /\ (part = "latency" \/ (ltKind = "plain" /\ ltOrder[1] = "mixer" /\ ltFrames = 1))

Next ==
    \/ part = "ring" /\ RingNext /\ UNCHANGED <<part, midiVars, shmVars, metadataVars, latencyVars>>
    \/ part = "midi" /\ MidiNext /\ UNCHANGED <<part, ringVars, shmVars, metadataVars, latencyVars>>
    \/ part = "shm" /\ ShmNext /\ UNCHANGED <<part, ringVars, midiVars, metadataVars, latencyVars>>
    \/ part = "metadata" /\ MetadataNext /\ UNCHANGED <<part, ringVars, midiVars, shmVars, latencyVars>>
    \/ part = "latency" /\ LatencyNext /\ UNCHANGED <<part, ringVars, midiVars, shmVars, metadataVars>>

Spec == Init /\ [][Next]_vars
==============================================================================
