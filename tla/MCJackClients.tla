---------------------------- MODULE MCJackClients ----------------------------
(* What the engine keeps for its clients, for TLC: the graph of their          *)
(* connections, the ports with their buffers, the clients with their names and *)
(* UUIDs, and how processes become clients of a server they find or start. The *)
(* models share no state; "part" names the one that a behaviour runs. Two      *)
(* processes and two names serve ports and clients, and each pair may be       *)
(* exchanged; the graph has clients of its own.                                *)
EXTENDS JackGraph, JackPorts, JackClients, JackOpen, TLC

CONSTANTS
    Parts,              \* the parts that are run: "graph", "ports", "clients", "open"
    a, b, synth, mixer,
    drv, ext, int, eo, ei, io, ii, play

VARIABLE part

allVars == <<part, vars, portVars, clientVars, openVars>>
Symmetry == Permutations({a, b}) \cup Permutations({synth, mixer})

\* Two clients that can feed each other, feed themselves and the driver.
GraphOwner ==
    [p \in {eo, ei, io, ii, play} |->
        IF p \in {eo, ei} THEN ext ELSE IF p = play THEN drv ELSE int]

TablesInit ==
    /\ part \in Parts
    /\ IF part = "ports" THEN PortsInit ELSE PortsIdle /\ buffer_size = 1
    /\ Init /\ ClientsInit
    /\ OpenInit /\ (part = "open" \/ svAt[User] = "none")

TablesNext ==
    \/ part = "graph" /\ Next /\ UNCHANGED <<part, portVars, clientVars, openVars>>
    \/ part = "ports" /\ PortsNext /\ UNCHANGED <<part, vars, clientVars, openVars>>
    \/ part = "clients" /\ ClientsNext /\ UNCHANGED <<part, vars, portVars, openVars>>
    \/ part = "open" /\ OpenNext /\ UNCHANGED <<part, vars, portVars, clientVars>>

TablesSpec == TablesInit /\ [][TablesNext]_allVars
==============================================================================
