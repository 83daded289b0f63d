----------------------------- MODULE JackClients -----------------------------
(* How clients of jackd come and go: jack_client_create and the event         *)
(* connection that follows it, internal clients, reserved names, and removal  *)
(* (jackd/clientengine.c; jack_client_open in libjack/client.c). All of it    *)
(* but the steps of the client processes runs in the server thread.           *)
EXTENDS Integers, Sequences, FiniteSets, SequencesExt

CONSTANTS
    Procs,          \* processes that open a client, one at a time
    Keys,           \* client structures, 1 to some number; a freed one is used again
    Bases,          \* names that are asked for
    MaxExtra,       \* how often a name can be made unique, 99 in the code
    Uuids,          \* UUIDs a session manager hands out, as numbers
    MaxOpens         \* bound: requests

NoProc == "none"

ASSUME ClientsAssumption == MaxExtra \in Nat /\ Keys \cup Uuids \subseteq Nat \ {0}
                     /\ Keys \cap Uuids = {} /\ NoProc \notin Procs

VARIABLES
    list,           \* engine->clients, newest first
    rec,            \* jack_client_internal_t and its control block, by key
    reserved,       \* engine->reserved_client_names
    proc,           \* what a process knows of its client
    clash,          \* two listed clients have had one UUID
    opens

clientVars == <<list, rec, reserved, proc, clash, opens>>

NoKey == 0
NoUuid == 0
NoName == [base |-> NoProc, ext |-> 0]
\* ext is 0, or the two digits jack_generate_unique_name appends.
ClientNames == [base : Bases, ext : 0 .. MaxExtra]
Plain(b) == [base |-> b, ext |-> 0]
Listed == ToSet(list)
Out == [stage |-> "out", key |-> NoKey, promised |-> NoName]
UuidOf(k) == rec[k].uuid
OwnUuid(k) == k

jack_client_by_name(n) == \E k \in Listed : rec[k].name = n
jack_client_name_reserved(n, names) == \E i \in DOMAIN names : names[i].name = n

NameTaken(n, names) == jack_client_by_name(n) \/ jack_client_name_reserved(n, names)

\* jack_client_name_invalid and jack_generate_unique_name: the names the new
\* client may get, one or none.
UsableNames(n, exact, names) ==
    LET free == {i \in 1 .. MaxExtra : ~NameTaken([n EXCEPT !.ext = i], names)}
    IN  IF ~NameTaken(n, names) THEN {n}
        ELSE IF exact \/ free = {} THEN {}
        ELSE {[n EXCEPT !.ext = CHOOSE i \in free : \A j \in free : i <= j]}

\* jack_get_reserved_name as it is written: the first reservation that is not
\* for this UUID is taken off the list, and its name used.
NotFor(u) == {i \in DOMAIN reserved : reserved[i].uuid # u}
Taken(u) == IF u = NoUuid \/ NotFor(u) = {} THEN 0
            ELSE CHOOSE i \in NotFor(u) : \A j \in NotFor(u) : i <= j

\* The one the header has in mind.
Promised(u) ==
    LET own == {i \in DOMAIN reserved : reserved[i].uuid = u}
    IN  IF u = NoUuid \/ own = {} THEN NoName
        ELSE reserved[CHOOSE i \in own : \A j \in own : i <= j].name

\* jack_client_internal_by_id: the first in the list.
jack_client_internal_by_id(l, u) ==
    LET found == {i \in DOMAIN l : UuidOf(l[i]) = u}
    IN  IF found = {} THEN 0 ELSE CHOOSE i \in found : \A j \in found : i <= j

------------------------------------------------------------------------------
\* The server runs, with no client but its driver, whose name is the first.
ClientsInit ==
    /\ list = <<>>
    /\ rec = [k \in Keys |-> [name |-> NoName, uuid |-> NoUuid, internal |-> FALSE,
                              event |-> NoProc, broken |-> FALSE, dead |-> FALSE]]
    /\ reserved = <<>>
    /\ proc = [a \in Procs |-> Out]
    /\ clash = FALSE
    /\ opens = 0

\* jack_setup_client_control and the list: the client a gives the UUID, and
\* jack_ensure_uuid_unique clears a copy of it. Its own one is generated.
SetUp(k, n, u, internal) ==
    /\ list' = <<k>> \o list
    /\ rec' = [rec EXCEPT ![k] = [name |-> n, uuid |-> IF u = NoUuid THEN OwnUuid(k) ELSE u,
                                  internal |-> internal, event |-> NoProc,
                                  broken |-> FALSE, dead |-> FALSE]]
    /\ clash' = (clash \/ \E j \in Listed : u # NoUuid /\ UuidOf(j) = u)

\* The first structure that is free; there is always memory for one.
Malloc(k) == k \notin Listed /\ \A j \in Keys : j < k => j \in Listed

\* jack_client_create for a process that starts: it is refused, or gets a name.
\* The reservation is gone in either case.
Creates(a, k, n, u, exact) ==
    LET t == Taken(u)
        asked == IF t = 0 THEN n ELSE reserved[t].name
    IN  /\ proc[a].stage = "out"
        /\ Malloc(k)
        /\ reserved' = IF t = 0 THEN reserved ELSE RemoveAt(reserved, t)
        /\ LET names == UsableNames(asked, exact, reserved')
           IN  IF names = {}
               THEN UNCHANGED <<list, rec, proc, clash>>
               ELSE \E m \in names :
                 /\ SetUp(k, m, u, FALSE)
                 /\ proc' = [proc EXCEPT ![a] = [stage |-> "named", key |-> k,
                                                 promised |-> Promised(u)]]

\* Mutant: it must be the one that was created last.
Acknowledged_Newest(u) == IF list = <<>> THEN 0 ELSE 1

Acknowledged(u) == jack_client_internal_by_id(list, u)

\* handle_client_ack_connection: the process connects for its events.
Connects(a) ==
    /\ proc[a].stage = "named"
    /\ proc' = [proc EXCEPT ![a].stage = "open"]
    /\ LET i == Acknowledged(UuidOf(proc[a].key))
       IN  rec' = IF i = 0 THEN rec ELSE [rec EXCEPT ![list[i]].event = a]
    /\ UNCHANGED <<list, reserved, clash>>

\* jack_remove_client takes the first client with its UUID off the list.
Unlisted(l, k) ==
    LET i == jack_client_internal_by_id(l, UuidOf(k))
    IN  IF i = 0 THEN l ELSE RemoveAt(l, i)

\* jack_intclient_load_request; jack_initialize may fail.
Loads(k, n, ok) ==
    /\ Malloc(k)
    /\ UsableNames(n, TRUE, reserved) # {}
    /\ IF ok THEN SetUp(k, n, NoUuid, TRUE)
             ELSE UNCHANGED <<list, rec, clash>>
    /\ UNCHANGED <<reserved, proc>>

\* handle_unload_client
UnloadsClient(k) ==
    /\ k \in Listed
    /\ rec[k].internal
    /\ list' = Unlisted(list, k)
    /\ UNCHANGED <<rec, reserved, proc, clash>>

MayReserve(n) == ~jack_client_by_name(n)

\* jack_do_reserve_name
Reserves(n, u) ==
    /\ MayReserve(n)
    /\ Len(reserved) < 2
    /\ reserved' = Append(reserved, [name |-> n, uuid |-> u])
    /\ UNCHANGED <<list, rec, proc, clash>>

\* A process closes its client, or is killed; its sockets are gone.
Leaves(a) ==
    /\ proc[a].stage \in {"named", "open"}
    /\ proc' = [proc EXCEPT ![a] = Out]
    /\ rec' = [rec EXCEPT ![proc[a].key].broken = TRUE]
    /\ UNCHANGED <<list, reserved, clash>>

\* A late client becomes a zombie, and stays on the list until it closes.
BecomesZombie(a) ==
    /\ proc[a].stage = "open"
    /\ ~rec[proc[a].key].dead
    /\ rec' = [rec EXCEPT ![proc[a].key].dead = TRUE]
    /\ UNCHANGED <<list, reserved, proc, clash>>

\* jack_remove_clients, which the broken socket got the server thread to.
RemovesBroken(k) ==
    /\ k \in Listed
    /\ rec[k].broken
    /\ list' = Unlisted(list, k)
    /\ UNCHANGED <<rec, reserved, proc, clash, opens>>

ClientRequests ==
    /\ opens < MaxOpens
    /\ opens' = opens + 1
    /\ \/ \E a \in Procs, k \in Keys, b \in Bases, u \in Uuids \cup {NoUuid},
             exact \in BOOLEAN : Creates(a, k, Plain(b), u, exact)
       \/ \E k \in Keys, b \in Bases, ok \in BOOLEAN : Loads(k, Plain(b), ok)
       \/ \E k \in Keys : UnloadsClient(k)
       \/ \E b \in Bases, u \in Uuids : Reserves(Plain(b), u)
       \/ \E a \in Procs : Connects(a) \/ Leaves(a) \/ BecomesZombie(a)

\* What a client list with one UUID twice leads to is not followed.
ClientsNext == ~clash /\ (ClientRequests \/ \E k \in Keys : RemovesBroken(k))

ClientsSpec == ClientsInit /\ [][ClientsNext]_clientVars

------------------------------------------------------------------------------
\* The list, the structures and the reservations are well formed.
ClientsTypeOK ==
    /\ list \in Seq(Keys)
    /\ rec \in [Keys -> [name : ClientNames \cup {NoName}, uuid : Uuids \cup {OwnUuid(k) : k \in Keys} \cup {NoUuid},
                         internal : BOOLEAN, event : Procs \cup {NoProc},
                         broken : BOOLEAN, dead : BOOLEAN]]
    /\ reserved \in Seq([name : ClientNames, uuid : Uuids])
    /\ \A a \in Procs : proc[a].stage \in {"out", "named", "open"}

\* jack_client_name_invalid looks at clients and reservations, and
\* jack_do_reserve_name at clients: no two clients have one name, and none has
\* a name that is reserved for a later one, in whatever order they come.
NamesAreUnique ==
    /\ \A j, k \in Listed : rec[j].name = rec[k].name => j = k
    /\ \A k \in Listed : ~jack_client_name_reserved(rec[k].name, reserved)

\* handle_client_ack_connection finds the client of the process that connects
\* as long as no UUID was given twice: nobody gets the events of another, and
\* a process that is still there is on the list.
EventsGoHome ==
    ~clash => \A a \in Procs :
        /\ proc[a].stage # "out" => proc[a].key \in Listed
        /\ proc[a].stage = "open" => rec[proc[a].key].event = a
        /\ \A k \in Listed : rec[k].event = a /\ ~rec[k].broken => proc[a].key = k

\* session.h, of jack_reserve_client_name: "When a client later calls
\* jack_client_open() and specifies the UUID, jackd will assign the reserved
\* name."
ReservedNameIsGiven ==
    ~clash => \A a \in Procs : proc[a].stage # "out" /\ proc[a].promised # NoName =>
        rec[proc[a].key].name = proc[a].promised

\* The clients are kept: no two have one name, and each gets its own events.
ClientsInv ==
    /\ ClientsTypeOK
    /\ NamesAreUnique
    /\ EventsGoHome
==============================================================================
