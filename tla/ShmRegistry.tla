---------------------------- MODULE ShmRegistry ----------------------------
(***************************************************************************)
(* Several servers of one machine and the shared memory they register      *)
(* (libjack/shm.c, its POSIX half), from the start of jackd or of          *)
(* jackctl_server_start to the exit (jackd/jackd.c, jackd/controlapi.c).   *)
(*                                                                         *)
(* A semaphore guards the registry; its owner may be killed at any line,   *)
(* and then SEM_UNDO gives it back.  A registry lives in a named segment,  *)
(* a port or control segment in one named after its index; `names' maps an *)
(* index to the object its name opens now, and an unlinked object lives on *)
(* in the processes that mapped it.  A process is launched once: process   *)
(* ids do not come back.                                                   *)
(***************************************************************************)
EXTENDS Integers, FiniteSets

CONSTANTS Procs,           \* server processes
          ServerNames,     \* the names given with -n
          LastIndex,       \* MAX_SHM_ID - 1
          Slots,           \* the places for servers, MAX_SERVERS of them
          MaxRegistries,   \* bound: registries made in a behaviour
          MaxObjects,      \* bound: segments made in a behaviour
          Mishaps          \* "replace": --replace-registry is given while others run;
                           \* "twice": a process starts a second server; "kill": kill -9
                           \* where neither the semaphore nor the registry survives it

ASSUME ShmAssumption == /\ LastIndex \in Nat /\ MaxRegistries \in Nat \ {0} /\ MaxObjects \in Nat
                        /\ Mishaps \subseteq {"replace", "twice", "kill"}
                        /\ "nobody" \notin Procs \cup ServerNames

VARIABLES semaphore,   \* -1 before anybody made it, else its value
          holder,      \* the process SEM_UNDO would give it back for
          registries,  \* the registry objects made so far
          current,     \* the one "/jack-shm-registry" opens, 0 for none
          names, objects,  \* index -> object its name opens (0: none); objects made
          files,       \* server name -> process whose files are in its directory
          proc,        \* per process: where it is, its name, its registry, what it mapped
          mishaps      \* history: the mishaps there were

shmVars == <<semaphore, holder, registries, current, names, objects, files, proc, mishaps>>

Nobody == "nobody"
Indexes == 0 .. LastIndex
Guarded == {"accessing", "sizing", "filling", "registering", "sweeping", "releasing",
            "opening", "claiming", "freed", "unregistering"}
Stages == {"off", "semaphore", "raising", "initialize", "register", "cleanup", "files", "creating",
           "running", "malloc", "attaching", "freeing", "unregister", "gone", "dead"} \cup Guarded

alive(p) == proc[p].pc \notin {"off", "gone", "dead"}

FreeSlot == [pid |-> Nobody, name |-> Nobody]
EmptyRegistry == [stage |-> "empty", slot |-> [s \in Slots |-> FreeSlot],
                  entry |-> [i \in Indexes |-> Nobody]]

ShmTypeOK ==
  /\ semaphore \in {-1, 0, 1} /\ holder \in Procs \cup {Nobody}
  /\ current \in 0 .. Cardinality(DOMAIN registries)
  /\ \A g \in DOMAIN registries :
       /\ registries[g].stage \in {"empty", "sized", "valid"}
       /\ registries[g].entry \in [Indexes -> Procs \cup {Nobody}]
       /\ registries[g].slot \in [Slots -> [pid : Procs \cup {Nobody}, name : ServerNames \cup {Nobody}]]
  /\ names \in [Indexes -> 0 .. MaxObjects] /\ objects \in 0 .. MaxObjects
  /\ files \in [ServerNames -> Procs \cup {Nobody}]
  /\ proc \in [Procs -> [pc : Stages, name : ServerNames \cup {Nobody}, reg : 0 .. MaxRegistries,
                         replace : BOOLEAN, closing : BOOLEAN, at : 0 .. LastIndex + 1,
                         mine : [Indexes -> 0 .. MaxObjects], due : SUBSET (Indexes \X Procs)]]

ShmInit ==
  /\ semaphore = -1 /\ holder = Nobody
  /\ registries = << >> /\ current = 0
  /\ names = [i \in Indexes |-> 0] /\ objects = 0
  /\ files = [n \in ServerNames |-> Nobody] /\ mishaps = {}
  /\ proc = [p \in Procs |-> [pc |-> "off", name |-> Nobody, reg |-> 0, replace |-> FALSE,
                              closing |-> FALSE, at |-> 0, mine |-> [i \in Indexes |-> 0], due |-> {}]]

At(p, here) == proc[p].pc = here
Goes(p, there) == proc' = [proc EXCEPT ![p].pc = there]
ServerLaunched(p, n, replace) ==
  /\ At(p, "off")
  /\ proc' = [proc EXCEPT ![p].pc = "semaphore", ![p].name = n, ![p].replace = replace]
  /\ UNCHANGED <<mishaps, semaphore, holder, registries, current, names, objects, files>>

(* semget finds the semaphore or makes it; the maker raises it in a second call. *)
semaphore_init(p) ==
  \/ /\ At(p, "semaphore")
     /\ semaphore' = IF semaphore = -1 THEN 0 ELSE semaphore
     /\ Goes(p, IF semaphore = -1 THEN "raising" ELSE "initialize")
     /\ UNCHANGED <<mishaps, holder, registries, current, names, objects, files>>
  \/ /\ At(p, "raising")
     /\ semaphore' = semaphore + 1
     /\ Goes(p, "initialize")
     /\ UNCHANGED <<mishaps, holder, registries, current, names, objects, files>>

(* The semaphore after p, which holds it, was killed: SEM_UNDO. *)
semaphore_add(p) == IF holder = p THEN semaphore + 1 ELSE semaphore

LockedStage == [initialize |-> "accessing", register |-> "registering", cleanup |-> "sweeping",
                malloc |-> "opening", freeing |-> "freed", unregister |-> "unregistering"]

MyRegistry(p) == registries[proc[p].reg]
DeadEntries(p) == {e \in Indexes \X Procs : MyRegistry(p).entry[e[1]] = e[2] /\ ~ alive(e[2])}

jack_shm_lock_registry(p) ==
  /\ proc[p].pc \in DOMAIN LockedStage /\ semaphore > 0
  /\ semaphore' = semaphore - 1 /\ holder' = p
  /\ proc' = [proc EXCEPT ![p].pc = LockedStage[@], ![p].at = 0,
                          ![p].due = IF At(p, "cleanup") THEN DeadEntries(p) ELSE {}]
  /\ UNCHANGED <<mishaps, registries, current, names, objects, files>>

Unlocked == semaphore' = semaphore + 1 /\ holder' = Nobody

(* A registry is used if it is there and was filled in; else it is removed *)
(* and made anew: created, given its size, filled.  Reading one that has   *)
(* no size yet kills the reader.                                           *)
UsesRegistry(g, replace) == g # 0 /\ ~ replace /\ registries[g].stage = "valid"

MakesRegistry(g, replace) == IF g = 0 \/ replace THEN TRUE ELSE registries[g].stage = "sized"

jack_server_initialize_shm(p) ==
  \/ /\ At(p, "accessing") /\ UsesRegistry(current, proc[p].replace)
     /\ proc' = [proc EXCEPT ![p].pc = "register", ![p].reg = current]
     /\ Unlocked /\ UNCHANGED <<mishaps, registries, current, names, objects, files>>
  \/ /\ At(p, "accessing") /\ current # 0 /\ ~ proc[p].replace /\ registries[current].stage = "empty"
     /\ Goes(p, "dead") /\ semaphore' = semaphore_add(p) /\ holder' = Nobody
     /\ UNCHANGED <<mishaps, registries, current, names, objects, files>>
  \/ /\ At(p, "accessing") /\ MakesRegistry(current, proc[p].replace)
     /\ Cardinality(DOMAIN registries) < MaxRegistries
     /\ registries' = [g \in 1 .. Cardinality(DOMAIN registries) + 1 |->
                         IF g \in DOMAIN registries THEN registries[g] ELSE EmptyRegistry]
     /\ current' = Cardinality(DOMAIN registries) + 1
     /\ proc' = [proc EXCEPT ![p].pc = "sizing", ![p].reg = current']
     /\ mishaps' = mishaps \cup (IF \E q \in Procs \ {p} : alive(q) /\ proc[q].reg # 0 THEN {"replace"} ELSE {})
     /\ UNCHANGED <<semaphore, holder, names, objects, files>>

jack_create_registry(p) ==
  \/ /\ At(p, "sizing") /\ Goes(p, "filling")
     /\ registries' = [registries EXCEPT ![proc[p].reg].stage = "sized"]
     /\ UNCHANGED <<mishaps, semaphore, holder, current, names, objects, files>>
  \/ /\ At(p, "filling") /\ Goes(p, "register")
     /\ registries' = [registries EXCEPT ![proc[p].reg].stage = "valid"]
     /\ Unlocked /\ UNCHANGED <<mishaps, current, names, objects, files>>

(* A name is taken while the process that claimed it exists; the place of  *)
(* one that is gone is given back first.                                   *)
Claimed(p, slot) == {s \in Slots : slot[s].name = proc[p].name /\ slot[s].pid # p /\ alive(slot[s].pid)}
Reclaimed(p, slot) ==
  [s \in Slots |-> IF slot[s].name = proc[p].name /\ slot[s].pid # p THEN FreeSlot ELSE slot[s]]

jack_register_server(p) ==
  /\ At(p, "registering") /\ Unlocked
  /\ LET slot == MyRegistry(p).slot
         left == Reclaimed(p, slot)
         own == {s \in Slots : slot[s].pid = p /\ slot[s].name = proc[p].name}
         free == {s \in Slots : left[s] = FreeSlot}
     IN  \/ /\ own # {} /\ Goes(p, "cleanup") /\ UNCHANGED registries
         \/ /\ own = {} /\ Claimed(p, slot) # {} /\ Goes(p, "gone") /\ UNCHANGED registries
         \/ /\ own = {} /\ Claimed(p, slot) = {}
            /\ IF free = {} THEN /\ Goes(p, "gone")
                                 /\ registries' = [registries EXCEPT ![proc[p].reg].slot = left]
               ELSE /\ Goes(p, "cleanup")
                    /\ LET s == CHOOSE s \in free : TRUE IN
                       registries' = [registries EXCEPT ![proc[p].reg].slot =
                                        [left EXCEPT ![s] = [pid |-> p, name |-> proc[p].name]]]
  /\ UNCHANGED <<mishaps, current, names, objects, files>>

(* Whether jack_cleanup_shm destroys entry i: its maker is this process or *)
(* no longer exists.                                                       *)
Destroyed_All(p, i) == MyRegistry(p).entry[i] # Nobody
Destroyed(p, i) == LET a == MyRegistry(p).entry[i] IN a # Nobody /\ (a = p \/ ~ alive(a))

(* One round of the loop is two steps where it destroys: the name is       *)
(* unlinked, then the entry is freed.                                      *)
jack_cleanup_shm(p) ==
  LET i == proc[p].at IN
  \/ /\ At(p, "sweeping") /\ i > LastIndex /\ Goes(p, "files")
     /\ Unlocked /\ UNCHANGED <<mishaps, registries, current, names, objects, files>>
  \/ /\ At(p, "sweeping") /\ i <= LastIndex /\ ~ Destroyed(p, i)
     /\ proc' = [proc EXCEPT ![p].at = i + 1]
     /\ UNCHANGED <<mishaps, semaphore, holder, registries, current, names, objects, files>>
  \/ /\ At(p, "sweeping") /\ i <= LastIndex /\ Destroyed(p, i) /\ Goes(p, "releasing")
     /\ names' = [names EXCEPT ![i] = 0]
     /\ UNCHANGED <<mishaps, semaphore, holder, registries, current, objects, files>>
  \/ /\ At(p, "releasing")
     /\ registries' = [registries EXCEPT ![proc[p].reg].entry[i] = Nobody]
     /\ proc' = [proc EXCEPT ![p].pc = "sweeping", ![p].at = i + 1]
     /\ UNCHANGED <<mishaps, semaphore, holder, current, names, objects, files>>

(* The directory of the name is emptied, whoever filled it. *)
jack_cleanup_files(p) ==
  /\ At(p, "files") /\ Goes(p, IF proc[p].closing THEN "unregister" ELSE "creating")
  /\ files' = [files EXCEPT ![proc[p].name] = Nobody]
  /\ UNCHANGED <<mishaps, semaphore, holder, registries, current, names, objects>>

EngineCreated(p) ==
  /\ At(p, "creating") /\ Goes(p, "running")
  /\ files' = [files EXCEPT ![proc[p].name] = p]
  /\ UNCHANGED <<mishaps, semaphore, holder, registries, current, names, objects>>

(* The engine wants another segment: the first free entry is taken, its    *)
(* name opened or created, then the entry is written.                      *)
WantsSegment(p) ==
  /\ At(p, "running") /\ Goes(p, "malloc")
  /\ UNCHANGED <<mishaps, semaphore, holder, registries, current, names, objects, files>>

FreeIndexes(p) == {i \in Indexes : MyRegistry(p).entry[i] = Nobody}
jack_get_free_shm_info(p) == {i \in FreeIndexes(p) : \A j \in FreeIndexes(p) : i <= j}

jack_shmalloc(p) ==
  \/ /\ At(p, "opening") /\ jack_get_free_shm_info(p) = {}
     /\ proc' = [proc EXCEPT ![p].pc = "cleanup", ![p].closing = TRUE]
     /\ Unlocked /\ UNCHANGED <<mishaps, registries, current, names, objects, files>>
  \/ /\ At(p, "opening")
     /\ \E i \in jack_get_free_shm_info(p) :
          /\ names[i] = 0 => objects < MaxObjects
          /\ names' = IF names[i] = 0 THEN [names EXCEPT ![i] = objects + 1] ELSE names
          /\ objects' = IF names[i] = 0 THEN objects + 1 ELSE objects
          /\ proc' = [proc EXCEPT ![p].pc = "claiming", ![p].at = i]
     /\ UNCHANGED <<mishaps, semaphore, holder, registries, current, files>>
  \/ /\ At(p, "claiming") /\ Goes(p, "attaching") /\ Unlocked
     /\ registries' = [registries EXCEPT ![proc[p].reg].entry[proc[p].at] = p]
     /\ UNCHANGED <<mishaps, current, names, objects, files>>

(* Attached by name and without the lock; a name that is gone is an error. *)
jack_attach_shm(p) ==
  /\ At(p, "attaching")
  /\ proc' = IF names[proc[p].at] = 0
             THEN [proc EXCEPT ![p].pc = "cleanup", ![p].closing = TRUE]
             ELSE [proc EXCEPT ![p].pc = "running", ![p].mine[proc[p].at] = names[proc[p].at]]
  /\ UNCHANGED <<mishaps, semaphore, holder, registries, current, names, objects, files>>

(* The first half of a resize: unmap, unlink, then free the entry under    *)
(* the lock if it is still this process's.                                 *)
jack_resize_shm(p) ==
  \/ \E i \in Indexes :
       /\ At(p, "running") /\ proc[p].mine[i] # 0
       /\ names' = [names EXCEPT ![i] = 0]
       /\ proc' = [proc EXCEPT ![p].pc = "freeing", ![p].mine[i] = 0]
       /\ UNCHANGED <<mishaps, semaphore, holder, registries, current, objects, files>>
  \/ /\ At(p, "freed")
     /\ LET unmapped == {i \in Indexes : MyRegistry(p).entry[i] = p /\ proc[p].mine[i] = 0} IN
        registries' = [registries EXCEPT ![proc[p].reg].entry =
                         [i \in Indexes |-> IF i \in unmapped THEN Nobody ELSE @[i]]]
     /\ Goes(p, "malloc") /\ Unlocked /\ UNCHANGED <<mishaps, current, names, objects, files>>

(* The engine stops, or the driver could not be started. *)
jackctl_server_stop(p) ==
  /\ At(p, "running")
  /\ proc' = [proc EXCEPT ![p].pc = "cleanup", ![p].closing = TRUE]
  /\ UNCHANGED <<mishaps, semaphore, holder, registries, current, names, objects, files>>

jack_unregister_server(p) ==
  /\ At(p, "unregistering") /\ Unlocked
  /\ registries' = [registries EXCEPT ![proc[p].reg].slot =
                      [s \in Slots |-> IF @[s].pid = p THEN FreeSlot ELSE @[s]]]
  /\ proc' = [proc EXCEPT ![p].pc = "gone", ![p].mine = [i \in Indexes |-> 0]]
  /\ UNCHANGED <<mishaps, current, names, objects, files>>

(* The same process starts a server again, or one of another name. *)
jackctl_server_start(p, n) ==
  /\ "twice" \in Mishaps /\ At(p, "running")
  /\ proc' = [proc EXCEPT ![p].pc = "register", ![p].name = n]
  /\ mishaps' = mishaps \cup {"twice"}
  /\ UNCHANGED <<semaphore, holder, registries, current, names, objects, files>>

Unguarded(p) == proc[p].pc \in {"raising", "sizing"}

Killed(p) ==
  /\ alive(p) /\ ("kill" \in Mishaps \/ ~ Unguarded(p))
  /\ mishaps' = mishaps \cup (IF Unguarded(p) THEN {"kill"} ELSE {})
  /\ semaphore' = semaphore_add(p)
  /\ holder' = IF holder = p THEN Nobody ELSE holder
  /\ proc' = [proc EXCEPT ![p].pc = "dead", ![p].mine = [i \in Indexes |-> 0], ![p].due = {}]
  /\ UNCHANGED <<registries, current, names, objects, files>>

(* After the first two mishaps nothing is promised any more. *)
ShmNext ==
  mishaps \cap {"replace", "twice"} = {} /\ \E p \in Procs :
    \/ \E n \in ServerNames, replace \in (IF "replace" \in Mishaps THEN BOOLEAN ELSE {FALSE}) : ServerLaunched(p, n, replace)
    \/ \E n \in ServerNames : jackctl_server_start(p, n)
    \/ semaphore_init(p) \/ jack_shm_lock_registry(p)
    \/ jack_server_initialize_shm(p) \/ jack_create_registry(p)
    \/ jack_register_server(p) \/ jack_cleanup_shm(p) \/ jack_cleanup_files(p) \/ EngineCreated(p)
    \/ WantsSegment(p) \/ jack_shmalloc(p) \/ jack_attach_shm(p) \/ jack_resize_shm(p)
    \/ jackctl_server_stop(p) \/ jack_unregister_server(p) \/ Killed(p)

ShmSpec == ShmInit /\ [][ShmNext]_shmVars
-----------------------------------------------------------------------------
Serving(p) == proc[p].pc \in {"running", "malloc", "opening", "claiming", "attaching", "freeing", "freed"}

(* Two live processes never serve under one name: the second start is      *)
(* refused, however the two interleave and whoever is killed.              *)
OneServerAName ==
  mishaps \cap {"replace", "twice"} = {} => \A p, q \in Procs :
    (p # q /\ Serving(p) /\ Serving(q)) => proc[p].name # proc[q].name

(* A segment a running server has mapped keeps its name and its entry until *)
(* that server gives it up: the clean-up of another start leaves it alone, *)
(* so that clients can attach it.                                          *)
LiveSegmentsStay ==
  mishaps \cap {"replace", "twice"} = {} => \A p \in Procs, i \in Indexes :
    (Serving(p) /\ proc[p].mine[i] # 0) => names[i] = proc[p].mine[i] /\ MyRegistry(p).entry[i] = p

(* No two servers use one segment. *)
SegmentsAreApart ==
  mishaps \cap {"replace", "twice"} = {} => \A p, q \in Procs, i, j \in Indexes :
    p # q /\ proc[p].mine[i] # 0 => proc[p].mine[i] # proc[q].mine[j]

(* When a start has swept the registry, the entries of the servers that    *)
(* were dead when it took the lock are freed.                              *)
DeadAreSwept ==
  \A p \in Procs : At(p, "files") => \A e \in proc[p].due : MyRegistry(p).entry[e[1]] # e[2]

(* The semaphore is free or a live process will raise it, and the registry *)
(* can be read or a live process is making it.                             *)
CanBeStarted ==
  /\ semaphore = 0 => \E p \in Procs : proc[p].pc = "raising" \/ (alive(p) /\ holder = p)
  /\ (current # 0 /\ registries[current].stage = "empty") => \E p \in Procs : At(p, "sizing")

(* kill -9 at any line but two leaves a machine on which JACK can be       *)
(* started: SEM_UNDO gives the lock back, and a start mends the registry.  *)
JackCanStart == "kill" \notin mishaps => CanBeStarted

(* shm.c, of the semaphore: "Otherwise, a segfault or kill -9 at the wrong *)
(* moment could prevent JACK from ever running again on that machine until *)
(* after a reboot."                                                        *)
JackAlwaysStarts == CanBeStarted

\* The registry is kept: one server has a name, segments of the living stay and
\* are apart, those of the dead are swept, and JACK can be started.
RegistryInv ==
  /\ ShmTypeOK
  /\ OneServerAName
  /\ LiveSegmentsStay
  /\ SegmentsAreApart
  /\ DeadAreSwept
  /\ JackCanStart
=============================================================================
