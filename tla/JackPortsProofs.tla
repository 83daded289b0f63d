--------------------------- MODULE JackPortsProofs ---------------------------
(* The ports, for any number of clients, ports and connections (PortsInv). A  *)
(* buffer is on the free list once or belongs to one output port; a list      *)
(* entry that is not the newest of its port is never looked at; and what a    *)
(* client's newest entry says of a port is what the server has, but for a     *)
(* port that was connected before its client knew of it, where it is a part   *)
(* of that. The process cycle, for any clients in any order (CycleInv): what  *)
(* jack_rechain_graph makes is a chain, proved by the least list position at  *)
(* which its loop would not, and whose turn it is in a subgraph tells what is *)
(* in every FIFO.                                                             *)
EXTENDS JackPorts, JackCycle, FiniteSetTheorems, TLAPS

------------------------------------------------------------------------------
(* What the proof keeps of the ports, beside their types.                      *)

\* What the newest entry for p says, of its connections and of its mix buffer.
View(l, p) == IF jack_port_by_id_int(l, p) = 0 THEN {} ELSE l[jack_port_by_id_int(l, p)].connections
Mix(l, p) == IF jack_port_by_id_int(l, p) = 0 THEN 0 ELSE l[jack_port_by_id_int(l, p)].mix_buffer
Many(S) == \E a, b \in S : a # b

\* A buffer has one place, and the silent one has none.
BuffersKept ==
    /\ \A p \in Slots : /\ port[p].buffer # NoSlot <=> port[p].in_use /\ ~port[p].input
                        /\ port[p].buffer # zero_buffer
    /\ \A p, q \in Slots : port[p].buffer # NoSlot /\ port[p].buffer = port[q].buffer => p = q
    /\ \A i \in DOMAIN freelist : /\ freelist[i] # zero_buffer
                                  /\ \A j \in DOMAIN freelist : freelist[i] = freelist[j] => i = j
                                  /\ \A p \in Slots : freelist[i] # port[p].buffer
    /\ \A b \in Buffers \ {zero_buffer} :
        \/ \E i \in DOMAIN freelist : freelist[i] = b
        \/ \E p \in Slots : port[p].buffer = b

\* Ports are on their owners' lists, connections run from outputs to inputs of
\* active clients, and until a renaming hit a name in use names differ.
TableKept ==
    /\ \A p \in Slots, c \in Apps : p \in ports[c] <=> port[p].in_use /\ port[p].owner = c
    /\ \A x \in conns : /\ port[x[1]].in_use /\ ~port[x[1]].input /\ port[x[1]].owner \in active
                        /\ port[x[2]].in_use /\ port[x[2]].input /\ port[x[2]].owner \in active
    /\ active \cap dead = {}
    /\ \A c \in dead : ports[c] = {}
    /\ ~renamed => \A p, q \in Slots :
         port[p].in_use /\ port[q].in_use /\ port[p].owner = port[q].owner /\ port[p].name = port[q].name => p = q

\* A port its client does not know of yet is there, and connected only when lost.
AskingKept ==
    \A c \in Apps \ dead : asking[c] # NoSlot =>
        asking[c] \in ports[c] /\ (asking[c] \notin lost => Others(asking[c], conns) = {})

\* What a client should see of p.
ToSee(c, p) == IF p \in ports[c] THEN Others(p, conns) ELSE {}

\* A client sees no connection that is not there, and misses none but of lost ports.
ViewsKept ==
    \A c \in Apps \ dead, p \in Slots :
        /\ View(lib[c], p) \subseteq ToSee(c, p)
        /\ p \notin lost => View(lib[c], p) = ToSee(c, p)

\* A mix buffer has the present size, and is there when there is something to mix.
MixersKept ==
    \A c \in active, p \in Slots :
        /\ ~torn => Mix(lib[c], p) \in {0, buffer_size}
        /\ p \in ports[c] /\ port[p].input /\ Many(View(lib[c], p)) => Mix(lib[c], p) # 0

\* The inductive invariant.
PortsIInv == PortsTypeOK /\ BuffersKept /\ TableKept /\ AskingKept /\ ViewsKept /\ MixersKept

\* A set of numbers has a least one.
LEMMA LeastExists ==
    ASSUME NEW T \in SUBSET Nat, T # {}
    PROVE  \E x \in T : \A y \in T : x <= y
<1> DEFINE Below(n) == 0 .. n
           B == {Below(n) : n \in T}
<1>1. B \subseteq FiniteSubsetsOf(Nat)
  <2> SUFFICES ASSUME NEW n \in T PROVE Below(n) \in FiniteSubsetsOf(Nat)
    OBVIOUS
  <2>1. IsFiniteSet(0 .. n)
    BY FS_Interval
  <2>2. QED
    BY <2>1 DEF FiniteSubsetsOf
<1>2. B # {}
  OBVIOUS
<1>3. PICK b \in B : \A c \in B : ~(<<c, b>> \in StrictSubsetOrdering(Nat))
  <2> HIDE DEF B
  <2>1. QED
    BY <1>1, <1>2, WFMin, FS_StrictSubsetOrderingWellFounded
<1>4. PICK m \in T : b = Below(m)
  OBVIOUS
<1>5. ASSUME NEW k \in T, k < m PROVE FALSE
  <2>1. Below(k) \in B /\ Below(k) \subseteq Below(m) /\ Below(k) # Below(m)
    BY <1>5
  <2>2. <<Below(k), b>> \in StrictSubsetOrdering(Nat)
    BY <2>1, <1>4 DEF StrictSubsetOrdering
  <2>3. QED
    BY <2>1, <2>2, <1>3
<1>6. QED
  BY <1>5

------------------------------------------------------------------------------
(* A client's list.                                                            *)

LEMMA NewestIsFirst ==
    ASSUME NEW l \in Seq(LibPort), NEW p
    PROVE  \/ /\ jack_port_by_id_int(l, p) = 0
              /\ \A i \in 1 .. Len(l) : l[i].id # p
           \/ /\ jack_port_by_id_int(l, p) \in 1 .. Len(l)
              /\ l[jack_port_by_id_int(l, p)].id = p
              /\ \A j \in 1 .. Len(l) : l[j].id = p => jack_port_by_id_int(l, p) <= j
<1> DEFINE found == {i \in DOMAIN l : l[i].id = p}
<1>1. DOMAIN l = 1 .. Len(l) /\ Len(l) \in Nat
    OBVIOUS
<1>2. CASE found = {}
    BY <1>1, <1>2 DEF jack_port_by_id_int
<1>3. CASE found # {}
    <2>2. \E k \in found : \A j \in found : k <= j
        <3>1. found \in SUBSET Nat
            BY <1>1
        <3> HIDE DEF found
        <3> QED BY <1>3, <3>1, LeastExists
    <2>3. jack_port_by_id_int(l, p) = CHOOSE i \in found : \A j \in found : i <= j
        BY <1>3 DEF jack_port_by_id_int
    <2>4. jack_port_by_id_int(l, p) \in found /\ \A j \in found : jack_port_by_id_int(l, p) <= j
        <3> HIDE DEF found
        <3> QED BY <2>2, <2>3
    <2> QED BY <1>1, <2>4
<1> QED BY <1>2, <1>3

LEMMA FirstIsNewest ==
    ASSUME NEW l \in Seq(LibPort), NEW p, NEW i \in 1 .. Len(l), l[i].id = p, \A j \in 1 .. Len(l) : l[j].id = p => i <= j
    PROVE  jack_port_by_id_int(l, p) = i
BY NewestIsFirst

LEMMA SameIdsSameNewest ==
    ASSUME NEW l \in Seq(LibPort), NEW m \in Seq(LibPort), Len(l) = Len(m), \A i \in 1 .. Len(l) : l[i].id = m[i].id, NEW p
    PROVE  jack_port_by_id_int(l, p) = jack_port_by_id_int(m, p)
<1>1. CASE jack_port_by_id_int(l, p) = 0
    BY <1>1, NewestIsFirst
<1>2. CASE jack_port_by_id_int(l, p) # 0
    BY <1>2, NewestIsFirst
<1> QED BY <1>1, <1>2

LEMMA NewEntry ==
    ASSUME NEW l \in Seq(LibPort), NEW q \in Slots, NEW p
    PROVE  /\ <<jack_port_new(q)>> \o l \in Seq(LibPort)
           /\ View(<<jack_port_new(q)>> \o l, p) = IF p = q THEN {} ELSE View(l, p)
           /\ Mix(<<jack_port_new(q)>> \o l, p) = IF p = q THEN 0 ELSE Mix(l, p)
<1>a. PICK e : e = jack_port_new(q)
    OBVIOUS
<1>b. PICK m : m = <<e>> \o l
    OBVIOUS
<1>c. SUFFICES /\ m \in Seq(LibPort)
               /\ View(m, p) = IF p = q THEN {} ELSE View(l, p)
               /\ Mix(m, p) = IF p = q THEN 0 ELSE Mix(l, p)
    BY <1>a, <1>b
<1>1. e \in LibPort /\ e.id = q /\ e.connections = {} /\ e.mix_buffer = 0
    BY <1>a DEF jack_port_new, LibPort
<1>2. m \in Seq(LibPort) /\ Len(m) = Len(l) + 1 /\ m[1] = e /\ \A i \in 1 .. Len(l) : m[i + 1] = l[i]
    BY <1>1, <1>b
<1>3. \A j \in 2 .. Len(m) : m[j] = l[j - 1] /\ j - 1 \in 1 .. Len(l)
    BY <1>2
<1>4. CASE p = q
    <2>1. jack_port_by_id_int(m, p) = 1
        BY <1>1, <1>2, <1>4, FirstIsNewest
    <2> QED BY <1>1, <1>2, <1>4, <2>1 DEF View, Mix
<1>5. CASE p # q /\ jack_port_by_id_int(l, p) = 0
    <2>1. \A i \in 1 .. Len(l) : l[i].id # p
        BY <1>5, NewestIsFirst
    <2>2. ASSUME NEW j \in 1 .. Len(m) PROVE m[j].id # p
        <3>1. CASE j = 1
            BY <1>1, <1>2, <1>5, <3>1
        <3>2. CASE j # 1
            <4>1. j \in 2 .. Len(m)
                BY <3>2
            <4> QED BY <1>3, <2>1, <4>1
        <3> QED BY <3>1, <3>2
    <2>3. jack_port_by_id_int(m, p) = 0
        BY <1>2, <2>2, NewestIsFirst
    <2> QED BY <1>2, <1>5, <2>3 DEF View, Mix
<1>6. CASE p # q /\ jack_port_by_id_int(l, p) # 0
    <2>1. PICK i \in 1 .. Len(l) : /\ i = jack_port_by_id_int(l, p) /\ l[i].id = p
                                   /\ \A j \in 1 .. Len(l) : l[j].id = p => i <= j
        BY <1>6, NewestIsFirst
    <2>2. i + 1 \in 1 .. Len(m) /\ m[i + 1] = l[i] /\ \A j \in 1 .. Len(m) : m[j].id = p => i + 1 <= j
        <3>1. ASSUME NEW j \in 1 .. Len(m), m[j].id = p PROVE i + 1 <= j
            <4>1. j # 1
                BY <1>1, <1>2, <1>6, <3>1
            <4>2. j \in 2 .. Len(m) /\ j - 1 \in 1 .. Len(l) /\ m[j] = l[j - 1]
                BY <1>2, <1>3, <4>1
            <4>3. i <= j - 1
                BY <2>1, <3>1, <4>2
            <4> QED BY <4>2, <4>3
        <3>2. i + 1 \in 1 .. Len(m) /\ m[i + 1] = l[i]
            BY <1>2
        <3> QED BY <3>1, <3>2
    <2>3. jack_port_by_id_int(m, p) = i + 1
        <3>1. PICK k \in 1 .. Len(m) : k = i + 1
            BY <2>2
        <3>2. m[k].id = p /\ \A j \in 1 .. Len(m) : m[j].id = p => k <= j
            BY <2>1, <2>2, <3>1
        <3>3. m \in Seq(LibPort)
            BY <1>2
        <3>4. jack_port_by_id_int(m, p) = k
            BY <3>2, <3>3, FirstIsNewest
        <3> QED BY <3>1, <3>4
    <2>4. View(m, p) = m[i + 1].connections /\ Mix(m, p) = m[i + 1].mix_buffer
        BY <2>1, <2>3 DEF View, Mix
    <2>5. View(l, p) = l[i].connections /\ Mix(l, p) = l[i].mix_buffer
        BY <1>6, <2>1 DEF View, Mix
    <2> QED BY <1>2, <1>6, <2>2, <2>4, <2>5
<1> QED BY <1>a, <1>b, <1>2, <1>4, <1>5, <1>6

\* One entry changed, and not its port: the newest entries are where they were.
LEMMA ChangedEntries ==
    ASSUME NEW l \in Seq(LibPort), NEW m, DOMAIN m = DOMAIN l, m = [i \in DOMAIN m |-> m[i]],
           \A i \in 1 .. Len(l) : m[i] \in LibPort /\ m[i].id = l[i].id
    PROVE  /\ m \in Seq(LibPort) /\ Len(m) = Len(l)
           /\ \A p : jack_port_by_id_int(m, p) = jack_port_by_id_int(l, p)
<1>1. DOMAIN l = 1 .. Len(l) /\ Len(l) \in Nat
    OBVIOUS
<1>2. m \in Seq(LibPort) /\ Len(m) = Len(l)
    BY <1>1
<1>3. ASSUME NEW p PROVE jack_port_by_id_int(m, p) = jack_port_by_id_int(l, p)
    BY <1>2, SameIdsSameNewest
<1> QED BY <1>2, <1>3

LEMMA ConnectedEntry ==
    ASSUME NEW l \in Seq(LibPort), NEW q \in Slots, NEW other \in Slots, NEW input \in BOOLEAN, NEW p, buffer_size \in Sizes
    PROVE  /\ PortConnected(l, q, other, input) \in Seq(LibPort)
           /\ View(PortConnected(l, q, other, input), p) =
                IF p = q /\ jack_port_by_id_int(l, q) # 0 THEN View(l, p) \cup {other} ELSE View(l, p)
           /\ Mix(PortConnected(l, q, other, input), p) =
                IF p = q /\ jack_port_by_id_int(l, q) # 0 /\ input /\ View(l, q) # {} /\ Mix(l, q) = 0
                THEN buffer_size ELSE Mix(l, p)
           /\ \A r : jack_port_by_id_int(PortConnected(l, q, other, input), r) = jack_port_by_id_int(l, r)
<1>1. CASE jack_port_by_id_int(l, q) = 0
    BY <1>1 DEF PortConnected
<1>2. CASE jack_port_by_id_int(l, q) # 0
    <2>1. PICK i : i = jack_port_by_id_int(l, q)
        OBVIOUS
    <2>2. i \in 1 .. Len(l) /\ l[i].id = q /\ l[i] \in LibPort
        BY <1>2, <2>1, NewestIsFirst
    <2>3. PICK m : m = PortConnected(l, q, other, input)
        OBVIOUS
    <2>a. PICK e : e = [l[i] EXCEPT !.connections = @ \cup {other},
                                    !.mix_buffer = IF input /\ l[i].connections # {} /\ @ = 0 THEN buffer_size ELSE @]
        OBVIOUS
    <2>4. m = [l EXCEPT ![i] = e]
        BY <1>2, <2>1, <2>3, <2>a DEF PortConnected
    <2>5. e = m[i]
        BY <2>2, <2>4
    <2>6. /\ e \in LibPort /\ e.id = q /\ e.connections = l[i].connections \cup {other}
          /\ e.mix_buffer = IF input /\ l[i].connections # {} /\ l[i].mix_buffer = 0 THEN buffer_size ELSE l[i].mix_buffer
        BY <2>2, <2>a DEF LibPort
    <2>7. m[i] = e /\ \A j \in 1 .. Len(l) : (j # i => m[j] = l[j]) /\ m[j] \in LibPort /\ m[j].id = l[j].id
        BY <2>2, <2>4, <2>5, <2>6
    <2>8. DOMAIN m = DOMAIN l /\ m = [j \in DOMAIN m |-> m[j]]
        BY <2>4
    <2>9. m \in Seq(LibPort) /\ \A r : jack_port_by_id_int(m, r) = jack_port_by_id_int(l, r)
        BY <2>7, <2>8, ChangedEntries
    <2>10. CASE p = q
        <3>1. View(m, p) = e.connections /\ Mix(m, p) = e.mix_buffer
            BY <1>2, <2>1, <2>7, <2>9, <2>10 DEF View, Mix
        <3>2. View(l, p) = l[i].connections /\ Mix(l, p) = l[i].mix_buffer
            BY <1>2, <2>1, <2>10 DEF View, Mix
        <3> QED BY <1>2, <2>1, <2>3, <2>6, <2>9, <2>10, <3>1, <3>2
    <2>11. CASE p # q
        <3>1. jack_port_by_id_int(l, p) # i /\ jack_port_by_id_int(l, p) \in {0} \cup 1 .. Len(l)
            BY <2>2, <2>11, NewestIsFirst
        <3>2. View(m, p) = View(l, p) /\ Mix(m, p) = Mix(l, p)
            BY <2>7, <2>9, <3>1 DEF View, Mix
        <3> QED BY <2>3, <2>9, <2>11, <3>2
    <2> QED BY <2>10, <2>11
<1> QED BY <1>1, <1>2

LEMMA DisconnectedEntries ==
    ASSUME PortsTypeOK, NEW c \in Apps, NEW gone, NEW p \in Slots
    PROVE  /\ PortsDisconnected(c, gone) \in Seq(LibPort)
           /\ View(PortsDisconnected(c, gone), p) =
                IF port[p].owner = c THEN View(lib[c], p) \ Others(p, gone) ELSE View(lib[c], p)
           /\ Mix(PortsDisconnected(c, gone), p) = Mix(lib[c], p)
<1>1. PICK l \in Seq(LibPort) : l = lib[c]
    BY DEF PortsTypeOK
<1>2. PICK m : m = [i \in DOMAIN l |->
        IF port[l[i].id].owner = c /\ i = jack_port_by_id_int(l, l[i].id)
        THEN [l[i] EXCEPT !.connections = @ \ Others(l[i].id, gone)]
        ELSE l[i]]
    OBVIOUS
<1>3. PortsDisconnected(c, gone) = m
    BY <1>1, <1>2 DEF PortsDisconnected
<1>4. \A i \in 1 .. Len(l) : /\ m[i] \in LibPort /\ m[i].id = l[i].id /\ m[i].mix_buffer = l[i].mix_buffer
                             /\ m[i].connections = IF port[l[i].id].owner = c /\ i = jack_port_by_id_int(l, l[i].id)
                                                   THEN l[i].connections \ Others(l[i].id, gone) ELSE l[i].connections
    <2> SUFFICES ASSUME NEW i \in 1 .. Len(l)
                 PROVE  /\ m[i] \in LibPort /\ m[i].id = l[i].id /\ m[i].mix_buffer = l[i].mix_buffer
                        /\ m[i].connections = IF port[l[i].id].owner = c /\ i = jack_port_by_id_int(l, l[i].id)
                                              THEN l[i].connections \ Others(l[i].id, gone) ELSE l[i].connections
        OBVIOUS
    <2>1. l[i] \in LibPort
        BY <1>1
    <2>2. CASE port[l[i].id].owner = c /\ i = jack_port_by_id_int(l, l[i].id)
        <3>1. m[i] = [l[i] EXCEPT !.connections = @ \ Others(l[i].id, gone)]
            BY <1>1, <1>2, <2>2
        <3> QED BY <2>1, <2>2, <3>1 DEF LibPort
    <2>3. CASE ~(port[l[i].id].owner = c /\ i = jack_port_by_id_int(l, l[i].id))
        <3>1. m[i] = l[i]
            BY <1>1, <1>2, <2>3
        <3> QED BY <2>1, <2>3, <3>1
    <2> QED BY <2>2, <2>3
<1>5. DOMAIN m = DOMAIN l /\ m = [i \in DOMAIN m |-> m[i]]
    BY <1>2
<1>6. m \in Seq(LibPort) /\ \A r : jack_port_by_id_int(m, r) = jack_port_by_id_int(l, r)
    <2>1. \A i \in 1 .. Len(l) : m[i] \in LibPort /\ m[i].id = l[i].id
        BY <1>4
    <2> QED BY <1>5, <2>1, ChangedEntries
<1>7. CASE jack_port_by_id_int(l, p) = 0
    BY <1>1, <1>3, <1>6, <1>7 DEF View, Mix
<1>8. CASE jack_port_by_id_int(l, p) # 0
    <2>1. PICK i \in 1 .. Len(l) : i = jack_port_by_id_int(l, p) /\ l[i].id = p
        BY <1>8, NewestIsFirst
    <2>2. m[i].connections = (IF port[p].owner = c THEN l[i].connections \ Others(p, gone) ELSE l[i].connections)
          /\ m[i].mix_buffer = l[i].mix_buffer
        BY <1>4, <2>1
    <2>3. View(m, p) = m[i].connections /\ Mix(m, p) = m[i].mix_buffer /\ View(l, p) = l[i].connections /\ Mix(l, p) = l[i].mix_buffer
        BY <1>6, <1>8, <2>1 DEF View, Mix
    <2> QED BY <1>1, <1>3, <1>6, <2>2, <2>3
<1> QED BY <1>7, <1>8

LEMMA ManyIsMore ==
    ASSUME NEW S \in SUBSET Slots
    PROVE  Cardinality(S) > 1 <=> Many(S)
<1>1. IsFiniteSet(S) /\ Cardinality(S) \in Nat
    <2>1. 0 \in Int /\ PortMax - 1 \in Int
        BY PortsAssumption
    <2>2. IsFiniteSet(0 .. PortMax - 1)
        BY <2>1, FS_Interval
    <2> QED BY <2>2, FS_Subset, FS_CardinalityType DEF Slots
<1>2. ASSUME NEW a \in S, NEW b \in S, a # b PROVE Cardinality(S) > 1
    <2>1. IsFiniteSet({a, b}) /\ Cardinality({a, b}) = 2
        <3>1. {a, b} = {a} \cup {b}
            OBVIOUS
        <3>2. IsFiniteSet({a}) /\ Cardinality({a}) = 1
            BY FS_Singleton
        <3> QED BY <1>2, <3>1, <3>2, FS_AddElement
    <2>2. {a, b} \subseteq S
        OBVIOUS
    <2>3. Cardinality({a, b}) <= Cardinality(S)
        BY <1>1, <2>2, FS_Subset
    <2> QED BY <1>1, <2>1, <2>3
<1>3. ASSUME ~Many(S) PROVE ~(Cardinality(S) > 1)
    <2>1. CASE S = {}
        BY <2>1, FS_EmptySet
    <2>2. CASE S # {}
        <3>1. PICK a \in S : S = {a}
            BY <1>3, <2>2 DEF Many
        <3> QED BY <3>1, FS_Singleton
    <2> QED BY <2>1, <2>2
<1> QED BY <1>2, <1>3 DEF Many

LEMMA FixedEntries ==
    ASSUME NEW l \in Seq(LibPort), NEW size \in Sizes, NEW p
    PROVE  /\ jack_client_fix_port_buffers(l, size) \in Seq(LibPort)
           /\ View(jack_client_fix_port_buffers(l, size), p) = View(l, p)
           /\ Mix(jack_client_fix_port_buffers(l, size), p) = IF Mix(l, p) # 0 /\ Many(View(l, p)) THEN size ELSE 0
<1>2. PICK m : m = jack_client_fix_port_buffers(l, size)
    OBVIOUS
<1>4. \A i \in 1 .. Len(l) : /\ m[i] \in LibPort /\ m[i].id = l[i].id /\ m[i].connections = l[i].connections
                             /\ m[i].mix_buffer = IF l[i].mix_buffer # 0 /\ Many(l[i].connections) THEN size ELSE 0
    <2> SUFFICES ASSUME NEW i \in 1 .. Len(l)
                 PROVE  /\ m[i] \in LibPort /\ m[i].id = l[i].id /\ m[i].connections = l[i].connections
                        /\ m[i].mix_buffer = IF l[i].mix_buffer # 0 /\ Many(l[i].connections) THEN size ELSE 0
        OBVIOUS
    <2>1. l[i] \in LibPort /\ l[i].connections \in SUBSET Slots
        <3>1. l[i] \in LibPort
            OBVIOUS
        <3> QED BY <3>1 DEF LibPort
    <2>2. m[i] = [l[i] EXCEPT !.mix_buffer = IF @ # 0 /\ Cardinality(l[i].connections) > 1 THEN size ELSE 0]
        BY <1>2 DEF jack_client_fix_port_buffers
    <2>3. Cardinality(l[i].connections) > 1 <=> Many(l[i].connections)
        BY <2>1, ManyIsMore
    <2> QED BY <2>1, <2>2, <2>3 DEF LibPort
<1>5. DOMAIN m = DOMAIN l /\ m = [i \in DOMAIN m |-> m[i]]
    BY <1>2 DEF jack_client_fix_port_buffers
<1>6. m \in Seq(LibPort) /\ \A r : jack_port_by_id_int(m, r) = jack_port_by_id_int(l, r)
    BY <1>4, <1>5, ChangedEntries
<1>7. CASE jack_port_by_id_int(l, p) = 0
    BY <1>2, <1>6, <1>7 DEF View, Mix
<1>8. CASE jack_port_by_id_int(l, p) # 0
    <2>1. PICK i \in 1 .. Len(l) : i = jack_port_by_id_int(l, p)
        BY <1>8, NewestIsFirst
    <2>3. View(m, p) = m[i].connections /\ Mix(m, p) = m[i].mix_buffer /\ View(l, p) = l[i].connections /\ Mix(l, p) = l[i].mix_buffer
        BY <1>6, <1>8, <2>1 DEF View, Mix
    <2> QED BY <1>2, <1>4, <1>6, <2>1, <2>3
<1> QED BY <1>7, <1>8

------------------------------------------------------------------------------
(* The buffers.                                                                *)

LEMMA SetAsSeq ==
    ASSUME NEW S, IsFiniteSet(S)
    PROVE  /\ SetToSeq(S) \in Seq(S)
           /\ \A i, j \in 1 .. Len(SetToSeq(S)) : SetToSeq(S)[i] = SetToSeq(S)[j] => i = j
           /\ \A x \in S : \E i \in 1 .. Len(SetToSeq(S)) : SetToSeq(S)[i] = x
<1>1. PICK n \in Nat : n = Cardinality(S)
    BY FS_CardinalityType
<1>2. \E f \in [1 .. n -> S] : IsInjective(f)
    <2>1. Bijection(1 .. n, S) # {}
        BY <1>1, FS_CardinalityType DEF ExistsBijection
    <2> QED BY <2>1 DEF Bijection, Injection
<1>3. PICK f : f = SetToSeq(S)
    OBVIOUS
<1>4. f \in [1 .. n -> S] /\ IsInjective(f)
    BY <1>1, <1>2, <1>3 DEF SetToSeq
<1>5. f \in Injection(1 .. n, S)
    BY <1>4 DEF Injection
<1>6. Cardinality(1 .. n) = n
    BY FS_Interval
<1>7. f \in Surjection(1 .. n, S)
    BY <1>1, <1>5, <1>6, FS_Injection
<1>8. f \in Seq(S) /\ Len(f) = n
    BY <1>4
<1> QED BY <1>3, <1>4, <1>7, <1>8 DEF IsInjective, Surjection

\* Given back once each, in front of those that are free.
LEMMA ReleasedBuffers ==
    ASSUME PortsTypeOK, BuffersKept, NEW S \in SUBSET Slots, jack_port_release(S)
    PROVE  /\ BuffersKept'
           /\ port' \in [Slots -> Port] /\ freelist' \in Seq(Buffers)
           /\ \A p \in Slots : /\ port'[p].in_use <=> port[p].in_use /\ p \notin S
                               /\ port'[p].owner = port[p].owner /\ port'[p].name = port[p].name
                               /\ port'[p].input = port[p].input
<1>1. PICK B : B = {port[p].buffer : p \in S} \ {NoSlot}
    OBVIOUS
<1>2. B \in SUBSET (Buffers \ {zero_buffer}) /\ IsFiniteSet(B)
    <2>1. \A p \in Slots : port[p].buffer \in Buffers \cup {NoSlot}
        BY DEF PortsTypeOK, Port
    <2>2. B \in SUBSET (Buffers \ {zero_buffer})
        BY <1>1, <2>1 DEF BuffersKept
    <2>3. 0 \in Int /\ PortMax - 1 \in Int
        BY PortsAssumption
    <2>4. IsFiniteSet(0 .. PortMax - 1)
        BY <2>3, FS_Interval
    <2> QED BY <2>2, <2>4, FS_Subset DEF Buffers
<1>3. PICK s : s = SetToSeq(B)
    OBVIOUS
<1>4. /\ s \in Seq(B)
      /\ \A i, j \in 1 .. Len(s) : s[i] = s[j] => i = j
      /\ \A x \in B : \E i \in 1 .. Len(s) : s[i] = x
    BY <1>2, <1>3, SetAsSeq
<1>5. freelist' = s \o freelist
    BY <1>1, <1>3 DEF jack_port_release
<1>6. \A p \in Slots : /\ p \in S => port'[p] = [port[p] EXCEPT !.in_use = FALSE, !.buffer = NoSlot]
                       /\ p \notin S => port'[p] = port[p]
    BY DEF jack_port_release
<1>7. \A p \in Slots : /\ port'[p] \in Port
                       /\ port'[p].buffer = IF p \in S THEN NoSlot ELSE port[p].buffer
                       /\ port'[p].in_use <=> port[p].in_use /\ p \notin S
                       /\ port'[p].owner = port[p].owner /\ port'[p].name = port[p].name /\ port'[p].input = port[p].input
    <2> SUFFICES ASSUME NEW p \in Slots
                 PROVE  /\ port'[p] \in Port
                        /\ port'[p].buffer = IF p \in S THEN NoSlot ELSE port[p].buffer
                        /\ port'[p].in_use <=> port[p].in_use /\ p \notin S
                        /\ port'[p].owner = port[p].owner /\ port'[p].name = port[p].name /\ port'[p].input = port[p].input
        OBVIOUS
    <2>1. port[p] \in Port
        BY DEF PortsTypeOK
    <2>2. CASE p \in S
        BY <1>6, <2>1, <2>2 DEF Port
    <2>3. CASE p \notin S
        BY <1>6, <2>1, <2>3 DEF Port
    <2> QED BY <2>2, <2>3
<1>8. port' \in [Slots -> Port]
    BY <1>7 DEF jack_port_release
<1>9. freelist \in Seq(Buffers) /\ s \in Seq(Buffers)
    BY <1>2, <1>4 DEF PortsTypeOK
<1>10. PICK n \in Nat, k \in Nat : n = Len(s) /\ k = Len(freelist)
    BY <1>9
<1>11. /\ freelist' \in Seq(Buffers) /\ DOMAIN freelist' = 1 .. (n + k) /\ DOMAIN freelist = 1 .. k
       /\ \A i \in 1 .. n : freelist'[i] = s[i]
       /\ \A i \in 1 .. k : freelist'[i + n] = freelist[i]
    BY <1>5, <1>9, <1>10
<1>12. \A i \in 1 .. (n + k) : \/ i \in 1 .. n /\ freelist'[i] = s[i] /\ s[i] \in B
                               \/ i - n \in 1 .. k /\ freelist'[i] = freelist[i - n] /\ i \notin 1 .. n
    <2>1. ASSUME NEW i \in 1 .. (n + k), i \notin 1 .. n PROVE i - n \in 1 .. k /\ freelist'[i] = freelist[i - n]
        <3>1. i - n \in 1 .. k /\ (i - n) + n = i
            BY <2>1
        <3> QED BY <1>11, <3>1
    <2>2. \A i \in 1 .. n : s[i] \in B
        BY <1>4, <1>10
    <2> QED BY <1>11, <2>1, <2>2
<1>13. \A b \in B : \E p \in S : port[p].buffer = b /\ b # NoSlot /\ b # zero_buffer
    BY <1>1, <1>2
<1>14. BuffersKept'
    <2>1. \A p \in Slots : /\ port'[p].buffer # NoSlot <=> port'[p].in_use /\ ~port'[p].input
                           /\ port'[p].buffer # zero_buffer
        <3> SUFFICES ASSUME NEW p \in Slots
                     PROVE  /\ port'[p].buffer # NoSlot <=> port'[p].in_use /\ ~port'[p].input
                            /\ port'[p].buffer # zero_buffer
            OBVIOUS
        <3>1. CASE p \in S
            BY <1>7, <3>1 DEF NoSlot, zero_buffer
        <3>2. CASE p \notin S
            BY <1>7, <3>2 DEF BuffersKept
        <3> QED BY <3>1, <3>2
    <2>2. \A p, q \in Slots : port'[p].buffer # NoSlot /\ port'[p].buffer = port'[q].buffer => p = q
        <3> SUFFICES ASSUME NEW p \in Slots, NEW q \in Slots, port'[p].buffer # NoSlot, port'[p].buffer = port'[q].buffer
                     PROVE  p = q
            OBVIOUS
        <3>1. p \notin S /\ q \notin S
            BY <1>7
        <3>2. port'[p].buffer = port[p].buffer /\ port'[q].buffer = port[q].buffer
            BY <1>7, <3>1
        <3>3. \A r, t \in Slots : port[r].buffer # NoSlot /\ port[r].buffer = port[t].buffer => r = t
            BY DEF BuffersKept
        <3> QED BY <3>2, <3>3
    <2>3. ASSUME NEW i \in 1 .. (n + k) PROVE freelist'[i] # zero_buffer
        <3>1. CASE i \in 1 .. n
            BY <1>11, <1>12, <1>13, <3>1
        <3>2. CASE i \notin 1 .. n
            BY <1>11, <1>12, <3>2 DEF BuffersKept
        <3> QED BY <3>1, <3>2
    <2>4. ASSUME NEW i \in 1 .. (n + k), NEW j \in 1 .. (n + k), freelist'[i] = freelist'[j] PROVE i = j
        <3>1. CASE i \in 1 .. n /\ j \in 1 .. n
            BY <1>4, <1>10, <1>11, <2>4, <3>1
        <3>2. CASE i \notin 1 .. n /\ j \notin 1 .. n
            <4>1. i - n \in 1 .. k /\ j - n \in 1 .. k /\ freelist[i - n] = freelist[j - n]
                BY <1>12, <2>4, <3>2
            <4>2. i - n = j - n
                BY <1>11, <4>1 DEF BuffersKept
            <4> QED BY <4>2
        <3>3. CASE i \in 1 .. n /\ j \notin 1 .. n
            <4>1. j - n \in 1 .. k /\ freelist[j - n] \in B
                BY <1>12, <2>4, <3>3
            <4> QED BY <1>11, <1>13, <4>1 DEF BuffersKept
        <3>4. CASE i \notin 1 .. n /\ j \in 1 .. n
            <4>1. i - n \in 1 .. k /\ freelist[i - n] \in B
                BY <1>12, <2>4, <3>4
            <4> QED BY <1>11, <1>13, <4>1 DEF BuffersKept
        <3> QED BY <3>1, <3>2, <3>3, <3>4
    <2>5. ASSUME NEW i \in 1 .. (n + k), NEW p \in Slots PROVE freelist'[i] # port'[p].buffer
        <3>1. CASE i \in 1 .. n
            <4>1. PICK q \in S : port[q].buffer = freelist'[i] /\ freelist'[i] # NoSlot
                BY <1>12, <1>13, <3>1
            <4>2. CASE p \in S
                BY <1>7, <4>1, <4>2
            <4>3. CASE p \notin S
                BY <1>7, <4>1, <4>3 DEF BuffersKept
            <4> QED BY <4>2, <4>3
        <3>2. CASE i \notin 1 .. n
            <4>1. i - n \in 1 .. k /\ freelist'[i] = freelist[i - n]
                BY <1>12, <3>2
            <4>2. freelist[i - n] \in Buffers
                BY <1>9, <1>10, <4>1
            <4>3. freelist[i - n] # port[p].buffer /\ freelist[i - n] # NoSlot
                <5>1. freelist[i - n] # NoSlot
                    BY <4>2, PortsAssumption DEF Buffers, NoSlot
                <5>2. \A j \in 1 .. k : \A q \in Slots : freelist[j] # port[q].buffer
                    BY <1>11 DEF BuffersKept
                <5> QED BY <4>1, <5>1, <5>2
            <4>4. CASE p \in S
                BY <1>7, <4>1, <4>3, <4>4
            <4>5. CASE p \notin S
                BY <1>7, <4>1, <4>3, <4>5
            <4> QED BY <4>4, <4>5
        <3> QED BY <3>1, <3>2
    <2>6. ASSUME NEW b \in Buffers \ {zero_buffer}
          PROVE  (\E i \in 1 .. (n + k) : freelist'[i] = b) \/ (\E p \in Slots : port'[p].buffer = b)
        <3>1. CASE b \in B
            <4>1. PICK i \in 1 .. n : s[i] = b
                BY <1>4, <1>10, <3>1
            <4>2. i \in 1 .. (n + k)
                OBVIOUS
            <4> QED BY <1>11, <4>1, <4>2
        <3>2. CASE b \notin B /\ \E i \in 1 .. k : freelist[i] = b
            <4>1. PICK i \in 1 .. k : freelist[i] = b
                BY <3>2
            <4>2. i + n \in 1 .. (n + k)
                OBVIOUS
            <4> QED BY <1>11, <4>1, <4>2
        <3>3. CASE b \notin B /\ \E p \in Slots : port[p].buffer = b
            <4>1. PICK p \in Slots : port[p].buffer = b
                BY <3>3
            <4>2. b # NoSlot
                BY PortsAssumption DEF Buffers, NoSlot
            <4>3. p \notin S
                BY <1>1, <3>3, <4>1, <4>2
            <4> QED BY <1>7, <4>1, <4>3
        <3> QED BY <1>11, <3>1, <3>2, <3>3 DEF BuffersKept
    <2> QED BY <1>11, <2>1, <2>2, <2>3, <2>4, <2>5, <2>6 DEF BuffersKept
<1> QED BY <1>7, <1>8, <1>11, <1>14

\* A new port takes the first free buffer, or needs none.
LEMMA TakenBuffer ==
    ASSUME PortsTypeOK, BuffersKept, NEW p \in Slots, ~port[p].in_use, NEW c \in Apps, NEW n \in Names, NEW input \in BOOLEAN,
           input \/ freelist # <<>>,
           port' = [port EXCEPT ![p] = [in_use |-> TRUE, owner |-> c, name |-> n, input |-> input, buffer |-> Assigned(input)]],
           freelist' = IF input THEN freelist ELSE Tail(freelist)
    PROVE  BuffersKept' /\ port' \in [Slots -> Port] /\ freelist' \in Seq(Buffers)
<1>1. \A q \in Slots : q # p => port'[q] = port[q]
    BY DEF PortsTypeOK
<1>2. port[p].buffer = NoSlot
    BY DEF BuffersKept
<1>3. CASE input
    <2>1. port'[p] = [in_use |-> TRUE, owner |-> c, name |-> n, input |-> input, buffer |-> NoSlot] /\ freelist' = freelist
        BY <1>3 DEF PortsTypeOK, Assigned
    <2>2. port' \in [Slots -> Port] /\ freelist' \in Seq(Buffers)
        BY <1>3, <2>1 DEF PortsTypeOK, Port, Assigned
    <2>3. \A q \in Slots : port'[q].buffer = port[q].buffer
        BY <1>1, <1>2, <2>1
    <2>4. port'[p].in_use /\ port'[p].input
        BY <1>3, <2>1
    <2>5. \A q \in Slots : port'[q].buffer # NoSlot <=> port'[q].in_use /\ ~port'[q].input
        BY <1>1, <2>1, <2>4 DEF BuffersKept
    <2>6. BuffersKept'
        BY <2>1, <2>3, <2>5 DEF BuffersKept
    <2> QED BY <2>2, <2>6
<1>4. CASE ~input
    <2>1. PICK k \in Nat \ {0} : /\ k = Len(freelist) /\ freelist \in Seq(Buffers) /\ DOMAIN freelist = 1 .. k
                                 /\ freelist' \in Seq(Buffers) /\ DOMAIN freelist' = 1 .. k - 1
                                 /\ \A i \in 1 .. k - 1 : freelist'[i] = freelist[i + 1]
        BY <1>4 DEF PortsTypeOK
    <2>2. Assigned(input) = freelist[1] /\ freelist[1] \in Buffers /\ 1 \in 1 .. k
        BY <1>4, <2>1 DEF Assigned
    <2>3. PICK b : b = freelist[1]
        OBVIOUS
    <2>4. b \in Buffers /\ b # zero_buffer /\ b # NoSlot /\ \A q \in Slots : port[q].buffer # b
        BY <2>1, <2>2, <2>3, PortsAssumption DEF BuffersKept, Buffers, NoSlot
    <2>5. port'[p] = [in_use |-> TRUE, owner |-> c, name |-> n, input |-> input, buffer |-> b]
        BY <2>2, <2>3 DEF PortsTypeOK
    <2>6. port' \in [Slots -> Port]
        <3>1. port'[p] \in Port
            BY <2>4, <2>5 DEF Port
        <3> QED BY <1>1, <3>1 DEF PortsTypeOK
    <2>7. \A q \in Slots : port'[q].buffer = IF q = p THEN b ELSE port[q].buffer
        BY <1>1, <2>5
    <2>8. \A q \in Slots : /\ port'[q].buffer # NoSlot <=> port'[q].in_use /\ ~port'[q].input
                           /\ port'[q].buffer # zero_buffer
        BY <1>1, <1>4, <2>4, <2>5 DEF BuffersKept
    <2>9. \A q, r \in Slots : port'[q].buffer # NoSlot /\ port'[q].buffer = port'[r].buffer => q = r
        BY <2>4, <2>7 DEF BuffersKept
    <2>10. \A i \in 1 .. k - 1 : i + 1 \in 1 .. k /\ i + 1 # 1
        OBVIOUS
    <2>11. ASSUME NEW i \in 1 .. k - 1
           PROVE  /\ freelist'[i] # zero_buffer
                  /\ \A j \in 1 .. k - 1 : freelist'[i] = freelist'[j] => i = j
                  /\ \A q \in Slots : freelist'[i] # port'[q].buffer
        <3>1. freelist'[i] = freelist[i + 1] /\ i + 1 \in 1 .. k /\ i + 1 # 1
            BY <2>1, <2>10
        <3>2. freelist'[i] # zero_buffer /\ freelist'[i] # b /\ \A q \in Slots : freelist'[i] # port[q].buffer
            BY <2>1, <2>2, <2>3, <3>1 DEF BuffersKept
        <3>3. ASSUME NEW j \in 1 .. k - 1, freelist'[i] = freelist'[j] PROVE i = j
            <4>1. freelist[i + 1] = freelist[j + 1] /\ j + 1 \in 1 .. k
                BY <2>1, <2>10, <3>1, <3>3
            <4>2. i + 1 = j + 1
                BY <2>1, <3>1, <4>1 DEF BuffersKept
            <4> QED BY <4>2
        <3> QED BY <2>7, <3>2, <3>3
    <2>12. ASSUME NEW x \in Buffers \ {zero_buffer}
           PROVE  (\E i \in 1 .. k - 1 : freelist'[i] = x) \/ (\E q \in Slots : port'[q].buffer = x)
        <3>1. CASE x = b
            BY <2>7, <3>1
        <3>2. CASE x # b /\ \E i \in 1 .. k : freelist[i] = x
            <4>1. PICK i \in 1 .. k : freelist[i] = x
                BY <3>2
            <4>2. i - 1 \in 1 .. k - 1 /\ (i - 1) + 1 = i
                BY <2>3, <3>2, <4>1
            <4>3. freelist'[i - 1] = x
                BY <2>1, <4>1, <4>2
            <4> QED BY <4>2, <4>3
        <3>3. CASE \E q \in Slots : port[q].buffer = x
            BY <2>7, <1>2, <3>3, PortsAssumption DEF Buffers, NoSlot
        <3> QED BY <2>1, <3>1, <3>2, <3>3 DEF BuffersKept
    <2>13. DOMAIN freelist' = 1 .. k - 1
        BY <2>1
    <2>14. BuffersKept'
        BY <2>8, <2>9, <2>11, <2>12, <2>13 DEF BuffersKept
    <2> QED BY <2>1, <2>6, <2>14
<1> QED BY <1>3, <1>4

------------------------------------------------------------------------------
(* Names and slots.                                                            *)

LEMMA LeastSlot ==
    ASSUME NEW S \in SUBSET Slots, S # {}
    PROVE  (CHOOSE p \in S : \A q \in S : p <= q) \in S /\ NoSlot \notin S
<1>1. S \in SUBSET Nat
    BY PortsAssumption DEF Slots
<1>2. \E p \in S : \A q \in S : p <= q
    BY <1>1, LeastExists
<1>3. (CHOOSE p \in S : \A q \in S : p <= q) \in S
    BY <1>2
<1>4. NoSlot \notin S
    BY <1>1 DEF NoSlot
<1> QED BY <1>3, <1>4

LEMMA FreePortIsFree ==
    ASSUME jack_get_free_port # NoSlot
    PROVE  jack_get_free_port \in Slots /\ ~port[jack_get_free_port].in_use
<1>1. PICK S \in SUBSET Slots : S = {p \in Slots : ~port[p].in_use}
    OBVIOUS
<1>2. S # {}
    BY <1>1 DEF jack_get_free_port
<1>3. jack_get_free_port = CHOOSE p \in S : \A q \in S : p <= q
    BY <1>1, <1>2 DEF jack_get_free_port
<1>4. jack_get_free_port \in S
    BY <1>2, <1>3, LeastSlot
<1> QED BY <1>1, <1>4

LEMMA NameFinds ==
    ASSUME NEW c, NEW n
    PROVE  \/ /\ jack_get_port_by_name(port, c, n) = NoSlot
              /\ \A p \in Slots : ~(port[p].in_use /\ port[p].owner = c /\ port[p].name = n)
           \/ /\ jack_get_port_by_name(port, c, n) \in Slots
              /\ jack_get_port_by_name(port, c, n) # NoSlot
              /\ port[jack_get_port_by_name(port, c, n)].in_use
              /\ port[jack_get_port_by_name(port, c, n)].owner = c
              /\ port[jack_get_port_by_name(port, c, n)].name = n
<1>1. PICK S \in SUBSET Slots : S = {p \in Slots : port[p].in_use /\ port[p].owner = c /\ port[p].name = n}
    OBVIOUS
<1>2. CASE S = {}
    BY <1>1, <1>2 DEF jack_get_port_by_name
<1>3. CASE S # {}
    <2>1. jack_get_port_by_name(port, c, n) = CHOOSE p \in S : \A q \in S : p <= q
        BY <1>1, <1>3 DEF jack_get_port_by_name
    <2>2. jack_get_port_by_name(port, c, n) \in S /\ NoSlot \notin S
        BY <1>3, <2>1, LeastSlot
    <2> QED BY <1>1, <2>2
<1> QED BY <1>2, <1>3

------------------------------------------------------------------------------
(* Connections that go.                                                        *)

LEMMA OthersGone ==
    ASSUME PortsIInv, NEW gone \in SUBSET conns, NEW p \in Slots
    PROVE  Others(p, conns \ gone) = Others(p, conns) \ Others(p, gone)
<1>1. ASSUME NEW q \in Slots, <<p, q>> \in conns, <<q, p>> \in conns PROVE FALSE
    <2>1. PICK x \in conns : x = <<p, q>>
        BY <1>1
    <2>2. PICK y \in conns : y = <<q, p>>
        BY <1>1
    <2>3. ~port[p].input
        BY <2>1 DEF PortsIInv, TableKept
    <2>4. port[p].input
        BY <2>2 DEF PortsIInv, TableKept
    <2> QED BY <2>3, <2>4
<1> QED BY <1>1 DEF Others

\* A client that is not active has no connections.
LEMMA InactiveAlone ==
    ASSUME PortsIInv, NEW c \in Apps, c \notin active, NEW p \in ports[c]
    PROVE  Others(p, conns) = {}
<1>1. port[p].owner = c /\ p \in Slots
    BY DEF PortsIInv, TableKept, PortsTypeOK
<1>2. ASSUME NEW q \in Slots, <<p, q>> \in conns \/ <<q, p>> \in conns PROVE FALSE
    <2>1. CASE <<p, q>> \in conns
        <3>1. PICK x \in conns : x = <<p, q>>
            BY <2>1
        <3>2. port[x[1]].owner \in active
            BY DEF PortsIInv, TableKept
        <3> QED BY <1>1, <3>1, <3>2
    <2>2. CASE <<q, p>> \in conns
        <3>1. PICK x \in conns : x = <<q, p>>
            BY <2>2
        <3>2. port[x[2]].owner \in active
            BY DEF PortsIInv, TableKept
        <3> QED BY <1>1, <3>1, <3>2
    <2> QED BY <1>2, <2>1, <2>2
<1> QED BY <1>2 DEF Others

LEMMA ToldGoneTypes ==
    ASSUME PortsTypeOK, NEW gone, NEW c \in Apps
    PROVE  ToldGone(gone)[c] \in Seq(LibPort)
<1>1. 0 \in Slots
    BY PortsAssumption DEF Slots
<1>2. PortsDisconnected(c, gone) \in Seq(LibPort)
    BY <1>1, DisconnectedEntries
<1>3. lib[c] \in Seq(LibPort)
    BY DEF PortsTypeOK
<1> QED BY <1>2, <1>3 DEF ToldGone

LEMMA ToldGoneViews ==
    ASSUME PortsIInv, NEW gone \in SUBSET conns, NEW c \in Apps \ dead, NEW p \in Slots
    PROVE  /\ View(ToldGone(gone)[c], p) \subseteq (IF p \in ports[c] THEN Others(p, conns \ gone) ELSE {})
           /\ p \notin lost => View(ToldGone(gone)[c], p) = IF p \in ports[c] THEN Others(p, conns \ gone) ELSE {}
           /\ View(ToldGone(gone)[c], p) \subseteq View(lib[c], p)
           /\ Mix(ToldGone(gone)[c], p) = Mix(lib[c], p)
<1>1. /\ View(lib[c], p) \subseteq ToSee(c, p)
      /\ p \notin lost => View(lib[c], p) = ToSee(c, p)
    BY DEF PortsIInv, ViewsKept
<1>2. p \in ports[c] => port[p].owner = c
    BY DEF PortsIInv, TableKept
<1>3. CASE c \notin active
    <2>1. ToldGone(gone)[c] = lib[c]
        BY <1>3 DEF ToldGone, Listens
    <2>2. p \in ports[c] => Others(p, conns) = {}
        BY <1>3, InactiveAlone
    <2>3. Others(p, conns \ gone) \subseteq Others(p, conns)
        BY DEF Others
    <2> QED BY <1>1, <2>1, <2>2, <2>3 DEF ToSee
<1>4. CASE c \in active
    <2>1. ToldGone(gone)[c] = PortsDisconnected(c, gone)
        BY <1>4 DEF ToldGone, Listens
    <2>2. /\ View(PortsDisconnected(c, gone), p) =
                IF port[p].owner = c THEN View(lib[c], p) \ Others(p, gone) ELSE View(lib[c], p)
          /\ Mix(PortsDisconnected(c, gone), p) = Mix(lib[c], p)
        BY DisconnectedEntries DEF PortsIInv
    <2>3. Others(p, conns \ gone) = Others(p, conns) \ Others(p, gone)
        BY OthersGone
    <2>4. CASE p \in ports[c]
        BY <1>1, <1>2, <2>1, <2>2, <2>3, <2>4 DEF ToSee
    <2>5. CASE p \notin ports[c]
        BY <1>1, <2>1, <2>2, <2>5 DEF ToSee
    <2> QED BY <2>4, <2>5
<1> QED BY <1>3, <1>4

\* Ports are released, connections go, and clients may stop being active.
LEMMA GoneKeeps ==
    ASSUME PortsIInv, NEW S \in SUBSET Slots, NEW gone \in SUBSET conns, Touching(S) \subseteq gone,
           conns' = conns \ gone,
           lib' \in [Apps -> Seq(LibPort)], \A a \in Apps \ dead' : lib'[a] = ToldGone(gone)[a],
           jack_port_release(S) \/ (S = {} /\ UNCHANGED <<port, freelist>>),
           ports' \in [Apps -> SUBSET Slots], \A a \in Apps : ports'[a] = ports[a] \ S,
           active' \in SUBSET active, dead \in SUBSET dead', dead' \in SUBSET Apps, active' \cap dead' = {},
           \A a \in dead' : ports'[a] = {},
           \A x \in conns' : port[x[1]].owner \in active' /\ port[x[2]].owner \in active',
           \A a \in Apps \ dead' : asking[a] # NoSlot => asking[a] \notin S,
           UNCHANGED <<buffer_size, asking, lost, torn, renamed>>
    PROVE  PortsIInv'
<1>1. PortsTypeOK /\ BuffersKept /\ TableKept /\ AskingKept /\ ViewsKept /\ MixersKept
    BY DEF PortsIInv
<1>2. /\ BuffersKept' /\ port' \in [Slots -> Port] /\ freelist' \in Seq(Buffers)
      /\ \A p \in Slots : /\ port'[p].in_use <=> port[p].in_use /\ p \notin S
                          /\ port'[p].owner = port[p].owner /\ port'[p].name = port[p].name
                          /\ port'[p].input = port[p].input
    <2>1. CASE jack_port_release(S)
        BY <1>1, <2>1, ReleasedBuffers
    <2>2. CASE S = {} /\ UNCHANGED <<port, freelist>>
        BY <1>1, <2>2 DEF PortsTypeOK, BuffersKept
    <2> QED BY <2>1, <2>2
<1>3. PortsTypeOK'
    BY <1>1, <1>2 DEF PortsTypeOK
<1>4. \A x \in conns : x \notin gone => x[1] \notin S /\ x[2] \notin S
    BY DEF Touching
<1>5. TableKept'
    <2>1. ASSUME NEW p \in Slots, NEW c \in Apps PROVE p \in ports'[c] <=> port'[p].in_use /\ port'[p].owner = c
        <3>1. p \in ports[c] <=> port[p].in_use /\ port[p].owner = c
            BY <1>1 DEF TableKept
        <3>2. p \in ports'[c] <=> p \in ports[c] /\ p \notin S
            OBVIOUS
        <3> QED BY <1>2, <3>1, <3>2
    <2>2. ASSUME NEW x \in conns'
          PROVE  /\ port'[x[1]].in_use /\ ~port'[x[1]].input /\ port'[x[1]].owner \in active'
                 /\ port'[x[2]].in_use /\ port'[x[2]].input /\ port'[x[2]].owner \in active'
        <3>1. x \in conns /\ x \notin gone /\ x[1] \in Slots /\ x[2] \in Slots
            BY <1>1 DEF PortsTypeOK
        <3>2. x[1] \notin S /\ x[2] \notin S
            BY <1>4, <3>1
        <3>3. port[x[1]].in_use /\ ~port[x[1]].input /\ port[x[2]].in_use /\ port[x[2]].input
            BY <1>1, <3>1 DEF TableKept
        <3> QED BY <1>2, <3>1, <3>2, <3>3
    <2>3. ASSUME ~renamed', NEW p \in Slots, NEW q \in Slots, port'[p].in_use, port'[q].in_use,
                 port'[p].owner = port'[q].owner, port'[p].name = port'[q].name
          PROVE  p = q
        <3>1. ~renamed
            BY <2>3
        <3>2. port[p].in_use /\ port[q].in_use /\ port[p].owner = port[q].owner /\ port[p].name = port[q].name
            BY <1>2, <2>3
        <3> QED BY <1>1, <3>1, <3>2 DEF TableKept
    <2>4. active' \cap dead' = {} /\ \A c \in dead' : ports'[c] = {}
        OBVIOUS
    <2>5. \A p \in Slots, c \in Apps : p \in ports'[c] <=> port'[p].in_use /\ port'[p].owner = c
        BY <2>1
    <2>6. \/ renamed'
          \/ \A p, q \in Slots :
               port'[p].in_use /\ port'[q].in_use /\ port'[p].owner = port'[q].owner /\ port'[p].name = port'[q].name => p = q
        BY <2>3
    <2>7. \A x \in conns' : /\ port'[x[1]].in_use /\ ~port'[x[1]].input /\ port'[x[1]].owner \in active'
                            /\ port'[x[2]].in_use /\ port'[x[2]].input /\ port'[x[2]].owner \in active'
        BY <2>2
    <2> QED BY <2>4, <2>5, <2>6, <2>7 DEF TableKept
<1>6. AskingKept'
    <2>1. SUFFICES ASSUME NEW c \in Apps \ dead', asking[c] # NoSlot
                   PROVE  asking[c] \in ports'[c] /\ (asking[c] \notin lost => Others(asking[c], conns') = {})
        BY DEF AskingKept, Others
    <2>2. asking[c] \in ports[c] /\ (asking[c] \notin lost => Others(asking[c], conns) = {})
        BY <1>1, <2>1 DEF AskingKept
    <2> QED BY <2>1, <2>2 DEF Others
<1>7. ASSUME NEW c \in Apps \ dead', NEW p \in Slots
      PROVE  /\ View(lib'[c], p) \subseteq (IF p \in ports'[c] THEN Others(p, conns') ELSE {})
             /\ p \notin lost => View(lib'[c], p) = IF p \in ports'[c] THEN Others(p, conns') ELSE {}
             /\ View(lib'[c], p) \subseteq View(lib[c], p)
             /\ Mix(lib'[c], p) = Mix(lib[c], p)
    <2>a. c \in Apps \ dead
        OBVIOUS
    <2>1. lib'[c] = ToldGone(gone)[c]
        OBVIOUS
    <2>2. /\ View(ToldGone(gone)[c], p) \subseteq (IF p \in ports[c] THEN Others(p, conns \ gone) ELSE {})
          /\ p \notin lost => View(ToldGone(gone)[c], p) = IF p \in ports[c] THEN Others(p, conns \ gone) ELSE {}
          /\ View(ToldGone(gone)[c], p) \subseteq View(lib[c], p)
          /\ Mix(ToldGone(gone)[c], p) = Mix(lib[c], p)
        <3>1. \A d \in Apps \ dead, q \in Slots :
                /\ View(ToldGone(gone)[d], q) \subseteq (IF q \in ports[d] THEN Others(q, conns \ gone) ELSE {})
                /\ q \notin lost => View(ToldGone(gone)[d], q) = IF q \in ports[d] THEN Others(q, conns \ gone) ELSE {}
                /\ View(ToldGone(gone)[d], q) \subseteq View(lib[d], q)
                /\ Mix(ToldGone(gone)[d], q) = Mix(lib[d], q)
            BY ToldGoneViews
        <3> QED BY <2>a, <3>1
    <2>3. CASE p \in S
        <3>1. Others(p, conns \ gone) = {}
            <4>1. ASSUME NEW q \in Slots, <<p, q>> \in conns \ gone \/ <<q, p>> \in conns \ gone PROVE FALSE
                <5>1. CASE <<p, q>> \in conns \ gone
                    <6>1. PICK x \in conns : x = <<p, q>> /\ x \notin gone
                        BY <5>1
                    <6> QED BY <1>4, <2>3, <6>1
                <5>2. CASE <<q, p>> \in conns \ gone
                    <6>1. PICK x \in conns : x = <<q, p>> /\ x \notin gone
                        BY <5>2
                    <6> QED BY <1>4, <2>3, <6>1
                <5> QED BY <4>1, <5>1, <5>2
            <4> QED BY <4>1 DEF Others
        <3> QED BY <2>1, <2>2, <2>3, <3>1
    <2>4. CASE p \notin S
        <3>1. p \in ports'[c] <=> p \in ports[c]
            BY <2>4
        <3> QED BY <2>1, <2>2, <3>1
    <2> QED BY <2>3, <2>4
<1>8. ViewsKept'
    <2>1. \A c, p : ToSee(c, p)' = IF p \in ports'[c] THEN Others(p, conns') ELSE {}
        BY DEF ToSee, Others
    <2>2. \A c, p : View(lib[c], p)' = View(lib'[c], p)
        BY DEF View, jack_port_by_id_int
    <2> QED BY <1>7, <2>1, <2>2 DEF ViewsKept
<1>9. MixersKept'
    <2>1. SUFFICES ASSUME NEW c \in active', NEW p \in Slots
                   PROVE  /\ ~torn => Mix(lib'[c], p) \in {0, buffer_size}
                          /\ p \in ports'[c] /\ port'[p].input /\ Many(View(lib'[c], p)) => Mix(lib'[c], p) # 0
        <3>1. \A c, p : /\ View(lib[c], p)' = View(lib'[c], p) /\ Mix(lib[c], p)' = Mix(lib'[c], p)
                        /\ Many(View(lib[c], p))' <=> Many(View(lib'[c], p))
            BY DEF Mix, View, Many, jack_port_by_id_int
        <3> QED BY <3>1 DEF MixersKept
    <2>2. c \in active /\ c \in Apps \ dead'
        BY <1>1 DEF PortsTypeOK
    <2>3. View(lib'[c], p) \subseteq View(lib[c], p) /\ Mix(lib'[c], p) = Mix(lib[c], p)
        BY <1>7, <2>2
    <2>4. /\ ~torn => Mix(lib[c], p) \in {0, buffer_size}
          /\ p \in ports[c] /\ port[p].input /\ Many(View(lib[c], p)) => Mix(lib[c], p) # 0
        BY <1>1, <2>2 DEF MixersKept
    <2>5. Many(View(lib'[c], p)) => Many(View(lib[c], p))
        BY <2>3 DEF Many
    <2>6. p \in ports'[c] => p \in ports[c]
        BY <2>2
    <2> QED BY <1>2, <2>3, <2>4, <2>5, <2>6
<1> QED BY <1>2, <1>3, <1>5, <1>6, <1>8, <1>9 DEF PortsIInv

LEMMA UnregisterKeepsPorts ==
    ASSUME PortsIInv, NEW c \in Apps, NEW p \in Slots, jack_port_do_unregister(c, p)
    PROVE  PortsIInv'
<1>1. PortsTypeOK /\ TableKept /\ AskingKept
    BY DEF PortsIInv
<1>2. PICK S \in SUBSET Slots : S = {p}
    OBVIOUS
<1>3. PICK gone \in SUBSET conns : gone = Touching(S)
    BY DEF Touching
<1>4. /\ conns' = conns \ gone /\ lib' = ToldGone(gone) /\ jack_port_release(S)
      /\ ports' = [ports EXCEPT ![c] = @ \ S] /\ asking[c] = NoSlot /\ port[p].owner = c
      /\ UNCHANGED <<active, dead, buffer_size, asking, lost, torn, renamed>>
    BY <1>2, <1>3 DEF jack_port_do_unregister, MayUnregister
<1>5. lib' \in [Apps -> Seq(LibPort)] /\ \A a \in Apps \ dead' : lib'[a] = ToldGone(gone)[a]
    <2>1. \A a \in Apps : ToldGone(gone)[a] \in Seq(LibPort)
        BY <1>1, ToldGoneTypes
    <2> QED BY <1>4, <2>1 DEF ToldGone
<1>6. \A a \in Apps, q \in Slots : q \in ports[a] => port[q].owner = a
    BY <1>1 DEF TableKept
<1>7. ports' \in [Apps -> SUBSET Slots] /\ \A a \in Apps : ports'[a] = ports[a] \ S
    BY <1>1, <1>2, <1>4, <1>6 DEF PortsTypeOK
<1>8. \A a \in Apps \ dead' : asking[a] # NoSlot => asking[a] \notin S
    <2>1. ASSUME NEW a \in Apps \ dead, asking[a] # NoSlot, asking[a] = p PROVE FALSE
        <3>1. p \in ports[a]
            BY <1>1, <2>1 DEF AskingKept
        <3> QED BY <1>4, <1>6, <2>1, <3>1
    <2> QED BY <1>2, <1>4, <2>1
<1>9. /\ active' \in SUBSET active /\ dead \in SUBSET dead' /\ dead' \in SUBSET Apps /\ active' \cap dead' = {}
      /\ \A a \in dead' : ports'[a] = {}
      /\ \A x \in conns' : port[x[1]].owner \in active' /\ port[x[2]].owner \in active'
    BY <1>1, <1>4, <1>7 DEF TableKept, PortsTypeOK
<1> QED BY <1>3, <1>4, <1>5, <1>7, <1>8, <1>9, GoneKeeps

\* Connections go and nothing else.
LEMMA DisconnectsKeep ==
    ASSUME PortsIInv, NEW gone \in SUBSET conns, conns' = conns \ gone, lib' = ToldGone(gone),
           UNCHANGED <<port, freelist, ports, active, dead, buffer_size, asking, lost, torn, renamed>>
    PROVE  PortsIInv'
<1>1. PortsTypeOK /\ TableKept
    BY DEF PortsIInv
<1>2. PICK S \in SUBSET Slots : S = {}
    OBVIOUS
<1>3. Touching(S) \subseteq gone
    BY <1>2 DEF Touching
<1>4. lib' \in [Apps -> Seq(LibPort)] /\ \A a \in Apps \ dead' : lib'[a] = ToldGone(gone)[a]
    <2>1. \A a \in Apps : ToldGone(gone)[a] \in Seq(LibPort)
        BY <1>1, ToldGoneTypes
    <2> QED BY <2>1 DEF ToldGone
<1>5. ports' \in [Apps -> SUBSET Slots] /\ \A a \in Apps : ports'[a] = ports[a] \ S
    BY <1>1, <1>2 DEF PortsTypeOK
<1>6. /\ active' \in SUBSET active /\ dead \in SUBSET dead' /\ dead' \in SUBSET Apps /\ active' \cap dead' = {}
      /\ \A a \in dead' : ports'[a] = {}
      /\ \A x \in conns' : port[x[1]].owner \in active' /\ port[x[2]].owner \in active'
      /\ \A a \in Apps \ dead' : asking[a] # NoSlot => asking[a] \notin S
    BY <1>1, <1>2 DEF TableKept, PortsTypeOK
<1>7. jack_port_release(S) \/ (S = {} /\ UNCHANGED <<port, freelist>>)
    BY <1>2
<1>8. UNCHANGED <<buffer_size, asking, lost, torn, renamed>>
    OBVIOUS
<1> QED BY <1>3, <1>4, <1>5, <1>6, <1>7, <1>8, GoneKeeps

LEMMA DisconnectKeepsPorts ==
    ASSUME PortsIInv, NEW c, NEW n, NEW d, NEW m, jack_port_do_disconnect(c, n, d, m)
    PROVE  PortsIInv'
<1>1. PICK gone : gone = {<<jack_get_port_by_name(port, c, n), jack_get_port_by_name(port, d, m)>>}
    OBVIOUS
<1>2. /\ gone \in SUBSET conns /\ conns' = conns \ gone /\ lib' = ToldGone(gone)
      /\ UNCHANGED <<port, freelist, ports, active, dead, buffer_size, asking, lost, torn, renamed>>
    BY <1>1 DEF jack_port_do_disconnect
<1> QED BY <1>2, DisconnectsKeep

LEMMA DisconnectAllKeepsPorts ==
    ASSUME PortsIInv, NEW p, jack_port_do_disconnect_all(p)
    PROVE  PortsIInv'
<1>1. PICK gone : gone = Touching({p})
    OBVIOUS
<1>2. /\ gone \in SUBSET conns /\ conns' = conns \ gone /\ lib' = ToldGone(gone)
      /\ UNCHANGED <<port, freelist, ports, active, dead, buffer_size, asking, lost, torn, renamed>>
    BY <1>1 DEF jack_port_do_disconnect_all, Touching
<1> QED BY <1>2, DisconnectsKeep

\* The ends of what is left belong to others.
LEMMA LeftToOthers ==
    ASSUME PortsIInv, NEW c \in Apps, NEW x \in conns, x \notin Touching(ports[c])
    PROVE  port[x[1]].owner \in active \ {c} /\ port[x[2]].owner \in active \ {c}
<1>1. x[1] \in Slots /\ x[2] \in Slots /\ x[1] \notin ports[c] /\ x[2] \notin ports[c]
    BY DEF PortsIInv, PortsTypeOK, Touching
<1> QED BY <1>1 DEF PortsIInv, TableKept

LEMMA DeactivatesKeepsPorts ==
    ASSUME PortsIInv, NEW c \in Apps, Deactivates(c)
    PROVE  PortsIInv'
<1>1. PortsTypeOK /\ TableKept
    BY DEF PortsIInv
<1>2. PICK S \in SUBSET Slots : S = {}
    OBVIOUS
<1>3. PICK gone \in SUBSET conns : gone = Touching(ports[c])
    BY DEF Touching
<1>4. /\ conns' = conns \ gone /\ lib' = ToldGone(gone) /\ active' = active \ {c}
      /\ UNCHANGED <<port, freelist, ports, dead, buffer_size, asking, lost, torn, renamed>>
    BY <1>3 DEF Deactivates
<1>5. Touching(S) \subseteq gone
    BY <1>2 DEF Touching
<1>6. lib' \in [Apps -> Seq(LibPort)] /\ \A a \in Apps \ dead' : lib'[a] = ToldGone(gone)[a]
    <2>1. \A a \in Apps : ToldGone(gone)[a] \in Seq(LibPort)
        BY <1>1, ToldGoneTypes
    <2> QED BY <1>4, <2>1 DEF ToldGone
<1>7. ports' \in [Apps -> SUBSET Slots] /\ \A a \in Apps : ports'[a] = ports[a] \ S
    BY <1>1, <1>2, <1>4 DEF PortsTypeOK
<1>8. \A x \in conns' : port[x[1]].owner \in active' /\ port[x[2]].owner \in active'
    BY <1>3, <1>4, LeftToOthers
<1>9. /\ active' \in SUBSET active /\ dead \in SUBSET dead' /\ dead' \in SUBSET Apps /\ active' \cap dead' = {}
      /\ \A a \in dead' : ports'[a] = {}
      /\ \A a \in Apps \ dead' : asking[a] # NoSlot => asking[a] \notin S
      /\ jack_port_release(S) \/ (S = {} /\ UNCHANGED <<port, freelist>>)
    BY <1>1, <1>2, <1>4 DEF TableKept, PortsTypeOK
<1> QED BY <1>4, <1>5, <1>6, <1>7, <1>8, <1>9, GoneKeeps

LEMMA ZombifiesKeepsPorts ==
    ASSUME PortsIInv, NEW c \in Apps, Zombifies(c)
    PROVE  PortsIInv'
<1>1. PortsTypeOK /\ TableKept /\ AskingKept
    BY DEF PortsIInv
<1>2. PICK S \in SUBSET Slots : S = ports[c]
    BY <1>1 DEF PortsTypeOK
<1>3. PICK gone \in SUBSET conns : gone = Touching(S)
    BY DEF Touching
<1>4. /\ conns' = conns \ gone /\ active' = active \ {c} /\ dead' = dead \cup {c} /\ c \notin dead
      /\ lib' = [ToldGone(gone) EXCEPT ![c] = lib[c]]
      /\ jack_port_release(S)
      /\ ports' = [ports EXCEPT ![c] = {}]
      /\ UNCHANGED <<buffer_size, asking, lost, torn, renamed>>
    BY <1>2, <1>3 DEF Zombifies
<1>5. lib' \in [Apps -> Seq(LibPort)] /\ \A a \in Apps \ dead' : lib'[a] = ToldGone(gone)[a]
    <2>1. \A a \in Apps : ToldGone(gone)[a] \in Seq(LibPort)
        BY <1>1, ToldGoneTypes
    <2>2. lib[c] \in Seq(LibPort)
        BY <1>1 DEF PortsTypeOK
    <2>3. ToldGone(gone) \in [Apps -> Seq(LibPort)]
        BY <2>1 DEF ToldGone
    <2> QED BY <1>4, <2>2, <2>3
<1>6. \A a \in Apps, q \in Slots : q \in ports[a] => port[q].owner = a
    BY <1>1 DEF TableKept
<1>7. ports' \in [Apps -> SUBSET Slots] /\ \A a \in Apps : ports'[a] = ports[a] \ S
    BY <1>1, <1>2, <1>4, <1>6 DEF PortsTypeOK
<1>8. \A a \in Apps \ dead' : asking[a] # NoSlot => asking[a] \notin S
    <2>1. ASSUME NEW a \in Apps \ dead, a # c, asking[a] # NoSlot, asking[a] \in S PROVE FALSE
        <3>1. asking[a] \in ports[a] /\ asking[a] \in Slots
            BY <1>1, <2>1 DEF AskingKept, PortsTypeOK
        <3> QED BY <1>2, <1>6, <2>1, <3>1
    <2> QED BY <1>4, <2>1
<1>9. \A x \in conns' : port[x[1]].owner \in active' /\ port[x[2]].owner \in active'
    BY <1>2, <1>3, <1>4, LeftToOthers
<1>10. /\ active' \in SUBSET active /\ dead \in SUBSET dead' /\ dead' \in SUBSET Apps /\ active' \cap dead' = {}
       /\ \A a \in dead' : ports'[a] = {}
    BY <1>1, <1>2, <1>4, <1>7 DEF TableKept, PortsTypeOK
<1> QED BY <1>3, <1>4, <1>5, <1>7, <1>8, <1>9, <1>10, GoneKeeps

\* The table, the free buffers and the connections stay; lists and clients change.
LEMMA ListsKeep ==
    ASSUME PortsIInv, UNCHANGED <<port, freelist, conns, ports, lost, renamed>>,
           active \in SUBSET active', active' \in SUBSET Apps, dead' \in SUBSET dead, active' \cap dead' = {},
           buffer_size' \in Sizes, lib' \in [Apps -> Seq(LibPort)], asking' \in [Apps -> Slots \cup {NoSlot}],
           \A c \in Apps \ dead' : asking'[c] # NoSlot => c \notin dead /\ asking'[c] = asking[c],
           \A c \in Apps \ dead' : \A p \in Slots : View(lib'[c], p) = IF c \in dead THEN {} ELSE View(lib[c], p),
           \A c \in active' : \A p \in Slots :
              /\ ~torn' => Mix(lib'[c], p) \in {0, buffer_size'}
              /\ p \in ports[c] /\ port[p].input /\ Many(View(lib'[c], p)) => Mix(lib'[c], p) # 0
    PROVE  PortsIInv'
<1>1. PortsTypeOK /\ BuffersKept /\ TableKept /\ AskingKept /\ ViewsKept
    BY DEF PortsIInv
<1>2. PortsTypeOK'
    BY <1>1 DEF PortsTypeOK
<1>3. BuffersKept'
    BY <1>1 DEF BuffersKept
<1>4. TableKept'
    BY <1>1 DEF TableKept
<1>5. AskingKept'
    <2>1. SUFFICES ASSUME NEW c \in Apps \ dead', asking'[c] # NoSlot
                   PROVE  asking'[c] \in ports[c] /\ (asking'[c] \notin lost => Others(asking'[c], conns) = {})
        BY DEF AskingKept, Others
    <2>2. c \in Apps \ dead /\ asking'[c] = asking[c]
        BY <2>1
    <2> QED BY <1>1, <2>1, <2>2 DEF AskingKept
<1>6. ViewsKept'
    <2>1. \A c, p : ToSee(c, p)' = ToSee(c, p)
        BY DEF ToSee, Others
    <2>2. \A c, p : View(lib[c], p)' = View(lib'[c], p)
        BY DEF View, jack_port_by_id_int
    <2>3. ASSUME NEW c \in Apps \ dead', NEW p \in Slots
          PROVE  View(lib'[c], p) \subseteq ToSee(c, p) /\ (p \notin lost => View(lib'[c], p) = ToSee(c, p))
        <3>1. View(lib'[c], p) = IF c \in dead THEN {} ELSE View(lib[c], p)
            OBVIOUS
        <3>2. CASE c \in dead
            <4>1. ports[c] = {}
                BY <1>1, <3>2 DEF TableKept
            <4> QED BY <3>1, <3>2, <4>1 DEF ToSee
        <3>3. CASE c \notin dead
            BY <1>1, <3>1, <3>3 DEF ViewsKept
        <3> QED BY <3>2, <3>3
    <2> QED BY <2>1, <2>2, <2>3 DEF ViewsKept
<1>7. MixersKept'
    <2>1. \A c, p : /\ View(lib[c], p)' = View(lib'[c], p) /\ Mix(lib[c], p)' = Mix(lib'[c], p)
                    /\ Many(View(lib[c], p))' <=> Many(View(lib'[c], p))
        BY DEF Mix, View, Many, jack_port_by_id_int
    <2> QED BY <2>1 DEF MixersKept
<1> QED BY <1>2, <1>3, <1>4, <1>5, <1>6, <1>7 DEF PortsIInv

LEMMA ActivatesKeepsPorts ==
    ASSUME PortsIInv, NEW c \in Apps, Activates(c)
    PROVE  PortsIInv'
<1>1. PortsTypeOK /\ TableKept /\ AskingKept /\ ViewsKept /\ MixersKept
    BY DEF PortsIInv
<1>2. PICK l \in Seq(LibPort), size \in Sizes : l = lib[c] /\ size = buffer_size
    BY <1>1 DEF PortsTypeOK
<1>3. PICK f : f = jack_client_fix_port_buffers(l, size)
    OBVIOUS
<1>4. f \in Seq(LibPort) /\ \A p : /\ View(f, p) = View(l, p)
                                   /\ Mix(f, p) = IF Mix(l, p) # 0 /\ Many(View(l, p)) THEN size ELSE 0
    BY <1>3, FixedEntries
<1>5. /\ lib' = [lib EXCEPT ![c] = f] /\ active' = active \cup {c} /\ c \notin active /\ c \notin dead
      /\ UNCHANGED <<port, freelist, conns, ports, dead, buffer_size, asking, lost, torn, renamed>>
    BY <1>2, <1>3 DEF Activates
<1>6. /\ lib' \in [Apps -> Seq(LibPort)] /\ lib'[c] = f /\ \A a \in Apps : a # c => lib'[a] = lib[a]
      /\ active \in SUBSET active' /\ active' \in SUBSET Apps /\ dead' \in SUBSET dead /\ active' \cap dead' = {}
      /\ buffer_size' \in Sizes /\ asking' \in [Apps -> Slots \cup {NoSlot}]
      /\ UNCHANGED <<port, freelist, conns, ports, lost, renamed>>
    BY <1>1, <1>4, <1>5 DEF PortsTypeOK, TableKept
<1>7. \A a \in Apps \ dead' : asking'[a] # NoSlot => a \notin dead /\ asking'[a] = asking[a]
    BY <1>5
<1>8. \A a \in Apps \ dead' : \A p \in Slots : View(lib'[a], p) = IF a \in dead THEN {} ELSE View(lib[a], p)
    BY <1>2, <1>4, <1>5, <1>6
<1>9. ASSUME NEW a \in active', NEW p \in Slots
      PROVE  /\ ~torn' => Mix(lib'[a], p) \in {0, buffer_size'}
             /\ p \in ports[a] /\ port[p].input /\ Many(View(lib'[a], p)) => Mix(lib'[a], p) # 0
    <2>1. CASE a = c
        <3>1. Mix(lib'[a], p) \in {0, buffer_size'}
            BY <1>2, <1>4, <1>5, <1>6, <2>1
        <3>2. p \in ports[c] => ~Many(View(lib'[a], p))
            <4>1. p \in ports[c] => Others(p, conns) = {}
                BY <1>5, InactiveAlone
            <4>2. View(l, p) \subseteq ToSee(c, p)
                BY <1>1, <1>2, <1>5 DEF ViewsKept
            <4> QED BY <1>4, <1>6, <2>1, <4>1, <4>2 DEF ToSee, Many
        <3> QED BY <2>1, <3>1, <3>2
    <2>2. CASE a # c
        <3>1. a \in active /\ a \in Apps /\ lib'[a] = lib[a]
            BY <1>1, <1>5, <1>6, <2>2 DEF PortsTypeOK
        <3> QED BY <1>1, <1>5, <3>1 DEF MixersKept
    <2> QED BY <2>1, <2>2
<1> QED BY <1>6, <1>7, <1>8, <1>9, ListsKeep

LEMMA EmptyList ==
    ASSUME NEW p PROVE <<>> \in Seq(LibPort) /\ View(<<>>, p) = {} /\ Mix(<<>>, p) = 0
<1>1. <<>> \in Seq(LibPort) /\ Len(<<>>) = 0
    OBVIOUS
<1>2. PICK l \in Seq(LibPort) : l = <<>> /\ Len(l) = 0
    BY <1>1
<1>3. Len(l) = 0 /\ l \in Seq(LibPort)
    BY <1>2
<1>4. jack_port_by_id_int(l, p) = 0
    <2>1. jack_port_by_id_int(l, p) = 0 \/ jack_port_by_id_int(l, p) \in 1 .. Len(l)
        BY <1>3, NewestIsFirst
    <2>2. 1 .. Len(l) = {}
        BY <1>3
    <2> QED BY <2>1, <2>2
<1>5. View(l, p) = {} /\ Mix(l, p) = 0
    BY <1>4 DEF View, Mix
<1> QED BY <1>1, <1>2, <1>5

LEMMA ReopensKeepsPorts ==
    ASSUME PortsIInv, NEW c \in Apps, Reopens(c)
    PROVE  PortsIInv'
<1>1. PortsTypeOK /\ TableKept /\ MixersKept
    BY DEF PortsIInv
<1>2. PICK e : e = <<>>
    OBVIOUS
<1>3. e \in Seq(LibPort) /\ \A p : View(e, p) = {}
    BY <1>2, EmptyList
<1>4. /\ lib' = [lib EXCEPT ![c] = e] /\ c \in dead /\ dead' = dead \ {c} /\ asking' = [asking EXCEPT ![c] = NoSlot]
      /\ UNCHANGED <<port, freelist, conns, ports, active, buffer_size, lost, torn, renamed>>
    BY <1>2 DEF Reopens
<1>5. /\ lib' \in [Apps -> Seq(LibPort)] /\ lib'[c] = e /\ \A a \in Apps : a # c => lib'[a] = lib[a]
      /\ active \in SUBSET active' /\ active' \in SUBSET Apps /\ dead' \in SUBSET dead /\ active' \cap dead' = {}
      /\ buffer_size' \in Sizes /\ asking' \in [Apps -> Slots \cup {NoSlot}]
      /\ UNCHANGED <<port, freelist, conns, ports, lost, renamed>>
    BY <1>1, <1>3, <1>4 DEF PortsTypeOK, TableKept
<1>6. \A a \in Apps \ dead' : asking'[a] # NoSlot => a \notin dead /\ asking'[a] = asking[a]
    BY <1>1, <1>4 DEF PortsTypeOK
<1>7. \A a \in Apps \ dead' : \A p \in Slots : View(lib'[a], p) = IF a \in dead THEN {} ELSE View(lib[a], p)
    BY <1>3, <1>4, <1>5
<1>8. ASSUME NEW a \in active', NEW p \in Slots
      PROVE  /\ ~torn' => Mix(lib'[a], p) \in {0, buffer_size'}
             /\ p \in ports[a] /\ port[p].input /\ Many(View(lib'[a], p)) => Mix(lib'[a], p) # 0
    <2>1. a \in active /\ a \in Apps /\ a # c
        BY <1>1, <1>4 DEF PortsTypeOK, TableKept
    <2>2. lib'[a] = lib[a]
        BY <1>5, <2>1
    <2> QED BY <1>1, <1>4, <2>1, <2>2 DEF MixersKept
<1> QED BY <1>5, <1>6, <1>7, <1>8, ListsKeep

LEMMA ResizesKeepsPorts ==
    ASSUME PortsIInv, NEW size \in Sizes, NEW ok \in BOOLEAN, Resizes(size, ok)
    PROVE  PortsIInv'
<1>1. PortsTypeOK /\ TableKept /\ MixersKept
    BY DEF PortsIInv
<1>2. ASSUME NEW a \in Apps
      PROVE  LET f == jack_client_fix_port_buffers(lib[a], size)
             IN  f \in Seq(LibPort) /\ \A p : /\ View(f, p) = View(lib[a], p)
                                              /\ Mix(f, p) = IF Mix(lib[a], p) # 0 /\ Many(View(lib[a], p)) THEN size ELSE 0
    <2>1. PICK l \in Seq(LibPort) : l = lib[a]
        BY <1>1 DEF PortsTypeOK
    <2>2. PICK f : f = jack_client_fix_port_buffers(l, size)
        OBVIOUS
    <2>3. f \in Seq(LibPort) /\ \A p : /\ View(f, p) = View(l, p)
                                       /\ Mix(f, p) = IF Mix(l, p) # 0 /\ Many(View(l, p)) THEN size ELSE 0
        BY <2>2, FixedEntries
    <2> QED BY <2>1, <2>2, <2>3
<1>3. /\ buffer_size' = size /\ torn' = ~ok
      /\ \A a \in Apps : lib'[a] = IF ok /\ Listens(a) THEN jack_client_fix_port_buffers(lib[a], size) ELSE lib[a]
      /\ UNCHANGED <<port, freelist, conns, ports, active, dead, asking, lost, renamed>>
    BY DEF Resizes
<1>4. lib' \in [Apps -> Seq(LibPort)]
    <2>1. \A a \in Apps : lib'[a] \in Seq(LibPort)
        BY <1>1, <1>2, <1>3 DEF PortsTypeOK
    <2> QED BY <2>1 DEF Resizes
<1>5. /\ active \in SUBSET active' /\ active' \in SUBSET Apps /\ dead' \in SUBSET dead /\ active' \cap dead' = {}
      /\ buffer_size' \in Sizes /\ asking' \in [Apps -> Slots \cup {NoSlot}]
      /\ UNCHANGED <<port, freelist, conns, ports, lost, renamed>>
      /\ \A a \in Apps \ dead' : asking'[a] # NoSlot => a \notin dead /\ asking'[a] = asking[a]
    BY <1>1, <1>3 DEF PortsTypeOK, TableKept
<1>6. \A a \in Apps \ dead' : \A p \in Slots : View(lib'[a], p) = IF a \in dead THEN {} ELSE View(lib[a], p)
    <2>1. ASSUME NEW a \in Apps \ dead', NEW p \in Slots PROVE View(lib'[a], p) = IF a \in dead THEN {} ELSE View(lib[a], p)
        <3>1. CASE ok /\ Listens(a)
            BY <1>2, <1>3, <3>1
        <3>2. CASE ~(ok /\ Listens(a))
            BY <1>3, <3>2
        <3> QED BY <3>1, <3>2
    <2> QED BY <2>1
<1>7. ASSUME NEW a \in active', NEW p \in Slots
      PROVE  /\ ~torn' => Mix(lib'[a], p) \in {0, buffer_size'}
             /\ p \in ports[a] /\ port[p].input /\ Many(View(lib'[a], p)) => Mix(lib'[a], p) # 0
    <2>1. a \in active /\ a \in Apps /\ a \in Apps \ dead' /\ Listens(a)
        BY <1>1, <1>3 DEF PortsTypeOK, TableKept, Listens
    <2>2. size # 0
        BY PortsAssumption
    <2>3. p \in ports[a] /\ port[p].input /\ Many(View(lib[a], p)) => Mix(lib[a], p) # 0
        BY <1>1, <2>1 DEF MixersKept
    <2>4. CASE ok
        <3>1. Mix(lib'[a], p) = (IF Mix(lib[a], p) # 0 /\ Many(View(lib[a], p)) THEN size ELSE 0) /\ View(lib'[a], p) = View(lib[a], p)
            BY <1>2, <1>3, <2>1, <2>4
        <3> QED BY <1>3, <2>2, <2>3, <3>1
    <2>5. CASE ~ok
        <3>1. torn'
            BY <1>3, <2>5
        <3>2. lib'[a] = lib[a]
            BY <1>3, <2>1, <2>5
        <3> QED BY <2>3, <3>1, <3>2
    <2> QED BY <2>4, <2>5
<1> QED BY <1>4, <1>5, <1>6, <1>7, ListsKeep

LEMMA RenamesKeepsPorts ==
    ASSUME PortsIInv, NEW p \in Slots, NEW n \in Names, Renames(p, n)
    PROVE  PortsIInv'
<1>1. PortsTypeOK /\ BuffersKept /\ TableKept /\ AskingKept /\ ViewsKept /\ MixersKept
    BY DEF PortsIInv
<1>2. UNCHANGED <<freelist, conns, ports, active, dead, buffer_size, lib, asking, lost, torn>>
    BY DEF Renames
<1>3. port' \in [Slots -> Port] /\ \A q \in Slots :
        /\ port'[q].in_use = port[q].in_use /\ port'[q].owner = port[q].owner
        /\ port'[q].input = port[q].input /\ port'[q].buffer = port[q].buffer
        /\ port'[q].name = IF q = p THEN n ELSE port[q].name
    BY <1>1 DEF Renames, PortsTypeOK, Port
<1>4. PortsTypeOK'
    BY <1>1, <1>2, <1>3 DEF PortsTypeOK
<1>5. BuffersKept'
    BY <1>1, <1>2, <1>3 DEF BuffersKept
<1>6. TableKept'
    <2>1. \A q \in Slots, c \in Apps : q \in ports'[c] <=> port'[q].in_use /\ port'[q].owner = c
        BY <1>1, <1>2, <1>3 DEF TableKept
    <2>2. \A x \in conns' : x[1] \in Slots /\ x[2] \in Slots
        BY <1>1, <1>2 DEF PortsTypeOK
    <2>3. \A x \in conns' : /\ port'[x[1]].in_use /\ ~port'[x[1]].input /\ port'[x[1]].owner \in active'
                            /\ port'[x[2]].in_use /\ port'[x[2]].input /\ port'[x[2]].owner \in active'
        BY <1>1, <1>2, <1>3, <2>2 DEF TableKept
    <2>4. ASSUME ~renamed', NEW q \in Slots, NEW r \in Slots, port'[q].in_use, port'[r].in_use,
                 port'[q].owner = port'[r].owner, port'[q].name = port'[r].name
          PROVE  q = r
        <3>1. ~renamed /\ jack_get_port_by_name(port, port[p].owner, n) = NoSlot
            BY <2>4 DEF Renames
        <3>2. \A s \in Slots : ~(port[s].in_use /\ port[s].owner = port[p].owner /\ port[s].name = n)
            BY <3>1, NameFinds
        <3>3. port[q].in_use /\ port[r].in_use /\ port[q].owner = port[r].owner
            BY <1>3, <2>4
        <3>4. CASE q = p /\ r # p
            BY <1>3, <2>4, <3>2, <3>3, <3>4
        <3>5. CASE q # p /\ r = p
            BY <1>3, <2>4, <3>2, <3>3, <3>5
        <3>6. CASE q # p /\ r # p
            BY <1>1, <1>3, <2>4, <3>1, <3>3, <3>6 DEF TableKept
        <3> QED BY <3>4, <3>5, <3>6
    <2>5. \/ renamed'
          \/ \A q, r \in Slots :
               port'[q].in_use /\ port'[r].in_use /\ port'[q].owner = port'[r].owner /\ port'[q].name = port'[r].name => q = r
        BY <2>4
    <2>6. active' \cap dead' = {} /\ \A c \in dead' : ports'[c] = {}
        BY <1>1, <1>2 DEF TableKept
    <2> QED BY <2>1, <2>3, <2>5, <2>6 DEF TableKept
<1>7. AskingKept'
    BY <1>1, <1>2 DEF AskingKept, Others
<1>8. ViewsKept'
    <2>1. \A c, q : ToSee(c, q)' = ToSee(c, q)
        BY <1>2 DEF ToSee, Others
    <2>2. \A c, q : View(lib[c], q)' = View(lib[c], q)
        BY <1>2 DEF View, jack_port_by_id_int
    <2> QED BY <1>1, <1>2, <2>1, <2>2 DEF ViewsKept
<1>9. MixersKept'
    <2>1. \A c, q : /\ View(lib[c], q)' = View(lib[c], q) /\ Mix(lib[c], q)' = Mix(lib[c], q)
                    /\ Many(View(lib[c], q))' <=> Many(View(lib[c], q))
        BY <1>2 DEF Mix, View, Many, jack_port_by_id_int
    <2> QED BY <1>1, <1>2, <1>3, <2>1 DEF MixersKept
<1> QED BY <1>4, <1>5, <1>6, <1>7, <1>8, <1>9 DEF PortsIInv

LEMMA RegisteredKeepsPorts ==
    ASSUME PortsIInv, NEW c \in Apps, Registered(c)
    PROVE  PortsIInv'
<1>1. PortsTypeOK /\ BuffersKept /\ TableKept /\ AskingKept /\ ViewsKept /\ MixersKept
    BY DEF PortsIInv
<1>2. PICK l \in Seq(LibPort), q \in Slots : l = lib[c] /\ q = asking[c]
    BY <1>1 DEF PortsTypeOK, Registered
<1>3. PICK m : m = <<jack_port_new(q)>> \o l
    OBVIOUS
<1>4. m \in Seq(LibPort) /\ \A p : /\ View(m, p) = IF p = q THEN {} ELSE View(l, p)
                                   /\ Mix(m, p) = IF p = q THEN 0 ELSE Mix(l, p)
    BY <1>3, NewEntry
<1>5. /\ lib' = [lib EXCEPT ![c] = m] /\ asking' = [asking EXCEPT ![c] = NoSlot] /\ asking[c] # NoSlot
      /\ UNCHANGED <<port, freelist, conns, ports, active, dead, buffer_size, lost, torn, renamed>>
    BY <1>2, <1>3 DEF Registered
<1>6. /\ lib' \in [Apps -> Seq(LibPort)] /\ lib'[c] = m /\ \A a \in Apps : a # c => lib'[a] = lib[a]
      /\ asking' \in [Apps -> Slots \cup {NoSlot}]
    BY <1>1, <1>4, <1>5 DEF PortsTypeOK
<1>7. PortsTypeOK'
    BY <1>1, <1>5, <1>6 DEF PortsTypeOK
<1>8. BuffersKept' /\ TableKept'
    BY <1>1, <1>5 DEF BuffersKept, TableKept
<1>9. AskingKept'
    <2>1. SUFFICES ASSUME NEW a \in Apps \ dead, asking'[a] # NoSlot
                   PROVE  asking'[a] \in ports[a] /\ (asking'[a] \notin lost => Others(asking'[a], conns) = {})
        BY <1>5 DEF AskingKept, Others
    <2>2. asking'[a] = asking[a]
        BY <1>1, <1>5, <2>1 DEF PortsTypeOK
    <2> QED BY <1>1, <2>1, <2>2 DEF AskingKept
\* What the client did not know of has no connections, unless it is lost.
<1>10. c \notin dead => q \in ports[c] /\ (q \notin lost => Others(q, conns) = {})
    BY <1>1, <1>2, <1>5 DEF AskingKept
<1>11. ViewsKept'
    <2>1. \A a, p : ToSee(a, p)' = ToSee(a, p)
        BY <1>5 DEF ToSee, Others
    <2>2. \A a, p : View(lib[a], p)' = View(lib'[a], p)
        BY DEF View, jack_port_by_id_int
    <2>3. ASSUME NEW a \in Apps \ dead, NEW p \in Slots
          PROVE  View(lib'[a], p) \subseteq ToSee(a, p) /\ (p \notin lost => View(lib'[a], p) = ToSee(a, p))
        <3>1. View(lib[a], p) \subseteq ToSee(a, p) /\ (p \notin lost => View(lib[a], p) = ToSee(a, p))
            BY <1>1 DEF ViewsKept
        <3>2. CASE a = c /\ p = q
            BY <1>4, <1>6, <1>10, <3>2 DEF ToSee
        <3>3. CASE ~(a = c /\ p = q)
            BY <1>2, <1>4, <1>6, <3>1, <3>3
        <3> QED BY <3>2, <3>3
    <2> QED BY <1>5, <2>1, <2>2, <2>3 DEF ViewsKept
<1>12. MixersKept'
    <2>1. \A a, p : /\ View(lib[a], p)' = View(lib'[a], p) /\ Mix(lib[a], p)' = Mix(lib'[a], p)
                    /\ Many(View(lib[a], p))' <=> Many(View(lib'[a], p))
        BY DEF Mix, View, Many, jack_port_by_id_int
    <2>2. ASSUME NEW a \in active, NEW p \in Slots
          PROVE  /\ ~torn => Mix(lib'[a], p) \in {0, buffer_size}
                 /\ p \in ports[a] /\ port[p].input /\ Many(View(lib'[a], p)) => Mix(lib'[a], p) # 0
        <3>1. /\ ~torn => Mix(lib[a], p) \in {0, buffer_size}
              /\ p \in ports[a] /\ port[p].input /\ Many(View(lib[a], p)) => Mix(lib[a], p) # 0
            BY <1>1 DEF MixersKept
        <3>2. a \in Apps
            BY <1>1 DEF PortsTypeOK
        <3>3. CASE a = c /\ p = q
            BY <1>4, <1>6, <3>3 DEF Many
        <3>4. CASE ~(a = c /\ p = q)
            <4>1. View(lib'[a], p) = View(lib[a], p) /\ Mix(lib'[a], p) = Mix(lib[a], p)
                BY <1>2, <1>4, <1>6, <3>2, <3>4
            <4> QED BY <3>1, <4>1
        <3> QED BY <3>3, <3>4
    <2> QED BY <1>5, <2>1, <2>2 DEF MixersKept
<1> QED BY <1>7, <1>8, <1>9, <1>11, <1>12 DEF PortsIInv

\* A slot that is not in use: no list of ports and no connection has it.
LEMMA FreeAlone ==
    ASSUME PortsIInv, NEW p \in Slots, ~port[p].in_use
    PROVE  Others(p, conns) = {} /\ \A c \in Apps : p \notin ports[c]
<1>1. ASSUME NEW q \in Slots, <<p, q>> \in conns \/ <<q, p>> \in conns PROVE FALSE
    <2>1. CASE <<p, q>> \in conns
        <3>1. PICK x \in conns : x = <<p, q>>
            BY <2>1
        <3>2. port[x[1]].in_use
            BY DEF PortsIInv, TableKept
        <3> QED BY <3>1, <3>2
    <2>2. CASE <<q, p>> \in conns
        <3>1. PICK x \in conns : x = <<q, p>>
            BY <2>2
        <3>2. port[x[2]].in_use
            BY DEF PortsIInv, TableKept
        <3> QED BY <3>1, <3>2
    <2> QED BY <1>1, <2>1, <2>2
<1>2. \A c \in Apps : p \notin ports[c]
    BY DEF PortsIInv, TableKept
<1> QED BY <1>1, <1>2 DEF Others

LEMMA RegisterKeepsPorts ==
    ASSUME PortsIInv, NEW c \in Apps, NEW n \in Names, NEW input \in BOOLEAN, jack_port_do_register(c, n, input)
    PROVE  PortsIInv'
<1>1. PortsTypeOK /\ BuffersKept /\ TableKept /\ AskingKept /\ ViewsKept /\ MixersKept
    BY DEF PortsIInv
<1>2. PICK p \in Slots : p = jack_get_free_port /\ ~port[p].in_use
    BY FreePortIsFree DEF jack_port_do_register
<1>3. c \notin dead /\ asking[c] = NoSlot /\ UNCHANGED <<conns, active, dead, buffer_size, lib, lost, torn, renamed>>
    BY DEF jack_port_do_register
<1>4. \A q \in Slots : ~(port[q].in_use /\ port[q].owner = c /\ port[q].name = n)
    <2>1. jack_get_port_by_name(port, c, n) = NoSlot
        BY DEF jack_port_do_register
    <2> QED BY <2>1, NameFinds
<1>5. Others(p, conns) = {} /\ \A a \in Apps : p \notin ports[a]
    BY <1>2, FreeAlone
<1>6. \A x \in conns : x[1] \in Slots /\ x[2] \in Slots /\ x[1] # p /\ x[2] # p
    BY <1>1, <1>2 DEF PortsTypeOK, TableKept
<1>7. CASE ~input /\ freelist = <<>>
    <2>1. /\ port' = [port EXCEPT ![p] = [port[p] EXCEPT !.owner = c, !.name = n, !.input = input, !.buffer = NoSlot]]
          /\ UNCHANGED <<freelist, ports, asking>>
        BY <1>2, <1>7 DEF jack_port_do_register
    <2>2. port[p].buffer = NoSlot
        BY <1>1, <1>2 DEF BuffersKept
    <2>3. port' \in [Slots -> Port] /\ ~port'[p].in_use /\ port'[p].buffer = NoSlot /\ \A q \in Slots : q # p => port'[q] = port[q]
        <3>1. PICK e : e = [port[p] EXCEPT !.owner = c, !.name = n, !.input = input, !.buffer = NoSlot]
            OBVIOUS
        <3>2. e \in Port /\ e.in_use = port[p].in_use /\ e.buffer = NoSlot
            BY <1>1, <3>1 DEF PortsTypeOK, Port
        <3> QED BY <1>1, <1>2, <2>1, <3>1, <3>2 DEF PortsTypeOK
    <2>4. \A q \in Slots : /\ port'[q].in_use <=> port[q].in_use
                           /\ port'[q].buffer = port[q].buffer
                           /\ port[q].in_use => port'[q] = port[q]
        BY <1>2, <2>2, <2>3
    <2>5. PortsTypeOK'
        BY <1>1, <1>3, <2>1, <2>3 DEF PortsTypeOK
    <2>6. BuffersKept'
        <3>1. \A q \in Slots : port'[q].buffer # NoSlot <=> port'[q].in_use /\ ~port'[q].input
            BY <1>1, <1>2, <2>3, <2>4 DEF BuffersKept
        <3> QED BY <1>1, <2>1, <2>4, <3>1 DEF BuffersKept
    <2>7. TableKept'
        <3>1. ASSUME NEW q \in Slots, NEW a \in Apps PROVE q \in ports'[a] <=> port'[q].in_use /\ port'[q].owner = a
            <4>1. q \in ports[a] <=> port[q].in_use /\ port[q].owner = a
                BY <1>1 DEF TableKept
            <4> QED BY <2>1, <2>4, <4>1
        <3>2. \A x \in conns' : /\ port'[x[1]].in_use /\ ~port'[x[1]].input /\ port'[x[1]].owner \in active'
                                /\ port'[x[2]].in_use /\ port'[x[2]].input /\ port'[x[2]].owner \in active'
            BY <1>1, <1>3, <1>6, <2>3 DEF TableKept
        <3>3. \/ renamed'
              \/ \A q, r \in Slots :
                   port'[q].in_use /\ port'[r].in_use /\ port'[q].owner = port'[r].owner /\ port'[q].name = port'[r].name => q = r
            BY <1>1, <1>3, <2>4 DEF TableKept
        <3>4. active' \cap dead' = {} /\ \A a \in dead' : ports'[a] = {}
            BY <1>1, <1>3, <2>1 DEF TableKept
        <3>5. \A q \in Slots, a \in Apps : q \in ports'[a] <=> port'[q].in_use /\ port'[q].owner = a
            BY <3>1
        <3> QED BY <3>2, <3>3, <3>4, <3>5 DEF TableKept
    <2>8. AskingKept'
        BY <1>1, <1>3, <2>1 DEF AskingKept, Others
    <2>9. \A a, q : /\ ToSee(a, q)' = ToSee(a, q) /\ View(lib[a], q)' = View(lib[a], q) /\ Mix(lib[a], q)' = Mix(lib[a], q)
                    /\ Many(View(lib[a], q))' <=> Many(View(lib[a], q))
        BY <1>3, <2>1 DEF ToSee, Others, Mix, View, Many, jack_port_by_id_int
    <2>10. ViewsKept'
        BY <1>1, <1>3, <2>9 DEF ViewsKept
    <2>11. \A a \in Apps, q \in Slots : q \in ports[a] => port'[q] = port[q]
        BY <1>1, <2>4 DEF TableKept
    <2>12. MixersKept'
        <3>1. active \in SUBSET Apps
            BY <1>1 DEF PortsTypeOK
        <3> QED BY <1>1, <1>3, <2>1, <2>9, <2>11, <3>1 DEF MixersKept
    <2> QED BY <2>5, <2>6, <2>7, <2>8, <2>10, <2>12 DEF PortsIInv
<1>8. CASE ~(~input /\ freelist = <<>>)
    <2>1. /\ port' = [port EXCEPT ![p] = [in_use |-> TRUE, owner |-> c, name |-> n, input |-> input, buffer |-> Assigned(input)]]
          /\ freelist' = IF input THEN freelist ELSE Tail(freelist)
          /\ ports' = [ports EXCEPT ![c] = @ \cup {p}]
          /\ asking' = [asking EXCEPT ![c] = p]
        BY <1>2, <1>8 DEF jack_port_do_register
    <2>2. BuffersKept' /\ port' \in [Slots -> Port] /\ freelist' \in Seq(Buffers)
        <3>1. input \/ freelist # <<>>
            BY <1>8
        <3> QED BY <1>1, <1>2, <2>1, <3>1, TakenBuffer
    <2>3. /\ port'[p].in_use /\ port'[p].owner = c /\ port'[p].name = n
          /\ \A q \in Slots : q # p => port'[q] = port[q]
        BY <1>1, <2>1 DEF PortsTypeOK
    <2>4. /\ ports' \in [Apps -> SUBSET Slots] /\ asking' \in [Apps -> Slots \cup {NoSlot}] /\ asking'[c] = p
          /\ ports'[c] = ports[c] \cup {p}
          /\ \A a \in Apps : a # c => ports'[a] = ports[a] /\ asking'[a] = asking[a]
        BY <1>1, <2>1 DEF PortsTypeOK
    <2>5. PortsTypeOK'
        BY <1>1, <1>3, <2>2, <2>4 DEF PortsTypeOK
    <2>6. TableKept'
        <3>1. ASSUME NEW q \in Slots, NEW a \in Apps PROVE q \in ports'[a] <=> port'[q].in_use /\ port'[q].owner = a
            <4>1. CASE q = p
                BY <1>5, <2>3, <2>4, <4>1
            <4>2. CASE q # p
                BY <1>1, <2>3, <2>4, <4>2 DEF TableKept
            <4> QED BY <4>1, <4>2
        <3>2. \A x \in conns' : /\ port'[x[1]].in_use /\ ~port'[x[1]].input /\ port'[x[1]].owner \in active'
                                /\ port'[x[2]].in_use /\ port'[x[2]].input /\ port'[x[2]].owner \in active'
            BY <1>1, <1>3, <1>6, <2>3 DEF TableKept
        <3>3. ASSUME ~renamed', NEW q \in Slots, NEW r \in Slots, port'[q].in_use, port'[r].in_use,
                     port'[q].owner = port'[r].owner, port'[q].name = port'[r].name
              PROVE  q = r
            <4>1. ~renamed
                BY <1>3, <3>3
            <4>2. CASE q = p /\ r # p
                BY <1>4, <2>3, <3>3, <4>2
            <4>3. CASE q # p /\ r = p
                BY <1>4, <2>3, <3>3, <4>3
            <4>4. CASE q # p /\ r # p
                BY <1>1, <2>3, <3>3, <4>1, <4>4 DEF TableKept
            <4> QED BY <4>2, <4>3, <4>4
        <3>4. \/ renamed'
              \/ \A q, r \in Slots :
                   port'[q].in_use /\ port'[r].in_use /\ port'[q].owner = port'[r].owner /\ port'[q].name = port'[r].name => q = r
            BY <3>3
        <3>5. active' \cap dead' = {} /\ \A a \in dead' : ports'[a] = {}
            BY <1>1, <1>3, <2>4 DEF TableKept, PortsTypeOK
        <3>6. \A q \in Slots, a \in Apps : q \in ports'[a] <=> port'[q].in_use /\ port'[q].owner = a
            BY <3>1
        <3> QED BY <3>2, <3>4, <3>5, <3>6 DEF TableKept
    <2>7. AskingKept'
        <3>1. SUFFICES ASSUME NEW a \in Apps \ dead, asking'[a] # NoSlot
                       PROVE  asking'[a] \in ports'[a] /\ (asking'[a] \notin lost => Others(asking'[a], conns) = {})
            BY <1>3 DEF AskingKept, Others
        <3>2. CASE a = c
            BY <1>5, <2>4, <3>2
        <3>3. CASE a # c
            BY <1>1, <2>4, <3>1, <3>3 DEF AskingKept
        <3> QED BY <3>2, <3>3
    <2>8. \A a, q : /\ ToSee(a, q)' = (IF q \in ports'[a] THEN Others(q, conns) ELSE {})
                    /\ View(lib[a], q)' = View(lib[a], q) /\ Mix(lib[a], q)' = Mix(lib[a], q)
                    /\ Many(View(lib[a], q))' <=> Many(View(lib[a], q))
        BY <1>3 DEF ToSee, Others, Mix, View, Many, jack_port_by_id_int
    <2>9. ASSUME NEW a \in Apps, NEW q \in Slots PROVE ToSee(a, q) = (IF q \in ports'[a] THEN Others(q, conns) ELSE {})
        <3>1. CASE q = p
            BY <1>5, <3>1 DEF ToSee
        <3>2. CASE q # p
            BY <2>4, <3>2 DEF ToSee
        <3> QED BY <3>1, <3>2
    <2>10. ViewsKept'
        <3>1. SUFFICES ASSUME NEW a \in Apps \ dead, NEW q \in Slots
                       PROVE  View(lib[a], q) \subseteq ToSee(a, q) /\ (q \notin lost => View(lib[a], q) = ToSee(a, q))
            <4>1. \A a \in Apps, q \in Slots : ToSee(a, q)' = ToSee(a, q)
                BY <2>8, <2>9
            <4> QED BY <1>3, <2>8, <4>1 DEF ViewsKept
        <3> QED BY <1>1 DEF ViewsKept
    <2>11. MixersKept'
        <3>1. SUFFICES ASSUME NEW a \in active, NEW q \in Slots
                       PROVE  /\ ~torn => Mix(lib[a], q) \in {0, buffer_size}
                              /\ q \in ports'[a] /\ port'[q].input /\ Many(View(lib[a], q)) => Mix(lib[a], q) # 0
            BY <1>3, <2>8 DEF MixersKept
        <3>2. a \in Apps /\ a \in Apps \ dead
            BY <1>1 DEF PortsTypeOK, TableKept
        <3>3. CASE q = p
            <4>1. View(lib[a], q) = {}
                BY <1>1, <1>5, <3>2, <3>3 DEF ViewsKept, ToSee
            <4> QED BY <1>1, <4>1 DEF Many, MixersKept
        <3>4. CASE q # p
            BY <1>1, <2>3, <2>4, <3>2, <3>4 DEF MixersKept
        <3> QED BY <3>3, <3>4
    <2> QED BY <2>2, <2>5, <2>6, <2>7, <2>10, <2>11 DEF PortsIInv
<1> QED BY <1>7, <1>8

LEMMA ConnectedKeepsPorts ==
    ASSUME PortsIInv, NEW c \in Apps, NEW d \in Apps, NEW n \in Names, NEW m \in Names, PortsConnected(c, n, d, m)
    PROVE  PortsIInv'
<1>1. PortsTypeOK /\ BuffersKept /\ TableKept /\ AskingKept /\ ViewsKept /\ MixersKept
    BY DEF PortsIInv
<1>2. PICK src, dst : src = jack_get_port_by_name(port, c, n) /\ dst = jack_get_port_by_name(port, d, m)
    OBVIOUS
<1>3. src # NoSlot /\ dst # NoSlot /\ port[dst].input /\ ~port[src].input /\ {c, d} \subseteq active
    BY <1>2 DEF PortsConnected
<1>4. src \in Slots /\ port[src].in_use /\ port[src].owner = c
    BY <1>2, <1>3, NameFinds
<1>5. dst \in Slots /\ port[dst].in_use /\ port[dst].owner = d
    BY <1>2, <1>3, NameFinds
<1>6. src # dst /\ src \in ports[c] /\ dst \in ports[d]
    BY <1>1, <1>3, <1>4, <1>5 DEF TableKept
<1>7. /\ conns' = conns \cup {<<src, dst>>}
      /\ lib' = [a \in Apps |->
                     IF ~Listens(a) THEN lib[a]
                     ELSE LET l == IF a = c THEN PortConnected(lib[a], src, dst, FALSE) ELSE lib[a]
                          IN  IF a = d THEN PortConnected(l, dst, src, TRUE) ELSE l]
      /\ lost' = lost \cup {p \in {src, dst} : jack_port_by_id_int(lib[port[p].owner], p) = 0 \/ asking[port[p].owner] = p}
      /\ UNCHANGED <<port, freelist, ports, active, dead, buffer_size, asking, torn, renamed>>
    BY <1>2 DEF PortsConnected
\* What became of each list.
<1>8. ASSUME NEW a \in Apps
      PROVE  /\ lib'[a] \in Seq(LibPort)
             /\ \A p \in Slots :
                  /\ View(lib'[a], p) =
                       IF a = c /\ p = src /\ jack_port_by_id_int(lib[a], p) # 0 THEN View(lib[a], p) \cup {dst}
                       ELSE IF a = d /\ p = dst /\ jack_port_by_id_int(lib[a], p) # 0 THEN View(lib[a], p) \cup {src}
                       ELSE View(lib[a], p)
                  /\ Mix(lib'[a], p) =
                       IF /\ a = d /\ p = dst /\ jack_port_by_id_int(lib[a], p) # 0
                          /\ View(lib[a], p) # {} /\ Mix(lib[a], p) = 0
                       THEN buffer_size ELSE Mix(lib[a], p)
    <2>1. PICK l \in Seq(LibPort) : l = lib[a]
        BY <1>1 DEF PortsTypeOK
    <2>2. PICK k : k = IF a = c THEN PortConnected(l, src, dst, FALSE) ELSE l
        OBVIOUS
    <2>3. PICK j : j = IF a = d THEN PortConnected(k, dst, src, TRUE) ELSE k
        OBVIOUS
    <2>4. CASE ~Listens(a)
        <3>1. lib'[a] = l /\ a # c /\ a # d
            BY <1>1, <1>3, <1>7, <2>1, <2>4 DEF Listens, TableKept
        <3> QED BY <2>1, <3>1
    <2>5. CASE Listens(a)
        <3>1. lib'[a] = j
            BY <1>7, <2>1, <2>2, <2>3, <2>5
        <3>2. /\ k \in Seq(LibPort)
              /\ \A p : /\ View(k, p) = IF a = c /\ p = src /\ jack_port_by_id_int(l, p) # 0 THEN View(l, p) \cup {dst} ELSE View(l, p)
                        /\ Mix(k, p) = Mix(l, p)
                        /\ jack_port_by_id_int(k, p) = jack_port_by_id_int(l, p)
            <4>1. CASE a = c
                <5>1. /\ PortConnected(l, src, dst, FALSE) \in Seq(LibPort)
                      /\ \A p : /\ View(PortConnected(l, src, dst, FALSE), p) =
                                     IF p = src /\ jack_port_by_id_int(l, src) # 0 THEN View(l, p) \cup {dst} ELSE View(l, p)
                                /\ Mix(PortConnected(l, src, dst, FALSE), p) =
                                     IF p = src /\ jack_port_by_id_int(l, src) # 0 /\ FALSE /\ View(l, src) # {} /\ Mix(l, src) = 0
                                     THEN buffer_size ELSE Mix(l, p)
                      /\ \A r : jack_port_by_id_int(PortConnected(l, src, dst, FALSE), r) = jack_port_by_id_int(l, r)
                    <6>1. buffer_size \in Sizes /\ FALSE \in BOOLEAN /\ l \in Seq(LibPort) /\ src \in Slots /\ dst \in Slots
                        BY <1>1, <1>4, <1>5, <2>1 DEF PortsTypeOK
                    <6>2. ASSUME NEW x \in BOOLEAN, NEW p
                          PROVE  /\ PortConnected(l, src, dst, x) \in Seq(LibPort)
                                 /\ View(PortConnected(l, src, dst, x), p) =
                                      IF p = src /\ jack_port_by_id_int(l, src) # 0 THEN View(l, p) \cup {dst} ELSE View(l, p)
                                 /\ Mix(PortConnected(l, src, dst, x), p) =
                                      IF p = src /\ jack_port_by_id_int(l, src) # 0 /\ x /\ View(l, src) # {} /\ Mix(l, src) = 0
                                      THEN buffer_size ELSE Mix(l, p)
                                 /\ \A r : jack_port_by_id_int(PortConnected(l, src, dst, x), r) = jack_port_by_id_int(l, r)
                        BY <6>1, ConnectedEntry
                    <6> QED BY <6>1, <6>2
                <5> QED BY <2>2, <4>1, <5>1
            <4>2. CASE a # c
                BY <2>1, <2>2, <4>2
            <4> QED BY <4>1, <4>2
        <3>3. /\ j \in Seq(LibPort)
              /\ \A p : /\ View(j, p) = IF a = d /\ p = dst /\ jack_port_by_id_int(k, p) # 0 THEN View(k, p) \cup {src} ELSE View(k, p)
                        /\ Mix(j, p) = IF a = d /\ p = dst /\ jack_port_by_id_int(k, p) # 0 /\ View(k, p) # {} /\ Mix(k, p) = 0
                                       THEN buffer_size ELSE Mix(k, p)
            <4>1. CASE a = d
                <5>1. /\ PortConnected(k, dst, src, TRUE) \in Seq(LibPort)
                      /\ \A p : /\ View(PortConnected(k, dst, src, TRUE), p) =
                                     IF p = dst /\ jack_port_by_id_int(k, dst) # 0 THEN View(k, p) \cup {src} ELSE View(k, p)
                                /\ Mix(PortConnected(k, dst, src, TRUE), p) =
                                     IF p = dst /\ jack_port_by_id_int(k, dst) # 0 /\ TRUE /\ View(k, dst) # {} /\ Mix(k, dst) = 0
                                     THEN buffer_size ELSE Mix(k, p)
                    <6>1. buffer_size \in Sizes /\ TRUE \in BOOLEAN
                        BY <1>1 DEF PortsTypeOK
                    <6>2. ASSUME NEW x \in BOOLEAN, NEW p
                          PROVE  /\ PortConnected(k, dst, src, x) \in Seq(LibPort)
                                 /\ View(PortConnected(k, dst, src, x), p) =
                                      IF p = dst /\ jack_port_by_id_int(k, dst) # 0 THEN View(k, p) \cup {src} ELSE View(k, p)
                                 /\ Mix(PortConnected(k, dst, src, x), p) =
                                      IF p = dst /\ jack_port_by_id_int(k, dst) # 0 /\ x /\ View(k, dst) # {} /\ Mix(k, dst) = 0
                                      THEN buffer_size ELSE Mix(k, p)
                                 /\ \A r : jack_port_by_id_int(PortConnected(k, dst, src, x), r) = jack_port_by_id_int(k, r)
                        BY <1>4, <1>5, <3>2, <6>1, ConnectedEntry
                    <6> QED BY <6>1, <6>2
                <5> QED BY <2>3, <4>1, <5>1
            <4>2. CASE a # d
                BY <2>3, <3>2, <4>2
            <4> QED BY <4>1, <4>2
        <3>4. ASSUME NEW p \in Slots
              PROVE  /\ View(j, p) =
                          IF a = c /\ p = src /\ jack_port_by_id_int(l, p) # 0 THEN View(l, p) \cup {dst}
                          ELSE IF a = d /\ p = dst /\ jack_port_by_id_int(l, p) # 0 THEN View(l, p) \cup {src}
                          ELSE View(l, p)
                     /\ Mix(j, p) =
                          IF /\ a = d /\ p = dst /\ jack_port_by_id_int(l, p) # 0
                             /\ View(l, p) # {} /\ Mix(l, p) = 0
                          THEN buffer_size ELSE Mix(l, p)
            <4>1. CASE p = dst
                <5>1. p # src
                    BY <1>6, <4>1
                <5>2. View(k, p) = View(l, p) /\ Mix(k, p) = Mix(l, p) /\ jack_port_by_id_int(k, p) = jack_port_by_id_int(l, p)
                    BY <3>2, <5>1
                <5> QED BY <3>3, <4>1, <5>1, <5>2
            <4>2. CASE p # dst
                <5>1. View(j, p) = View(k, p) /\ Mix(j, p) = Mix(k, p)
                    BY <3>3, <4>2
                <5> QED BY <3>2, <4>2, <5>1
            <4> QED BY <4>1, <4>2
        <3> QED BY <2>1, <3>1, <3>3, <3>4
    <2> QED BY <2>4, <2>5
<1>9. PortsTypeOK'
    <2>1. lib' \in [Apps -> Seq(LibPort)]
        BY <1>7, <1>8
    <2>2. conns' \subseteq Slots \X Slots
        BY <1>1, <1>4, <1>5, <1>7 DEF PortsTypeOK
    <2> QED BY <1>1, <1>7, <2>1, <2>2 DEF PortsTypeOK
<1>10. BuffersKept'
    BY <1>1, <1>7 DEF BuffersKept
<1>11. TableKept'
    <2>1. ASSUME NEW x \in conns'
          PROVE  /\ port[x[1]].in_use /\ ~port[x[1]].input /\ port[x[1]].owner \in active
                 /\ port[x[2]].in_use /\ port[x[2]].input /\ port[x[2]].owner \in active
        <3>1. CASE x \in conns
            BY <1>1, <3>1 DEF TableKept
        <3>2. CASE x = <<src, dst>>
            BY <1>3, <1>4, <1>5, <3>2
        <3> QED BY <1>7, <3>1, <3>2
    <2> QED BY <1>1, <1>7, <2>1 DEF TableKept
\* What there is to see now.
<1>12. ASSUME NEW p \in Slots
       PROVE  Others(p, conns') = Others(p, conns) \cup {q \in {dst} : p = src} \cup {q \in {src} : p = dst}
    BY <1>4, <1>5, <1>7 DEF Others
<1>13. lost \subseteq lost'
       /\ (src \notin lost' => jack_port_by_id_int(lib[c], src) # 0 /\ asking[c] # src)
       /\ (dst \notin lost' => jack_port_by_id_int(lib[d], dst) # 0 /\ asking[d] # dst)
    BY <1>4, <1>5, <1>7
<1>14. \A a \in Apps : src \in ports[a] => a = c
    BY <1>1, <1>4 DEF TableKept
<1>15. \A a \in Apps : dst \in ports[a] => a = d
    BY <1>1, <1>5 DEF TableKept
<1>16. AskingKept'
    <2>1. SUFFICES ASSUME NEW a \in Apps \ dead, asking[a] # NoSlot
                   PROVE  asking[a] \in ports[a] /\ (asking[a] \notin lost' => Others(asking[a], conns') = {})
        BY <1>7 DEF AskingKept, Others
    <2>2. PICK q \in Slots : q = asking[a]
        BY <1>1, <2>1 DEF PortsTypeOK
    <2>3. q \in ports[a] /\ (q \notin lost => Others(q, conns) = {})
        BY <1>1, <2>1, <2>2 DEF AskingKept
    <2>4. q \notin lost' => q # src /\ q # dst
        BY <1>13, <1>14, <1>15, <2>2, <2>3
    <2>5. q \notin lost' => Others(q, conns') = {}
        BY <1>12, <1>13, <2>3, <2>4
    <2> QED BY <2>2, <2>3, <2>5
<1>17. ViewsKept'
    <2>1. \A a, p : ToSee(a, p)' = IF p \in ports[a] THEN Others(p, conns') ELSE {}
        BY <1>7 DEF ToSee, Others
    <2>2. \A a, p : View(lib[a], p)' = View(lib'[a], p)
        BY DEF View, jack_port_by_id_int
    <2>3. ASSUME NEW a \in Apps \ dead, NEW p \in Slots
          PROVE  /\ View(lib'[a], p) \subseteq (IF p \in ports[a] THEN Others(p, conns') ELSE {})
                 /\ p \notin lost' => View(lib'[a], p) = IF p \in ports[a] THEN Others(p, conns') ELSE {}
        <3>1. View(lib[a], p) \subseteq ToSee(a, p) /\ (p \notin lost => View(lib[a], p) = ToSee(a, p))
            BY <1>1 DEF ViewsKept
        <3>2. CASE p = src
            <4>1. Others(p, conns') = Others(p, conns) \cup {dst}
                BY <1>6, <1>12, <3>2
            <4>2. CASE a = c
                BY <1>6, <1>8, <1>13, <3>1, <3>2, <4>1, <4>2 DEF ToSee
            <4>3. CASE a # c
                <5>1. p \notin ports[a] /\ View(lib'[a], p) = View(lib[a], p)
                    BY <1>6, <1>8, <1>14, <3>2, <4>3
                <5> QED BY <1>13, <3>1, <5>1 DEF ToSee
            <4> QED BY <4>2, <4>3
        <3>3. CASE p = dst
            <4>1. Others(p, conns') = Others(p, conns) \cup {src}
                BY <1>6, <1>12, <3>3
            <4>2. CASE a = d
                BY <1>6, <1>8, <1>13, <3>1, <3>3, <4>1, <4>2 DEF ToSee
            <4>3. CASE a # d
                <5>1. p \notin ports[a] /\ View(lib'[a], p) = View(lib[a], p)
                    BY <1>6, <1>8, <1>15, <3>3, <4>3
                <5> QED BY <1>13, <3>1, <5>1 DEF ToSee
            <4> QED BY <4>2, <4>3
        <3>4. CASE p # src /\ p # dst
            <4>1. Others(p, conns') = Others(p, conns)
                BY <1>12, <3>4
            <4>2. View(lib'[a], p) = View(lib[a], p)
                BY <1>8, <3>4
            <4> QED BY <1>13, <3>1, <4>1, <4>2 DEF ToSee
        <3> QED BY <3>2, <3>3, <3>4
    <2> QED BY <1>7, <2>1, <2>2, <2>3 DEF ViewsKept
<1>18. MixersKept'
    <2>1. \A a, p : /\ View(lib[a], p)' = View(lib'[a], p) /\ Mix(lib[a], p)' = Mix(lib'[a], p)
                    /\ Many(View(lib[a], p))' <=> Many(View(lib'[a], p))
        BY DEF Mix, View, Many, jack_port_by_id_int
    <2>2. ASSUME NEW a \in active, NEW p \in Slots
          PROVE  /\ ~torn => Mix(lib'[a], p) \in {0, buffer_size}
                 /\ p \in ports[a] /\ port[p].input /\ Many(View(lib'[a], p)) => Mix(lib'[a], p) # 0
        <3>1. /\ ~torn => Mix(lib[a], p) \in {0, buffer_size}
              /\ p \in ports[a] /\ port[p].input /\ Many(View(lib[a], p)) => Mix(lib[a], p) # 0
            BY <1>1 DEF MixersKept
        <3>2. a \in Apps /\ buffer_size # 0
            BY <1>1, PortsAssumption DEF PortsTypeOK
        <3>3. ~torn => Mix(lib'[a], p) \in {0, buffer_size}
            BY <1>8, <3>1, <3>2
        <3>4. CASE p = dst /\ a = d /\ jack_port_by_id_int(lib[a], p) # 0
            <4>1. View(lib'[a], p) = View(lib[a], p) \cup {src}
                BY <1>6, <1>8, <3>2, <3>4
            <4>2. Mix(lib'[a], p) = IF View(lib[a], p) # {} /\ Mix(lib[a], p) = 0 THEN buffer_size ELSE Mix(lib[a], p)
                BY <1>8, <3>2, <3>4
            <4>3. CASE View(lib[a], p) = {}
                BY <3>3, <4>1, <4>3 DEF Many
            <4>4. CASE View(lib[a], p) # {}
                BY <3>2, <3>3, <4>2, <4>4
            <4> QED BY <4>3, <4>4
        <3>5. CASE ~(p = dst /\ a = d /\ jack_port_by_id_int(lib[a], p) # 0)
            <4>1. CASE p = src
                BY <1>3, <3>3, <4>1
            <4>2. CASE p # src
                <5>1. View(lib'[a], p) = View(lib[a], p) /\ Mix(lib'[a], p) = Mix(lib[a], p)
                    BY <1>8, <3>2, <3>5, <4>2
                <5> QED BY <3>1, <3>3, <5>1
            <4> QED BY <4>1, <4>2
        <3> QED BY <3>4, <3>5
    <2> QED BY <1>7, <2>1, <2>2 DEF MixersKept
<1> QED BY <1>9, <1>10, <1>11, <1>16, <1>17, <1>18 DEF PortsIInv

LEMMA PortsIdleFits ==
    ASSUME PortsIdle PROVE PortsIInv
<1>1. PICK c \in Apps, n \in Names :
        port = [p \in Slots |-> [in_use |-> FALSE, owner |-> c, name |-> n, input |-> FALSE, buffer |-> NoSlot]]
    BY DEF PortsIdle
<1>2. /\ freelist = [i \in 1 .. PortMax - 1 |-> i] /\ conns = {} /\ ports = [a \in Apps |-> {}]
      /\ active = {} /\ dead = {} /\ buffer_size \in Sizes /\ lib = [a \in Apps |-> <<>>]
      /\ asking = [a \in Apps |-> NoSlot]
    BY DEF PortsIdle
<1>3. \A p \in Slots : ~port[p].in_use /\ port[p].buffer = NoSlot
    BY <1>1
<1>4. freelist \in Seq(Buffers) /\ DOMAIN freelist = 1 .. PortMax - 1 /\ \A i \in 1 .. PortMax - 1 : freelist[i] = i
    BY <1>2, PortsAssumption DEF Buffers
<1>5. PortsTypeOK
    <2>1. port \in [Slots -> Port]
        BY <1>1 DEF Port
    <2>2. lib \in [Apps -> Seq(LibPort)]
        BY <1>2
    <2> QED BY <1>2, <1>4, <2>1, <2>2 DEF PortsTypeOK
<1>6. BuffersKept
    <2>1. \A b \in Buffers \ {zero_buffer} : b \in 1 .. PortMax - 1
        BY PortsAssumption DEF Buffers, zero_buffer
    <2>2. \A i \in 1 .. PortMax - 1 : i # zero_buffer /\ i # NoSlot
        BY DEF zero_buffer, NoSlot
    <2>3. NoSlot # zero_buffer
        BY DEF zero_buffer, NoSlot
    <2> QED BY <1>3, <1>4, <2>1, <2>2, <2>3 DEF BuffersKept
<1>7. TableKept
    BY <1>2, <1>3 DEF TableKept
<1>8. AskingKept
    BY <1>2 DEF AskingKept
<1>9. ViewsKept
    <2>1. \A a \in Apps, p \in Slots : View(lib[a], p) = {}
        <3>1. \A p : View(<<>>, p) = {}
            BY EmptyList
        <3> QED BY <1>2, <3>1
    <2>2. \A a \in Apps, p \in Slots : ToSee(a, p) = {}
        BY <1>2 DEF ToSee
    <2> QED BY <2>1, <2>2 DEF ViewsKept
<1>10. MixersKept
    BY <1>2 DEF MixersKept
<1> QED BY <1>5, <1>6, <1>7, <1>8, <1>9, <1>10 DEF PortsIInv

LEMMA PortsBusyFits ==
    ASSUME PortsBusy PROVE PortsIInv
<1> DEFINE last == PortMax - 1
           first == Slots \ {last}
<1>1. last = PortMax - 1 /\ first = Slots \ {last}
    OBVIOUS
<1>2. PICK c \in Apps, d \in Apps, f \in [Slots -> Names] :
         /\ c # d
         /\ \A p, q \in first : p # q => f[p] # f[q]
         /\ port = [p \in Slots |-> [in_use |-> TRUE, owner |-> IF p = last THEN d ELSE c,
                                     name |-> f[p], input |-> p = last,
                                     buffer |-> IF p = last THEN NoSlot ELSE p + 1]]
         /\ conns = first \X {last}
         /\ ports = [a \in Apps |-> IF a = c THEN first ELSE IF a = d THEN {last} ELSE {}]
         /\ active = {c, d}
         /\ lib = [a \in Apps |->
                  IF a = c THEN [i \in 1 .. last |-> [jack_port_new(last - i) EXCEPT !.connections = {last}]]
                  ELSE IF a = d THEN <<[jack_port_new(last) EXCEPT !.connections = first, !.mix_buffer = buffer_size]>>
                  ELSE <<>>]
    BY DEF PortsBusy
<1> HIDE DEF last, first
<1>3. buffer_size \in Sizes /\ freelist = <<>> /\ dead = {} /\ asking = [a \in Apps |-> NoSlot]
    BY DEF PortsBusy
<1>4. last \in Nat /\ last \in Slots /\ Slots = 0 .. last /\ first = 0 .. last - 1 /\ first \in SUBSET Slots
    BY <1>1, PortsAssumption DEF Slots
<1>5. \A p \in Slots : /\ port[p].in_use /\ port[p].owner = (IF p = last THEN d ELSE c) /\ port[p].name = f[p]
                       /\ port[p].input <=> p = last
                       /\ port[p].buffer = IF p = last THEN NoSlot ELSE p + 1
    BY <1>2
<1>6. PICK l, e : l = lib[c] /\ e = [jack_port_new(last) EXCEPT !.connections = first, !.mix_buffer = buffer_size]
    OBVIOUS
<1>7. /\ l = [i \in 1 .. last |-> [jack_port_new(last - i) EXCEPT !.connections = {last}]]
      /\ lib[d] = <<e>> /\ \A a \in Apps : a # c /\ a # d => lib[a] = <<>>
    BY <1>2, <1>6
<1>8. \A i \in 1 .. last : l[i] \in LibPort /\ l[i].id = last - i /\ l[i].connections = {last}
    BY <1>4, <1>7 DEF jack_port_new, LibPort
<1>9. l \in Seq(LibPort) /\ Len(l) = last
    <2>1. l \in [1 .. last -> LibPort]
        BY <1>7, <1>8
    <2> QED BY <1>4, <2>1
<1>10. e \in LibPort /\ e.id = last /\ e.connections = first /\ e.mix_buffer = buffer_size
    BY <1>3, <1>4, <1>6 DEF jack_port_new, LibPort
<1>11. <<e>> \in Seq(LibPort) /\ Len(<<e>>) = 1 /\ <<e>>[1] = e
    BY <1>10
<1>12. \A p \in Slots : View(l, p) = IF p = last THEN {} ELSE {last}
    <2>1. CASE last = 0
        <3>1. Len(l) = 0 /\ 1 .. Len(l) = {}
            BY <1>9, <2>1
        <3>2. \A p : jack_port_by_id_int(l, p) = 0
            BY <1>9, <3>1, NewestIsFirst
        <3> QED BY <1>4, <2>1, <3>2 DEF View
    <2>2. CASE last # 0
        <3>1. ASSUME NEW p \in Slots, p # last PROVE View(l, p) = {last}
            <4>1. PICK i \in 1 .. last : i = last - p
                BY <1>4, <3>1
            <4>2. l[i].id = p /\ \A j \in 1 .. last : l[j].id = p => i <= j
                BY <1>4, <1>8, <4>1
            <4>3. jack_port_by_id_int(l, p) = i
                BY <1>9, <4>2, FirstIsNewest
            <4> QED BY <1>4, <1>8, <4>3 DEF View
        <3>2. View(l, last) = {}
            <4>1. \A i \in 1 .. last : l[i].id # last
                BY <1>4, <1>8
            <4>2. jack_port_by_id_int(l, last) = 0
                BY <1>9, <4>1, NewestIsFirst
            <4> QED BY <4>2 DEF View
        <3> QED BY <3>1, <3>2
    <2> QED BY <2>1, <2>2
<1>13. \A p \in Slots : /\ View(<<e>>, p) = IF p = last THEN first ELSE {}
                        /\ Mix(<<e>>, p) = IF p = last THEN buffer_size ELSE 0
    <2>1. PICK k \in Seq(LibPort) : k = <<e>> /\ Len(k) = 1 /\ k[1] = e
        BY <1>11
    <2>2. \A p \in Slots : View(k, p) = (IF p = last THEN first ELSE {}) /\ Mix(k, p) = IF p = last THEN buffer_size ELSE 0
        <3>a. k \in Seq(LibPort) /\ 1 .. Len(k) = {1} /\ k[1].id = last
            BY <1>10, <2>1
        <3>1. jack_port_by_id_int(k, last) = 1
            BY <3>a, NewestIsFirst
        <3>2. \A p : p # last => jack_port_by_id_int(k, p) = 0
            BY <3>a, NewestIsFirst
        <3> QED BY <1>10, <2>1, <3>1, <3>2 DEF View, Mix
    <2> QED BY <2>1, <2>2
<1>14. \A p : View(<<>>, p) = {}
    BY EmptyList
<1>15. PortsTypeOK
    <2>1. port \in [Slots -> Port]
        <3>1. \A p \in Slots : port[p] \in Port
            BY <1>2, <1>4, PortsAssumption DEF Port, Buffers, Slots
        <3> QED BY <1>2, <3>1
    <2>2. lib \in [Apps -> Seq(LibPort)]
        <3>1. \A a \in Apps : lib[a] \in Seq(LibPort)
            <4>1. <<>> \in Seq(LibPort)
                OBVIOUS
            <4> QED BY <1>6, <1>7, <1>9, <1>11, <4>1
        <3>2. lib = [a \in Apps |-> lib[a]]
            BY <1>2
        <3> QED BY <3>1, <3>2
    <2>3. conns \subseteq Slots \X Slots /\ ports \in [Apps -> SUBSET Slots] /\ active \subseteq Apps
        BY <1>2, <1>4
    <2>4. freelist \in Seq(Buffers) /\ dead \subseteq Apps /\ buffer_size \in Sizes /\ asking \in [Apps -> Slots \cup {NoSlot}]
        BY <1>3
    <2> QED BY <2>1, <2>2, <2>3, <2>4 DEF PortsTypeOK
<1>16. BuffersKept
    <2>1. \A p \in Slots : /\ port[p].buffer # NoSlot <=> p # last
                           /\ port[p].buffer # zero_buffer
        BY <1>4, <1>5 DEF NoSlot, zero_buffer
    <2>2. \A p, q \in Slots : port[p].buffer # NoSlot /\ port[p].buffer = port[q].buffer => p = q
        BY <1>4, <1>5 DEF NoSlot
    <2>3. ASSUME NEW b \in Buffers \ {zero_buffer} PROVE \E p \in Slots : port[p].buffer = b
        <3>1. PICK p : p = b - 1
            OBVIOUS
        <3>2. p \in Slots /\ p # last /\ p + 1 = b
            BY <1>1, <1>4, <3>1, PortsAssumption DEF Buffers, zero_buffer
        <3> QED BY <1>5, <3>2
    <2>4. DOMAIN freelist = {}
        BY <1>3
    <2> QED BY <1>5, <2>1, <2>2, <2>3, <2>4 DEF BuffersKept
<1>17. TableKept
    <2>1. \A p \in Slots, a \in Apps : p \in ports[a] <=> port[p].in_use /\ port[p].owner = a
        BY <1>1, <1>2, <1>4, <1>5
    <2>2. \A x \in conns : /\ port[x[1]].in_use /\ ~port[x[1]].input /\ port[x[1]].owner \in active
                           /\ port[x[2]].in_use /\ port[x[2]].input /\ port[x[2]].owner \in active
        <3>1. \A x \in conns : x[1] \in Slots /\ x[1] # last /\ x[2] = last
            BY <1>1, <1>2
        <3> QED BY <1>2, <1>4, <1>5, <3>1
    <2>3. \A p, q \in Slots : port[p].in_use /\ port[q].in_use /\ port[p].owner = port[q].owner /\ port[p].name = port[q].name => p = q
        BY <1>1, <1>2, <1>5
    <2> QED BY <1>3, <2>1, <2>2, <2>3 DEF TableKept
<1>18. AskingKept
    BY <1>3 DEF AskingKept
<1>19. ViewsKept
    <2>1. \A p \in Slots : Others(p, conns) = IF p = last THEN first ELSE {last}
        BY <1>1, <1>2, <1>4 DEF Others
    <2>2. ASSUME NEW a \in Apps, NEW p \in Slots PROVE View(lib[a], p) = ToSee(a, p)
        <3>1. CASE a = c
            BY <1>1, <1>2, <1>6, <1>12, <2>1, <3>1 DEF ToSee
        <3>2. CASE a = d
            BY <1>1, <1>2, <1>7, <1>13, <2>1, <3>2 DEF ToSee
        <3>3. CASE a # c /\ a # d
            BY <1>2, <1>7, <1>14, <3>3 DEF ToSee
        <3> QED BY <3>1, <3>2, <3>3
    <2> QED BY <2>2 DEF ViewsKept
<1>20. MixersKept
    <2>1. ASSUME NEW p \in Slots PROVE Mix(l, p) = 0
        <3>1. \A i \in 1 .. last : l[i].mix_buffer = 0
            BY <1>4, <1>7 DEF jack_port_new
        <3>2. jack_port_by_id_int(l, p) = 0 \/ jack_port_by_id_int(l, p) \in 1 .. last
            BY <1>9, NewestIsFirst
        <3> QED BY <3>1, <3>2 DEF Mix
    <2>2. ~Many({}) /\ ~Many({last})
        BY DEF Many
    <2>3. buffer_size # 0
        BY <1>3, PortsAssumption
    <2> QED BY <1>1, <1>2, <1>6, <1>7, <1>12, <1>13, <2>1, <2>2, <2>3 DEF MixersKept
<1> QED BY <1>15, <1>16, <1>17, <1>18, <1>19, <1>20 DEF PortsIInv

LEMMA PortsStepKeeps ==
    ASSUME PortsIInv, PortsNext \/ UNCHANGED portVars
    PROVE  PortsIInv'
<1>1. CASE PortsNext
    <2>1. ASSUME NEW c \in Apps, NEW n \in Names, NEW input \in BOOLEAN, jack_port_do_register(c, n, input) PROVE PortsIInv'
        BY <2>1, RegisterKeepsPorts
    <2>2. ASSUME NEW c \in Apps, NEW p \in Slots, jack_port_do_unregister(c, p) PROVE PortsIInv'
        BY <2>2, UnregisterKeepsPorts
    <2>3. ASSUME NEW c \in Apps, NEW d \in Apps, NEW n \in Names, NEW m \in Names, PortsConnected(c, n, d, m) PROVE PortsIInv'
        BY <2>3, ConnectedKeepsPorts
    <2>4. ASSUME NEW c \in Apps, NEW d \in Apps, NEW n \in Names, NEW m \in Names, jack_port_do_disconnect(c, n, d, m) PROVE PortsIInv'
        BY <2>4, DisconnectKeepsPorts
    <2>5. ASSUME NEW p \in Slots, jack_port_do_disconnect_all(p) PROVE PortsIInv'
        BY <2>5, DisconnectAllKeepsPorts
    <2>6. ASSUME NEW c \in Apps, Activates(c) \/ Deactivates(c) \/ Zombifies(c) \/ Reopens(c) \/ Registered(c) PROVE PortsIInv'
        BY <2>6, ActivatesKeepsPorts, DeactivatesKeepsPorts, ZombifiesKeepsPorts, ReopensKeepsPorts, RegisteredKeepsPorts
    <2>7. ASSUME NEW size \in Sizes, NEW ok \in BOOLEAN, Resizes(size, ok) PROVE PortsIInv'
        BY <2>7, ResizesKeepsPorts
    <2>8. ASSUME NEW p \in Slots, NEW n \in Names, Renames(p, n) PROVE PortsIInv'
        BY <2>8, RenamesKeepsPorts
    <2> QED BY <1>1, <2>1, <2>2, <2>3, <2>4, <2>5, <2>6, <2>7, <2>8 DEF PortsNext, PortRequests
<1>2. CASE UNCHANGED portVars
    <2>1. UNCHANGED <<port, freelist, conns, ports, active, dead, buffer_size, lib, asking, lost, torn, renamed>>
        BY <1>2 DEF portVars
    <2>2. \A c, q : /\ ToSee(c, q)' = ToSee(c, q) /\ View(lib[c], q)' = View(lib[c], q) /\ Mix(lib[c], q)' = Mix(lib[c], q)
                    /\ Many(View(lib[c], q))' <=> Many(View(lib[c], q))
        BY <2>1 DEF ToSee, Others, Mix, View, Many, jack_port_by_id_int
    <2>3. PortsTypeOK' /\ BuffersKept' /\ TableKept' /\ AskingKept'
        BY <2>1 DEF PortsIInv, PortsTypeOK, BuffersKept, TableKept, AskingKept, Others
    <2>4. ViewsKept' /\ MixersKept'
        BY <2>1, <2>2 DEF PortsIInv, ViewsKept, MixersKept
    <2> QED BY <2>3, <2>4 DEF PortsIInv
<1> QED BY <1>1, <1>2

LEMMA BuffersKeptAreApart ==
    ASSUME PortsTypeOK, BuffersKept
    PROVE  BuffersAreApart
<1>1. ASSUME NEW b \in Buffers \ {zero_buffer}
      PROVE  Cardinality({i \in DOMAIN freelist : freelist[i] = b}) + Cardinality({p \in OutputSlots : port[p].buffer = b}) = 1
    <2>1. PICK F, P : F = {i \in DOMAIN freelist : freelist[i] = b} /\ P = {p \in OutputSlots : port[p].buffer = b}
        OBVIOUS
    <2>2. b # NoSlot
        BY PortsAssumption DEF Buffers, NoSlot
    <2>3. CASE \E i \in DOMAIN freelist : freelist[i] = b
        <3>1. PICK i \in DOMAIN freelist : F = {i}
            BY <2>1, <2>3 DEF BuffersKept
        <3>2. P = {}
            BY <2>1, <2>3 DEF BuffersKept, OutputSlots
        <3>3. Cardinality(F) = 1 /\ Cardinality(P) = 0
            BY <3>1, <3>2, FS_Singleton, FS_EmptySet
        <3> QED BY <2>1, <3>3
    <2>4. CASE \E p \in Slots : port[p].buffer = b
        <3>1. PICK p \in Slots : port[p].buffer = b
            BY <2>4
        <3>2. F = {}
            BY <2>1, <3>1 DEF BuffersKept
        <3>3. P = {p}
            BY <2>1, <2>2, <3>1 DEF BuffersKept, OutputSlots
        <3>4. Cardinality(F) = 0 /\ Cardinality(P) = 1
            BY <3>2, <3>3, FS_Singleton, FS_EmptySet
        <3> QED BY <2>1, <3>4
    <2> QED BY <2>3, <2>4 DEF BuffersKept
<1>2. zero_buffer \notin ToSet(freelist) \cup {port[p].buffer : p \in OutputSlots}
    BY DEF BuffersKept, ToSet, OutputSlots
<1> QED BY <1>1, <1>2 DEF BuffersAreApart

LEMMA PortsKeptAreRight ==
    ASSUME PortsIInv
    PROVE  PortsInv
<1>1. PortsTypeOK /\ BuffersKept /\ TableKept /\ ViewsKept /\ MixersKept
    BY DEF PortsIInv
<1>2. BuffersAreApart
    BY <1>1, BuffersKeptAreApart
<1>3. PortsHaveOwners
    <2>1. \A p \in Slots, c \in Apps : p \in ports[c] <=> port[p].in_use /\ port[p].owner = c
        BY <1>1 DEF TableKept
    <2>2. ASSUME NEW x \in conns, NEW i \in {1, 2} PROVE port[x[i]].in_use /\ port[x[i]].owner \in active \ dead
        <3>1. CASE i = 1
            BY <1>1, <3>1 DEF TableKept
        <3>2. CASE i = 2
            BY <1>1, <3>2 DEF TableKept
        <3> QED BY <3>1, <3>2
    <2> QED BY <2>1, <2>2 DEF PortsHaveOwners
<1>4. NamesFindTheirPort
    <2>1. SUFFICES ASSUME ~renamed, NEW p \in Slots, port[p].in_use
                   PROVE  jack_get_port_by_name(port, port[p].owner, port[p].name) = p
        BY DEF NamesFindTheirPort
    <2>2. PICK c, n : c = port[p].owner /\ n = port[p].name
        OBVIOUS
    <2>3. PICK q : q = jack_get_port_by_name(port, c, n)
        OBVIOUS
    <2>4. q \in Slots /\ port[q].in_use /\ port[q].owner = c /\ port[q].name = n
        BY <2>1, <2>2, <2>3, NameFinds
    <2>5. q = p
        BY <1>1, <2>1, <2>2, <2>4 DEF TableKept
    <2> QED BY <2>2, <2>3, <2>5
<1>5. \A c \in Apps, p \in Slots : Seen(c, p) = View(lib[c], p)
    BY DEF Seen, View
<1>6. ViewsMatch
    <2>1. SUFFICES ASSUME NEW c \in active \ dead, NEW p \in ports[c], p \notin lost PROVE Seen(c, p) = Others(p, conns)
        BY DEF ViewsMatch
    <2>2. c \in Apps \ dead /\ p \in Slots
        BY <1>1 DEF PortsTypeOK
    <2> QED BY <1>1, <1>5, <2>1, <2>2 DEF ViewsKept, ToSee
<1>7. MixersFit
    <2>1. SUFFICES ASSUME NEW c \in active \ dead, NEW p \in ports[c], port[p].input, Cardinality(Seen(c, p)) > 1
                   PROVE  LET mix == lib[c][jack_port_by_id_int(lib[c], p)].mix_buffer
                          IN  IF torn THEN mix # 0 ELSE mix = buffer_size
        BY DEF MixersFit
    <2>2. c \in Apps \ dead /\ p \in Slots
        BY <1>1 DEF PortsTypeOK
    <2>3. PICK S \in SUBSET Slots : S = Seen(c, p)
        <3>1. View(lib[c], p) \subseteq Slots
            BY <1>1, <2>2 DEF ViewsKept, ToSee, Others
        <3> QED BY <1>5, <2>2, <3>1
    <2>4. Many(View(lib[c], p))
        BY <1>5, <2>1, <2>2, <2>3, ManyIsMore
    <2>5. Mix(lib[c], p) # 0 /\ (~torn => Mix(lib[c], p) = buffer_size)
        BY <1>1, <2>1, <2>2, <2>4 DEF MixersKept
    <2>6. Mix(lib[c], p) = lib[c][jack_port_by_id_int(lib[c], p)].mix_buffer
        BY <2>5 DEF Mix
    <2> QED BY <2>5, <2>6
<1> QED BY <1>1, <1>2, <1>3, <1>4, <1>6, <1>7 DEF PortsInv

\* Whatever is registered, connected, renamed, resized and closed, and whoever
\* dies or comes back: no two ports write into one buffer and none is lost, the
\* table and the clients' lists of ports agree, a port is found by its name until
\* one is renamed to a name in use, and a client sees the connections the server
\* has and can mix them (jackd/engine.c, libjack/client.c, libjack/port.c).
THEOREM PortsAreKept == PortsSpec => []PortsInv
<1>1. PortsInit => PortsIInv
    BY PortsIdleFits, PortsBusyFits DEF PortsInit
<1>2. PortsIInv /\ [PortsNext]_portVars => PortsIInv'
    BY PortsStepKeeps
<1>3. PortsIInv => PortsInv
    BY PortsKeptAreRight
<1> QED BY <1>1, <1>2, <1>3, PTL DEF PortsSpec

------------------------------------------------------------------------------
(* What the proof keeps of the cycle.                                          *)

\* A position of a list begins or ends a subgraph, and h .. k is one.
Begins(l, i) == i = 1 \/ l[i - 1] \in InProcess
Ends(l, i) == i = Len(l) \/ l[i + 1] \in InProcess
Subgraph(l, h, k) ==
    h <= k /\ Begins(l, h) /\ Ends(l, k) /\ \A j \in h .. k : l[j] \in External

\* Each external client of the list has a FIFO of its own, those of a subgraph one
\* after the other, and the server waits on the one after the last of them.
WholeChain(l, ch) ==
    /\ \A i \in 1 .. Len(l) : l[i] \in External =>
        /\ ch[l[i]].order \in Fifos
        /\ Begins(l, i) => ch[l[i]].start = ch[l[i]].order
        /\ ~Begins(l, i) => ch[l[i]].order = ch[l[i - 1]].order + 1
        /\ \A j \in 1 .. Len(l) : l[j] \in External /\ j # i => ch[l[j]].order # ch[l[i]].order
        /\ \A j \in 1 .. Len(l) : ch[l[j]].wait # ch[l[i]].order
    /\ \A h, k \in 1 .. Len(l) : Subgraph(l, h, k) => ch[l[h]].wait = ch[l[k]].order + 1
                                                       /\ ch[l[h]].wait \in Fifos

Distinct(l) == \A i, j \in 1 .. Len(l) : l[i] = l[j] => i = j
Failed == \E c \in Active : errors[c] # 0

\* The server tells the list what it chained, and the driver rests while it does.
ServerKept ==
    /\ server \in [doing : {"polling", "telling"}, tell : Seq(External), took : Nat]
    /\ driver \in [doing : {"idle", "walking", "waiting", "cut"}, at : Nat]
    /\ ran \in [Processors -> Nat]
    /\ clean \in BOOLEAN
    /\ Distinct(clients)
    /\ clean \/ server.doing = "telling" => WholeChain(clients, chain)
    /\ server.doing = "polling" => server.tell = <<>>
    /\ server.doing = "telling" => driver.doing = "idle" /\ server.took <= problems
    /\ \A i \in 1 .. Len(server.tell) : server.tell[i] \in Active

\* Only active external clients fail, and more problems are counted for them than
\* will be taken off.
FailuresKept ==
    /\ \A c \in Processors : errors[c] # 0 => c \in Active \cap External
    /\ Failed => problems > IF server.doing = "telling" THEN server.took ELSE 0

\* f has a byte that a client has yet to read, its own.
Owed(f) == \E c \in Active \cap External : worker[c] = "woke" /\ order[c] = f
Own(f) == IF Owed(f) THEN 1 ELSE 0
Resting == \A c \in External : worker[c] # "processing"

\* Since the chain was made: who was told and lives waits on its FIFO; as long as
\* somebody failed or is not told, nothing is in the FIFOs.
ToldKept ==
    clean =>
        /\ \A c \in Active \cap External :
             \/ \E i \in 1 .. Len(server.tell) : server.tell[i] = c
             \/ errors[c] # 0
             \/ order[c] = chain[c].order /\ worker[c] # "gone"
        /\ server.doing = "telling" \/ Failed =>
             driver.doing = "idle" /\ Resting /\ \A f \in Fifos : fifo[f] = 0

\* Outside a subgraph nobody is at work, and the FIFOs hold what is owed.
WalkKept ==
    clean /\ driver.doing # "waiting" =>
        /\ Resting
        /\ \A f \in Fifos : fifo[f] <= Own(f)
        /\ driver.doing = "walking" =>
             /\ driver.at \in 1 .. Len(clients) + 1
             /\ \A i \in 1 .. Len(clients) : ran[clients[i]] = IF i < driver.at THEN 1 ELSE 0
             /\ driver.at <= Len(clients) /\ clients[driver.at] \in External => Begins(clients, driver.at)

\* In the subgraph h .. k it is t's turn: those before it ran and no others, and
\* the one byte that nobody owes is in t's FIFO.
Turn(h, k, t) ==
    /\ Subgraph(clients, h, k)
    /\ \A i \in 1 .. Len(clients) :
         ran[clients[i]] = IF i < t \/ (i = t /\ t <= k /\ worker[clients[i]] = "processing") THEN 1 ELSE 0
    /\ \A c \in External : worker[c] = "processing" => t <= k /\ c = clients[t]
    /\ \A f \in Fifos :
         fifo[f] <= Own(f) + IF f = chain[clients[h]].order + (t - h) THEN 1 ELSE 0

TurnKept ==
    clean /\ driver.doing = "waiting" =>
        /\ driver.at \in 1 .. Len(clients)
        /\ \E k \in 1 .. Len(clients) : \E t \in driver.at .. k + 1 : Turn(driver.at, k, t)

CycleIInv ==
    /\ CycleTypeOK /\ ServerKept /\ FailuresKept /\ ToldKept /\ WalkKept /\ TurnKept

------------------------------------------------------------------------------
(* The two loops over a list: what they have made after i clients.             *)

\* One turn of the loop of Keeping, and of jack_rechain_graph.
KeepStep(l, S, i, s) ==
    IF i = 0 THEN <<>> ELSE IF l[i] \in S THEN Append(s, l[i]) ELSE s

ChainStep(l, i, st) ==
    IF i = 0 THEN [n |-> 0, head |-> {}, chain |-> [c \in Processors |-> Unchained]]
    ELSE IF l[i] \in InProcess THEN ChainInternal(st, l[i])
    ELSE ChainExternal(st, l[i])

\* f is the loop over the first n clients.
Keeps(l, S, n, f) == f = [i \in 0 .. n |-> KeepStep(l, S, i, f[i - 1])]
Chains(l, n, f) == f = [i \in 0 .. n |-> ChainStep(l, i, f[i - 1])]

LEMMA KeepsExists ==
    ASSUME NEW l, NEW S, NEW n \in Nat
    PROVE  \E f : Keeps(l, S, n, f)
<1> DEFINE bad == {m \in Nat : ~ \E f : Keeps(l, S, m, f)}
<1>1. SUFFICES ASSUME bad # {} PROVE FALSE
  OBVIOUS
<1>2. PICK m \in bad : \A k \in bad : m <= k
  <2>1. bad \in SUBSET Nat
    OBVIOUS
  <2> HIDE DEF bad
  <2>2. QED
    BY <1>1, <2>1, LeastExists
<1>3. CASE m = 0
  <2> DEFINE f == [i \in 0 .. 0 |-> KeepStep(l, S, 0, <<>>)]
  <2>1. Keeps(l, S, 0, f)
    BY DEF Keeps, KeepStep
  <2>2. QED
    BY <1>3, <2>1
<1>4. CASE m # 0
  <2>1. m \in Nat /\ m - 1 \in Nat /\ m - 1 \notin bad
    BY <1>2, <1>4
  <2>2. PICK f : Keeps(l, S, m - 1, f)
    BY <2>1
  <2> DEFINE g == [i \in 0 .. m |-> IF i < m THEN f[i] ELSE KeepStep(l, S, m, f[m - 1])]
  <2>3. ASSUME NEW i \in 0 .. m PROVE g[i] = KeepStep(l, S, i, g[i - 1])
    <3>1. CASE i = 0
      BY <1>4, <2>1, <2>2, <3>1 DEF Keeps, KeepStep
    <3>2. CASE i # 0 /\ i < m
      <4>1. i \in 0 .. m - 1 /\ i - 1 \in 0 .. m - 1 /\ i - 1 < m
        BY <2>1, <3>2
      <4>2. f[i] = KeepStep(l, S, i, f[i - 1])
        BY <2>2, <4>1 DEF Keeps
      <4>3. QED
        BY <3>2, <4>1, <4>2
    <3>3. CASE i = m
      BY <1>4, <2>1, <3>3
    <3>4. QED
      BY <2>1, <3>1, <3>2, <3>3
  <2>4. Keeps(l, S, m, g)
    <3>1. g = [i \in 0 .. m |-> g[i]]
      OBVIOUS
    <3> HIDE DEF g
    <3>2. QED
      BY <2>3, <3>1 DEF Keeps
  <2>5. QED
    BY <1>2, <2>4
<1>5. QED
  BY <1>3, <1>4

LEMMA KeepingIs ==
    ASSUME NEW l, Len(l) \in Nat, NEW S
    PROVE  \E f : Keeps(l, S, Len(l), f) /\ Keeping(l, S) = f[Len(l)]
<1> DEFINE kept[i \in 0 .. Len(l)] ==
             IF i = 0 THEN <<>> ELSE IF l[i] \in S THEN Append(kept[i - 1], l[i]) ELSE kept[i - 1]
<1>1. \E f : f = [i \in 0 .. Len(l) |->
               IF i = 0 THEN <<>> ELSE IF l[i] \in S THEN Append(f[i - 1], l[i]) ELSE f[i - 1]]
  <2>1. \E f : Keeps(l, S, Len(l), f)
    BY KeepsExists
  <2>2. QED
    BY <2>1 DEF Keeps, KeepStep
<1>2. kept = [i \in 0 .. Len(l) |->
               IF i = 0 THEN <<>> ELSE IF l[i] \in S THEN Append(kept[i - 1], l[i]) ELSE kept[i - 1]]
  BY <1>1, Zenon
<1>3. Keeping(l, S) = kept[Len(l)]
  BY Zenon DEF Keeping
<1> HIDE DEF kept
<1>4. QED
  BY <1>2, <1>3 DEF Keeps, KeepStep

LEMMA ChainsExists ==
    ASSUME NEW l, NEW n \in Nat
    PROVE  \E f : Chains(l, n, f)
<1> DEFINE bad == {m \in Nat : ~ \E f : Chains(l, m, f)}
<1>1. SUFFICES ASSUME bad # {} PROVE FALSE
  OBVIOUS
<1>2. PICK m \in bad : \A k \in bad : m <= k
  <2>1. bad \in SUBSET Nat
    OBVIOUS
  <2> HIDE DEF bad
  <2>2. QED
    BY <1>1, <2>1, LeastExists
<1>3. CASE m = 0
  <2> DEFINE f == [i \in 0 .. 0 |-> ChainStep(l, 0, 0)]
  <2>1. Chains(l, 0, f)
    BY DEF Chains, ChainStep
  <2>2. QED
    BY <1>3, <2>1
<1>4. CASE m # 0
  <2>1. m \in Nat /\ m - 1 \in Nat /\ m - 1 \notin bad
    BY <1>2, <1>4
  <2>2. PICK f : Chains(l, m - 1, f)
    BY <2>1
  <2> DEFINE g == [i \in 0 .. m |-> IF i < m THEN f[i] ELSE ChainStep(l, m, f[m - 1])]
  <2>3. ASSUME NEW i \in 0 .. m PROVE g[i] = ChainStep(l, i, g[i - 1])
    <3>1. CASE i = 0
      BY <1>4, <2>1, <2>2, <3>1 DEF Chains, ChainStep
    <3>2. CASE i # 0 /\ i < m
      <4>1. i \in 0 .. m - 1 /\ i - 1 \in 0 .. m - 1 /\ i - 1 < m
        BY <2>1, <3>2
      <4>2. f[i] = ChainStep(l, i, f[i - 1])
        BY <2>2, <4>1 DEF Chains
      <4>3. QED
        BY <3>2, <4>1, <4>2
    <3>3. CASE i = m
      BY <1>4, <2>1, <3>3
    <3>4. QED
      BY <2>1, <3>1, <3>2, <3>3
  <2>4. Chains(l, m, g)
    <3>1. g = [i \in 0 .. m |-> g[i]]
      OBVIOUS
    <3> HIDE DEF g
    <3>2. QED
      BY <2>3, <3>1 DEF Chains
  <2>5. QED
    BY <1>2, <2>4
<1>5. QED
  BY <1>3, <1>4

\* What is left of the last step, when the list is done.
ChainOf(st) ==
    [c \in Processors |-> IF c \in st.head THEN [st.chain[c] EXCEPT !.wait = st.n] ELSE st.chain[c]]

LEMMA RechainIs ==
    ASSUME NEW l, Len(l) \in Nat
    PROVE  \E f : Chains(l, Len(l), f) /\ jack_rechain_graph(l) = ChainOf(f[Len(l)])
<1> DEFINE walk[i \in 0 .. Len(l)] ==
             IF i = 0 THEN [n |-> 0, head |-> {}, chain |-> [c \in Processors |-> Unchained]]
             ELSE IF l[i] \in InProcess THEN ChainInternal(walk[i - 1], l[i])
             ELSE ChainExternal(walk[i - 1], l[i])
<1>1. \E f : f = [i \in 0 .. Len(l) |->
               IF i = 0 THEN [n |-> 0, head |-> {}, chain |-> [c \in Processors |-> Unchained]]
               ELSE IF l[i] \in InProcess THEN ChainInternal(f[i - 1], l[i])
               ELSE ChainExternal(f[i - 1], l[i])]
  <2>1. \E f : Chains(l, Len(l), f)
    BY ChainsExists
  <2>2. QED
    BY <2>1 DEF Chains, ChainStep
<1>2. walk = [i \in 0 .. Len(l) |->
               IF i = 0 THEN [n |-> 0, head |-> {}, chain |-> [c \in Processors |-> Unchained]]
               ELSE IF l[i] \in InProcess THEN ChainInternal(walk[i - 1], l[i])
               ELSE ChainExternal(walk[i - 1], l[i])]
  BY <1>1, Zenon
<1>3. jack_rechain_graph(l) = ChainOf(walk[Len(l)])
  BY Zenon DEF jack_rechain_graph, ChainOf
<1> HIDE DEF walk
<1>4. QED
  BY <1>2, <1>3 DEF Chains, ChainStep

\* After i clients: those of them that are in S, each once if the list has them once.
Kept(l, S, i, s) ==
    /\ s \in Seq(S)
    /\ \A j \in 1 .. i : l[j] \in S => \E k \in 1 .. Len(s) : s[k] = l[j]
    /\ \A k \in 1 .. Len(s) : \E j \in 1 .. i : s[k] = l[j]
    /\ Distinct(s)

LEMMA KeepStepKeeps ==
    ASSUME NEW l \in Seq(Processors), Distinct(l), NEW S, NEW i \in 1 .. Len(l), NEW s, Kept(l, S, i - 1, s)
    PROVE  Kept(l, S, i, KeepStep(l, S, i, s))
<1>1. Len(l) \in Nat /\ i \in Nat /\ i # 0 /\ s \in Seq(S) /\ Len(s) \in Nat
  BY DEF Kept
<1>2. CASE l[i] \notin S
  <2>1. KeepStep(l, S, i, s) = s
    BY <1>1, <1>2 DEF KeepStep
  <2>2. \A j \in 1 .. i : j \in 1 .. i - 1 \/ j = i
    BY <1>1
  <2>3. QED
    BY <1>1, <1>2, <2>1, <2>2 DEF Kept
<1>3. CASE l[i] \in S
  <2> DEFINE t == Append(s, l[i])
  <2>1. KeepStep(l, S, i, s) = t
    BY <1>1, <1>3 DEF KeepStep
  <2>2. t \in Seq(S) /\ Len(t) = Len(s) + 1 /\ t[Len(t)] = l[i] /\ \A k \in 1 .. Len(s) : t[k] = s[k]
    BY <1>1, <1>3
  <2> HIDE DEF t
  <2>3. \A j \in 1 .. i : l[j] \in S => \E k \in 1 .. Len(t) : t[k] = l[j]
    <3> SUFFICES ASSUME NEW j \in 1 .. i, l[j] \in S PROVE \E k \in 1 .. Len(t) : t[k] = l[j]
      OBVIOUS
    <3>1. CASE j = i
      BY <1>1, <2>2, <3>1
    <3>2. CASE j # i
      <4>1. j \in 1 .. i - 1
        BY <1>1, <3>2
      <4>2. PICK k \in 1 .. Len(s) : s[k] = l[j]
        BY <4>1 DEF Kept
      <4>3. k \in 1 .. Len(t) /\ t[k] = l[j]
        BY <1>1, <2>2, <4>2
      <4>4. QED
        BY <4>3
    <3>3. QED
      BY <3>1, <3>2
  <2>4. ASSUME NEW k \in 1 .. Len(t) PROVE (k = Len(t) /\ t[k] = l[i]) \/ (k \in 1 .. Len(s) /\ \E j \in 1 .. i - 1 : t[k] = l[j])
    <3>1. k = Len(t) \/ k \in 1 .. Len(s)
      BY <1>1, <2>2
    <3>2. QED
      BY <2>2, <3>1 DEF Kept
  <2>5. \A k \in 1 .. Len(t) : \E j \in 1 .. i : t[k] = l[j]
    <3>1. \A j \in 1 .. i - 1 : j \in 1 .. i
      BY <1>1
    <3>2. i \in 1 .. i
      BY <1>1
    <3>3. QED
      BY <2>4, <3>1, <3>2
  <2>6. Distinct(t)
    <3> SUFFICES ASSUME NEW a \in 1 .. Len(t), NEW b \in 1 .. Len(t), t[a] = t[b], a # b PROVE FALSE
      BY DEF Distinct
    <3>1. ASSUME NEW c \in 1 .. Len(t), c # Len(t) PROVE t[c] # l[i]
      <4>1. PICK j \in 1 .. i - 1 : t[c] = l[j]
        BY <2>4, <3>1
      <4>2. j \in 1 .. Len(l) /\ j # i
        BY <1>1
      <4>3. QED
        BY <4>1, <4>2 DEF Distinct
    <3>2. a # Len(t) /\ b # Len(t)
      <4>1. ASSUME a = Len(t) PROVE FALSE
        BY <2>2, <3>1, <4>1
      <4>2. ASSUME b = Len(t) PROVE FALSE
        BY <2>2, <3>1, <4>2
      <4>3. QED
        BY <4>1, <4>2
    <3>3. a \in 1 .. Len(s) /\ b \in 1 .. Len(s) /\ t[a] = s[a] /\ t[b] = s[b]
      BY <1>1, <2>2, <3>2
    <3>4. QED
      BY <3>3 DEF Kept, Distinct
  <2>7. QED
    BY <2>1, <2>2, <2>3, <2>5, <2>6 DEF Kept
<1>4. QED
  BY <1>2, <1>3

\* Keeping(l, S) has the clients of l that are in S, each once.
LEMMA KeepingKeeps ==
    ASSUME NEW l \in Seq(Processors), Distinct(l), NEW S
    PROVE  Kept(l, S, Len(l), Keeping(l, S))
<1>1. Len(l) \in Nat
  OBVIOUS
<1>2. PICK f : Keeps(l, S, Len(l), f) /\ Keeping(l, S) = f[Len(l)]
  BY <1>1, KeepingIs
<1> DEFINE bad == {m \in 0 .. Len(l) : ~ Kept(l, S, m, f[m])}
<1>3. ASSUME bad # {} PROVE FALSE
  <2>1. PICK m \in bad : \A k \in bad : m <= k
    <3>1. bad \in SUBSET Nat
      BY <1>1
    <3> HIDE DEF bad
    <3>2. QED
      BY <1>3, <3>1, LeastExists
  <2>2. f[m] = KeepStep(l, S, m, f[m - 1])
    BY <1>2, <2>1 DEF Keeps
  <2>3. CASE m = 0
    <3>1. f[m] = <<>>
      BY <2>2, <2>3 DEF KeepStep
    <3>2. Kept(l, S, m, <<>>)
      BY <2>3 DEF Kept, Distinct
    <3>3. QED
      BY <2>1, <3>1, <3>2
  <2>4. CASE m # 0
    <3>1. m \in 1 .. Len(l) /\ m - 1 \in 0 .. Len(l) /\ m - 1 < m
      BY <1>1, <2>1, <2>4
    <3>2. Kept(l, S, m - 1, f[m - 1])
      BY <2>1, <3>1
    <3>3. Kept(l, S, m, f[m])
      BY <2>2, <3>1, <3>2, KeepStepKeeps
    <3>4. QED
      BY <2>1, <3>3
  <2>5. QED
    BY <2>3, <2>4
<1>4. Len(l) \notin bad /\ Len(l) \in 0 .. Len(l)
  BY <1>1, <1>3
<1>5. QED
  BY <1>2, <1>4

ChainRecord == [start : Int, wait : Int, order : Int]

\* After i clients: their FIFOs lie before n, the subgraphs that ended are whole,
\* and head is the first client of the one that did not.
Walked(l, i, st) ==
    /\ st \in [n : 0 .. 2 * i, head : SUBSET Processors, chain : [Processors -> ChainRecord]]
    /\ \A c \in Processors : /\ st.chain[c].start \in None .. st.n
                             /\ st.chain[c].wait \in None .. st.n - 1
                             /\ st.chain[c].order \in None .. st.n
    /\ i = 0 \/ l[i] \in InProcess => st.head = {}
    /\ i # 0 /\ l[i] \in External =>
         /\ st.chain[l[i]].order = st.n - 1
         /\ \E h \in 1 .. i : st.head = {l[h]} /\ Begins(l, h) /\ \A j \in h .. i : l[j] \in External
    /\ \A j \in 1 .. i : l[j] \in External =>
        /\ st.chain[l[j]].order \in 0 .. st.n - 1
        /\ Begins(l, j) => st.chain[l[j]].start = st.chain[l[j]].order
        /\ ~Begins(l, j) => st.chain[l[j]].order = st.chain[l[j - 1]].order + 1
        /\ \A k \in 1 .. i : l[k] \in External /\ k # j => st.chain[l[k]].order # st.chain[l[j]].order
        /\ \A c \in Processors : st.chain[c].wait # st.chain[l[j]].order
    /\ \A h, k \in 1 .. i : k < i /\ Subgraph(l, h, k) => st.chain[l[h]].wait = st.chain[l[k]].order + 1

\* What a step from p to q, with client i, does not change, and what it may.
Grows(l, i, p, q) ==
    /\ q \in [n : 0 .. 2 * i, head : SUBSET Processors, chain : [Processors -> ChainRecord]]
    /\ p.n <= q.n
    /\ \A c \in Processors : /\ q.chain[c].start \in None .. q.n
                             /\ q.chain[c].wait \in {p.chain[c].wait, None} \/ (q.chain[c].wait = p.n /\ p.n < q.n)
                             /\ q.chain[c].order \in None .. q.n
    /\ \A c \in Processors : c # l[i] => q.chain[c].start = p.chain[c].start /\ q.chain[c].order = p.chain[c].order
    /\ l[i] \in InProcess => q.head = {}
    /\ l[i] \in External =>
         /\ q.n = p.n + 1 /\ q.chain[l[i]].order = p.n
         /\ \A c \in Processors : q.chain[c].wait \in {p.chain[c].wait, None}
         /\ p.head = {} => q.head = {l[i]} /\ q.chain[l[i]].start = p.n
         /\ p.head # {} => q.head = p.head
    /\ \A h, k \in 1 .. i : k < i /\ Subgraph(l, h, k) => q.chain[l[h]].wait = q.chain[l[k]].order + 1

LEMMA WalkedOn ==
    ASSUME NEW l \in Seq(Processors), Distinct(l), NEW i \in 1 .. Len(l), NEW p, Walked(l, i - 1, p), NEW q, Grows(l, i, p, q)
    PROVE  Walked(l, i, q)
<1>0. Len(l) \in Nat /\ i \in Nat /\ i # 0 /\ i - 1 \in Nat /\ 1 <= i /\ i <= Len(l)
  <2>1. Len(l) \in Nat
    OBVIOUS
  <2>2. QED
    BY <2>1
<1>a. \A j \in 1 .. Len(l) : l[j] \in Processors
  OBVIOUS
<1>b. p.n \in Nat /\ q.n \in Nat /\ p.n <= q.n
  <2>1. p.n \in 0 .. 2 * (i - 1) /\ q.n \in 0 .. 2 * i /\ p.n <= q.n
    BY DEF Walked, Grows
  <2>2. QED
    BY <1>0, <2>1
<1>c. \A c \in Processors : /\ p.chain[c].start \in Int /\ p.chain[c].wait \in Int /\ p.chain[c].order \in Int
                           /\ q.chain[c].start \in Int /\ q.chain[c].wait \in Int /\ q.chain[c].order \in Int
  <2>1. p.chain \in [Processors -> ChainRecord] /\ q.chain \in [Processors -> ChainRecord]
    BY DEF Walked, Grows
  <2>2. QED
    BY <2>1 DEF ChainRecord
<1>1. \A j \in 1 .. i - 1 : j \in 1 .. Len(l) /\ j \in 1 .. i /\ l[j] # l[i] /\ l[j] \in Processors
  <2>1. \A j \in 1 .. i - 1 : j \in 1 .. Len(l) /\ j # i /\ j \in 1 .. i
    BY <1>0
  <2>2. QED
    BY <1>a, <2>1 DEF Distinct
<1>2. \A j \in 1 .. i : j \in 1 .. i - 1 \/ j = i
  BY <1>0
<1>d. ASSUME NEW j \in 1 .. i - 1
      PROVE  q.chain[l[j]].start = p.chain[l[j]].start /\ q.chain[l[j]].order = p.chain[l[j]].order
  BY <1>1 DEF Grows
<1>e. ASSUME NEW c \in Processors
      PROVE  q.chain[c].wait \in {p.chain[c].wait, None} \/ (q.chain[c].wait = p.n /\ p.n < q.n)
  BY DEF Grows
<1>f. ASSUME NEW c \in Processors PROVE p.chain[c].wait \in None .. p.n - 1
  BY DEF Walked
<1>3. \A c \in Processors : q.chain[c].wait \in None .. q.n - 1
  <2> SUFFICES ASSUME NEW c \in Processors PROVE q.chain[c].wait \in None .. q.n - 1
    OBVIOUS
  <2>1. p.chain[c].wait \in None .. p.n - 1 /\ None = -1
    BY <1>f DEF None
  <2>2. q.chain[c].wait = p.chain[c].wait \/ q.chain[c].wait = -1 \/ (q.chain[c].wait = p.n /\ p.n < q.n)
    BY <1>e DEF None
  <2>3. p.chain[c].wait \in -1 .. p.n - 1
    BY <1>f DEF None
  <2>a. \A a, b \in Nat : \A x \in -1 .. a - 1 : \A y :
            a <= b /\ (y = x \/ y = -1 \/ (y = a /\ a < b)) => y \in -1 .. b - 1
    OBVIOUS
  <2>4. q.chain[c].wait \in -1 .. q.n - 1
    BY <1>b, <2>2, <2>3, <2>a
  <2>5. QED
    BY <2>4 DEF None
<1>4. ASSUME l[i] \in External
      PROVE  /\ q.chain[l[i]].order = q.n - 1
             /\ \E h \in 1 .. i : q.head = {l[h]} /\ Begins(l, h) /\ \A j \in h .. i : l[j] \in External
  <2>0. /\ q.n = p.n + 1 /\ q.chain[l[i]].order = p.n
        /\ p.head = {} => q.head = {l[i]}
        /\ p.head # {} => q.head = p.head
    BY <1>4 DEF Grows
  <2>1. q.chain[l[i]].order = q.n - 1
    BY <1>b, <2>0
  <2>2. CASE i = 1 \/ l[i - 1] \in InProcess
    <3>1. p.head = {}
      <4>1. i - 1 = 0 \/ l[i - 1] \in InProcess
        BY <1>0, <2>2
      <4>2. QED
        BY <4>1 DEF Walked
    <3>2. Begins(l, i)
      BY <2>2 DEF Begins
    <3>3. \A j \in i .. i : l[j] \in External
      BY <1>0, <1>4
    <3>4. i \in 1 .. i
      BY <1>0
    <3>5. QED
      BY <2>0, <2>1, <3>1, <3>2, <3>3, <3>4
  <2>3. CASE i # 1 /\ l[i - 1] \notin InProcess
    <3>1. i - 1 \in 1 .. Len(l) /\ i - 1 # 0
      BY <1>0, <2>3
    <3>2. l[i - 1] \in External
      BY <1>a, <2>3, <3>1 DEF External
    <3>3. PICK h \in 1 .. i - 1 : p.head = {l[h]} /\ Begins(l, h) /\ \A j \in h .. i - 1 : l[j] \in External
      BY <3>1, <3>2 DEF Walked
    <3>4. h \in 1 .. i /\ q.head = {l[h]}
      BY <1>1, <2>0, <3>3
    <3>5. \A j \in h .. i : j \in h .. i - 1 \/ j = i
      BY <1>0, <3>4
    <3>6. \A j \in h .. i : l[j] \in External
      BY <1>4, <3>3, <3>5
    <3>7. QED
      BY <2>1, <3>3, <3>4, <3>6
  <2>4. QED
    BY <2>2, <2>3
<1>5. ASSUME NEW j \in 1 .. i, l[j] \in External
      PROVE  /\ q.chain[l[j]].order \in 0 .. q.n - 1
             /\ Begins(l, j) => q.chain[l[j]].start = q.chain[l[j]].order
             /\ ~Begins(l, j) => q.chain[l[j]].order = q.chain[l[j - 1]].order + 1
             /\ \A c \in Processors : q.chain[c].wait # q.chain[l[j]].order
  <2>1. CASE j = i
    <3>1. /\ q.chain[l[j]].order = p.n /\ q.n = p.n + 1
          /\ p.head = {} => q.chain[l[i]].start = p.n
          /\ \A c \in Processors : q.chain[c].wait \in {p.chain[c].wait, None}
      BY <1>5, <2>1 DEF Grows
    <3>2. ASSUME NEW c \in Processors PROVE q.chain[c].wait # p.n
      <4>1. p.chain[c].wait \in None .. p.n - 1 /\ None = -1
        BY <1>f DEF None
      <4>2. QED
        BY <1>b, <3>1, <4>1
    <3>3. ASSUME Begins(l, j) PROVE q.chain[l[j]].start = q.chain[l[j]].order
      <4>1. i - 1 = 0 \/ l[i - 1] \in InProcess
        BY <1>0, <2>1, <3>3 DEF Begins
      <4>2. p.head = {}
        BY <4>1 DEF Walked
      <4>3. QED
        BY <2>1, <3>1, <4>2
    <3>4. ASSUME ~Begins(l, j) PROVE q.chain[l[j]].order = q.chain[l[j - 1]].order + 1
      <4>1. i # 1 /\ l[i - 1] \notin InProcess
        BY <2>1, <3>4 DEF Begins
      <4>2. i - 1 \in 1 .. i - 1 /\ i - 1 # 0 /\ i - 1 \in 1 .. Len(l)
        BY <1>0, <4>1
      <4>3. l[i - 1] \in External
        BY <1>a, <4>1, <4>2 DEF External
      <4>4. p.chain[l[i - 1]].order = p.n - 1
        BY <4>2, <4>3 DEF Walked
      <4>5. q.chain[l[i - 1]].order = p.n - 1
        BY <1>d, <4>2, <4>4
      <4>6. QED
        BY <1>b, <2>1, <3>1, <4>5
    <3>5. QED
      BY <1>b, <3>1, <3>2, <3>3, <3>4
  <2>2. CASE j # i
    <3>1. j \in 1 .. i - 1
      BY <1>2, <2>2
    <3>2. q.chain[l[j]].order = p.chain[l[j]].order /\ q.chain[l[j]].start = p.chain[l[j]].start
      BY <1>d, <3>1
    <3>3. /\ p.chain[l[j]].order \in 0 .. p.n - 1
          /\ Begins(l, j) => p.chain[l[j]].start = p.chain[l[j]].order
          /\ ~Begins(l, j) => p.chain[l[j]].order = p.chain[l[j - 1]].order + 1
          /\ \A c \in Processors : p.chain[c].wait # p.chain[l[j]].order
      BY <1>5, <3>1 DEF Walked
    <3>4. ASSUME NEW c \in Processors PROVE q.chain[c].wait # q.chain[l[j]].order
      <4>1. None = -1
        BY DEF None
      <4>2. p.chain[c].wait # p.chain[l[j]].order /\ q.chain[c].wait \in {p.chain[c].wait, None, p.n}
        BY <1>e, <3>3
      <4>3. QED
        BY <1>b, <3>2, <3>3, <4>1, <4>2
    <3>5. ASSUME ~Begins(l, j) PROVE q.chain[l[j]].order = q.chain[l[j - 1]].order + 1
      <4>1. j # 1
        BY <3>5 DEF Begins
      <4>2. j - 1 \in 1 .. i - 1
        BY <1>0, <3>1, <4>1
      <4>3. q.chain[l[j - 1]].order = p.chain[l[j - 1]].order
        BY <1>d, <4>2
      <4>4. QED
        BY <3>2, <3>3, <3>5, <4>3
    <3>6. QED
      BY <1>b, <3>2, <3>3, <3>4, <3>5
  <2>3. QED
    BY <2>1, <2>2
<1>6. ASSUME NEW j \in 1 .. i, l[j] \in External, NEW k \in 1 .. i, l[k] \in External, k # j
      PROVE  q.chain[l[k]].order # q.chain[l[j]].order
  <2>1. ASSUME NEW m \in 1 .. i - 1, l[m] \in External
        PROVE  q.chain[l[m]].order = p.chain[l[m]].order /\ p.chain[l[m]].order \in 0 .. p.n - 1
    BY <1>d, <2>1 DEF Walked
  <2>2. l[i] \in External => q.chain[l[i]].order = p.n
    BY DEF Grows
  <2>3. CASE j = i
    <3>1. k \in 1 .. i - 1
      BY <1>2, <1>6, <2>3
    <3>2. QED
      BY <1>b, <1>6, <2>1, <2>2, <2>3, <3>1
  <2>4. CASE k = i
    <3>1. j \in 1 .. i - 1
      BY <1>2, <1>6, <2>4
    <3>2. QED
      BY <1>b, <1>6, <2>1, <2>2, <2>4, <3>1
  <2>5. CASE j # i /\ k # i
    <3>1. j \in 1 .. i - 1 /\ k \in 1 .. i - 1
      BY <1>2, <2>5
    <3>2. p.chain[l[k]].order # p.chain[l[j]].order
      BY <1>6, <3>1 DEF Walked
    <3>3. QED
      BY <1>6, <2>1, <3>1, <3>2
  <2>6. QED
    BY <2>3, <2>4, <2>5
<1>7. /\ q \in [n : 0 .. 2 * i, head : SUBSET Processors, chain : [Processors -> ChainRecord]]
      /\ \A c \in Processors : q.chain[c].start \in None .. q.n /\ q.chain[c].order \in None .. q.n
      /\ l[i] \in InProcess => q.head = {}
      /\ \A h, k \in 1 .. i : k < i /\ Subgraph(l, h, k) => q.chain[l[h]].wait = q.chain[l[k]].order + 1
  BY DEF Grows
<1>8. QED
  BY <1>0, <1>3, <1>4, <1>5, <1>6, <1>7 DEF Walked

\* Two subgraphs that reach the same client begin with the same one.
LEMMA OneHead ==
    ASSUME NEW l, NEW k \in Nat, NEW g \in 1 .. k, NEW h \in 1 .. k, Begins(l, g), Begins(l, h),
           \A j \in g .. k : l[j] \in External, \A j \in h .. k : l[j] \in External
    PROVE  g = h
<1>1. ASSUME NEW a \in 1 .. k, NEW b \in 1 .. k, a < b, Begins(l, b), \A j \in a .. k : l[j] \in External
      PROVE  FALSE
  <2>1. b # 1 /\ b - 1 \in a .. k
    BY <1>1
  <2>2. l[b - 1] \in External
    BY <1>1, <2>1
  <2>3. QED
    BY <1>1, <2>1, <2>2 DEF Begins, External
<1>2. ~(g < h) /\ ~(h < g)
  BY <1>1
<1>3. QED
  BY <1>2

LEMMA ChainRecordWith ==
    ASSUME NEW r \in ChainRecord, NEW n \in Int
    PROVE  /\ [r EXCEPT !.order = n] \in ChainRecord
           /\ [r EXCEPT !.order = n].start = r.start
           /\ [r EXCEPT !.order = n].wait = r.wait
           /\ [r EXCEPT !.order = n].order = n
           /\ [r EXCEPT !.wait = n] \in ChainRecord
           /\ [r EXCEPT !.wait = n].start = r.start
           /\ [r EXCEPT !.wait = n].wait = n
           /\ [r EXCEPT !.wait = n].order = r.order
BY DEF ChainRecord

LEMMA WalksInternal ==
    ASSUME NEW l \in Seq(Processors), Distinct(l), NEW i \in 1 .. Len(l), NEW p, Walked(l, i - 1, p), l[i] \in InProcess
    PROVE  Grows(l, i, p, ChainInternal(p, l[i]))
<1> DEFINE c == l[i]
<1>0. Len(l) \in Nat /\ i \in Nat /\ i - 1 \in Nat /\ 1 <= i /\ i <= Len(l) /\ c \in Processors /\ c \notin External
  <2>1. Len(l) \in Nat
    OBVIOUS
  <2>2. QED
    BY <2>1 DEF External
<1>1. p \in [n : 0 .. 2 * (i - 1), head : SUBSET Processors, chain : [Processors -> ChainRecord]]
  BY DEF Walked
<1>2. p.n \in 0 .. 2 * (i - 1) /\ p.n \in Nat
  BY <1>0, <1>1
<1>3. p.chain \in [Processors -> ChainRecord] /\ p.head \in SUBSET Processors
  BY <1>1
<1>4. \A d \in Processors : /\ p.chain[d].start \in None .. p.n
                           /\ p.chain[d].wait \in None .. p.n - 1
                           /\ p.chain[d].order \in None .. p.n
  BY DEF Walked
<1>5. CASE p.head = {}
  <2> DEFINE q == [p EXCEPT !.chain[c].order = p.n]
  <2>1. ChainInternal(p, c) = q
    BY <1>5 DEF ChainInternal
  <2>2. /\ q.n = p.n /\ q.head = {}
        /\ q.chain = [p.chain EXCEPT ![c] = [p.chain[c] EXCEPT !.order = p.n]]
    BY <1>1, <1>5
  <2>r. PICK r \in ChainRecord : /\ r = [p.chain[c] EXCEPT !.order = p.n]
                                /\ r.start = p.chain[c].start /\ r.wait = p.chain[c].wait /\ r.order = p.n
    <3>1. p.chain[c] \in ChainRecord
      BY <1>0, <1>3
    <3>2. p.n \in Int
      BY <1>2
    <3>3. QED
      BY <3>1, <3>2, ChainRecordWith
  <2>s. q.chain = [p.chain EXCEPT ![c] = r]
    BY <2>2, <2>r
  <2>3. q \in [n : 0 .. 2 * i, head : SUBSET Processors, chain : [Processors -> ChainRecord]]
    <3>1. q.chain \in [Processors -> ChainRecord]
      BY <1>0, <1>3, <2>r, <2>s
    <3>2. q.n \in 0 .. 2 * i
      BY <1>0, <1>2, <2>2
    <3>3. q \in [n : {q.n}, head : {q.head}, chain : {q.chain}]
      <4>1. p = [n |-> p.n, head |-> p.head, chain |-> p.chain]
        BY <1>1
      <4>a. q = [p EXCEPT !.chain = [p.chain EXCEPT ![c] = [p.chain[c] EXCEPT !.order = p.n]]]
        OBVIOUS
      <4>b. \A z : [p EXCEPT !.chain = z] = [n |-> p.n, head |-> p.head, chain |-> z]
        BY <4>1
      <4>2. q = [n |-> p.n, head |-> p.head, chain |-> [p.chain EXCEPT ![c] = [p.chain[c] EXCEPT !.order = p.n]]]
        <5> HIDE DEF q
        <5>1. QED
          BY <4>a, <4>b
      <4> HIDE DEF q
      <4>3. QED
        BY <4>2
    <3> HIDE DEF q
    <3>4. QED
      BY <2>2, <3>1, <3>2, <3>3
  <2>4. \A d \in Processors : /\ q.chain[d].start = p.chain[d].start
                             /\ q.chain[d].wait = p.chain[d].wait
                             /\ q.chain[d].order = IF d = c THEN p.n ELSE p.chain[d].order
    BY <1>0, <1>3, <2>r, <2>s
  <2> HIDE DEF q
  <2>5. ASSUME NEW h \in 1 .. i, NEW k \in 1 .. i, k < i, Subgraph(l, h, k)
        PROVE  q.chain[l[h]].wait = q.chain[l[k]].order + 1
    <3>1. h <= k /\ l[h] \in External /\ l[k] \in External
      BY <1>0, <2>5 DEF Subgraph
    <3>2. k # i - 1
      <4> SUFFICES ASSUME k = i - 1 PROVE FALSE
        OBVIOUS
      <4>1. i - 1 # 0
        BY <1>0
      <4>2. p.head # {}
        BY <3>1, <4>1 DEF Walked
      <4>3. QED
        BY <1>5, <4>2
    <3>3. h \in 1 .. i - 1 /\ k \in 1 .. i - 1 /\ k < i - 1 /\ h \in 1 .. Len(l) /\ k \in 1 .. Len(l)
      BY <1>0, <2>5, <3>1, <3>2
    <3>4. p.chain[l[h]].wait = p.chain[l[k]].order + 1
      BY <2>5, <3>3 DEF Walked
    <3>5. l[h] \in Processors /\ l[k] \in Processors /\ l[k] # c
      BY <1>0, <3>1 DEF External
    <3>6. QED
      BY <2>4, <3>4, <3>5
  <2>6. \A d \in Processors : /\ q.chain[d].start \in None .. q.n
                             /\ q.chain[d].order \in None .. q.n
    BY <1>2, <1>4, <2>2, <2>4 DEF None
  <2>7. Grows(l, i, p, q)
    BY <1>0, <1>2, <2>2, <2>3, <2>4, <2>5, <2>6 DEF Grows
  <2>8. QED
    BY <2>1, <2>7
<1>6. CASE p.head # {}
  <2> DEFINE new == [d \in Processors |->
            IF d \in p.head THEN [p.chain[d] EXCEPT !.wait = p.n]
            ELSE IF d = c THEN [p.chain[d] EXCEPT !.order = p.n]
            ELSE p.chain[d]]
             q == [n |-> p.n + 1, head |-> {}, chain |-> new]
  <2>1. ChainInternal(p, c) = q
    BY <1>6 DEF ChainInternal
  <2>2. i - 1 # 0 /\ i - 1 \in 1 .. Len(l) /\ l[i - 1] \in External
    <3>1. i - 1 # 0 /\ l[i - 1] \notin InProcess
      BY <1>6 DEF Walked
    <3>2. i - 1 \in 1 .. Len(l)
      BY <1>0, <3>1
    <3>3. QED
      BY <3>1, <3>2 DEF External
  <2>3. PICK g \in 1 .. i - 1 : p.head = {l[g]} /\ Begins(l, g) /\ \A j \in g .. i - 1 : l[j] \in External
    BY <2>2 DEF Walked
  <2>4. p.chain[l[i - 1]].order = p.n - 1
    BY <2>2 DEF Walked
  <2>5. g \in 1 .. Len(l) /\ l[g] \in External /\ l[g] # c
    <3>1. g \in 1 .. Len(l) /\ g \in g .. i - 1
      BY <1>0
    <3>2. QED
      BY <1>0, <2>3, <3>1
  <2> HIDE DEF new
  <2>6. ASSUME NEW d \in Processors
        PROVE  /\ new[d] \in ChainRecord
               /\ new[d].start = p.chain[d].start
               /\ new[d].wait = IF d = l[g] THEN p.n ELSE p.chain[d].wait
               /\ new[d].order = IF d = c THEN p.n ELSE p.chain[d].order
    <3>0. p.n \in Int
      BY <1>2
    <3>1. p.chain[d] \in ChainRecord
      BY <1>3
    <3>2. CASE d = l[g]
      <4>0. PICK r \in ChainRecord : r = p.chain[d]
        BY <3>1
      <4>a. PICK s : s = [r EXCEPT !.wait = p.n]
        OBVIOUS
      <4>b. s \in ChainRecord /\ s.start = r.start /\ s.wait = p.n /\ s.order = r.order
        BY <3>0, <4>a, ChainRecordWith
      <4>1. new[d] = s
        BY <2>3, <3>2, <4>0, <4>a DEF new
      <4>2. /\ new[d] \in ChainRecord
            /\ new[d].start = p.chain[d].start
            /\ new[d].wait = p.n
            /\ new[d].order = p.chain[d].order
        BY <4>0, <4>b, <4>1
      <4>3. QED
        BY <2>5, <3>2, <4>2
    <3>3. CASE d # l[g] /\ d = c
      <4>0. PICK r \in ChainRecord : r = p.chain[d]
        BY <3>1
      <4>a. PICK s : s = [r EXCEPT !.order = p.n]
        OBVIOUS
      <4>b. s \in ChainRecord /\ s.start = r.start /\ s.wait = r.wait /\ s.order = p.n
        BY <3>0, <4>a, ChainRecordWith
      <4>1. new[d] = s
        BY <2>3, <3>3, <4>0, <4>a DEF new
      <4>2. /\ new[d] \in ChainRecord
            /\ new[d].start = p.chain[d].start
            /\ new[d].wait = p.chain[d].wait
            /\ new[d].order = p.n
        BY <4>0, <4>b, <4>1
      <4>3. QED
        BY <3>3, <4>2
    <3>4. CASE d # l[g] /\ d # c
      <4>1. new[d] = p.chain[d]
        BY <2>3, <3>4 DEF new
      <4>2. QED
        BY <3>1, <3>4, <4>1
    <3>5. QED
      BY <3>2, <3>3, <3>4
  <2>7. q \in [n : 0 .. 2 * i, head : SUBSET Processors, chain : [Processors -> ChainRecord]]
    <3>1. new \in [Processors -> ChainRecord]
      <4>1. new = [d \in Processors |-> new[d]]
        BY DEF new
      <4>2. QED
        BY <2>6, <4>1
    <3>2. p.n + 1 \in 0 .. 2 * i
      BY <1>0, <1>2
    <3>3. QED
      BY <3>1, <3>2
  <2>8. q.n = p.n + 1 /\ q.head = {} /\ q.chain = new
    OBVIOUS
  <2> HIDE DEF q
  <2>a. ASSUME NEW d \in Processors
        PROVE  /\ q.chain[d].start = p.chain[d].start
               /\ q.chain[d].wait = IF d = l[g] THEN p.n ELSE p.chain[d].wait
               /\ q.chain[d].order = IF d = c THEN p.n ELSE p.chain[d].order
    BY <2>6, <2>8
  <2>9. ASSUME NEW h \in 1 .. i, NEW k \in 1 .. i, k < i, Subgraph(l, h, k)
        PROVE  q.chain[l[h]].wait = q.chain[l[k]].order + 1
    <3>1. h <= k /\ Begins(l, h) /\ Ends(l, k) /\ \A j \in h .. k : l[j] \in External
      BY <2>9 DEF Subgraph
    <3>2. h \in 1 .. i - 1 /\ k \in 1 .. i - 1 /\ h \in 1 .. Len(l) /\ k \in 1 .. Len(l) /\ h \in h .. k /\ k \in h .. k
      BY <1>0, <2>9, <3>1
    <3>3. l[h] \in Processors /\ l[k] \in Processors /\ l[k] # c
      BY <1>0, <3>1, <3>2 DEF External
    <3>4. q.chain[l[k]].order = p.chain[l[k]].order
      BY <2>a, <2>8, <3>3
    <3>5. CASE k = i - 1
      <4>1. h = g
        BY <1>0, <2>3, <3>1, <3>2, <3>5, OneHead
      <4>2. q.chain[l[h]].wait = p.n
        BY <2>a, <2>8, <3>3, <4>1
      <4>3. QED
        <5>1. q.chain[l[k]].order = p.n - 1
          BY <2>4, <3>4, <3>5
        <5>2. QED
          BY <1>2, <4>2, <5>1
    <3>6. CASE k # i - 1
      <4>1. k < i - 1
        BY <1>0, <3>2, <3>6
      <4>2. p.chain[l[h]].wait = p.chain[l[k]].order + 1
        BY <2>9, <3>2, <4>1 DEF Walked
      <4>3. l[k + 1] \in InProcess
        BY <1>0, <3>1, <4>1 DEF Ends
      <4>4. ~(k + 1 \in g .. i - 1)
        BY <2>3, <4>3 DEF External
      <4>5. h # g
        BY <1>0, <3>1, <3>2, <4>1, <4>4
      <4>6. l[h] # l[g]
        BY <2>5, <3>2, <4>5 DEF Distinct
      <4>7. q.chain[l[h]].wait = p.chain[l[h]].wait
        BY <2>a, <2>8, <3>3, <4>6
      <4>8. QED
        BY <3>4, <4>2, <4>7
    <3>7. QED
      BY <3>5, <3>6
  <2>10. \A d \in Processors : /\ q.chain[d].start \in None .. q.n
                              /\ q.chain[d].order \in None .. q.n
    <3> SUFFICES ASSUME NEW d \in Processors PROVE q.chain[d].start \in None .. q.n /\ q.chain[d].order \in None .. q.n
      OBVIOUS
    <3>1. p.chain[d].start \in -1 .. p.n /\ p.chain[d].order \in -1 .. p.n
      BY <1>4 DEF None
    <3>2. q.chain[d].start = p.chain[d].start /\ (q.chain[d].order = p.n \/ q.chain[d].order = p.chain[d].order) /\ q.n = p.n + 1
      BY <2>a, <2>8
    <3>a. \A a \in Nat : a \in -1 .. a + 1 /\ \A x \in -1 .. a : x \in -1 .. a + 1
      OBVIOUS
    <3>b. p.n \in -1 .. q.n /\ \A x \in -1 .. p.n : x \in -1 .. q.n
      BY <1>2, <3>2, <3>a
    <3>3. q.chain[d].start \in -1 .. q.n /\ q.chain[d].order \in -1 .. q.n
      BY <3>1, <3>2, <3>b
    <3>4. QED
      BY <3>3 DEF None
  <2>11. \A d \in Processors : q.chain[d].wait \in {p.chain[d].wait, None} \/ (q.chain[d].wait = p.n /\ p.n < q.n)
    BY <1>2, <2>a, <2>8
  <2>12. \A d \in Processors : d # c => q.chain[d].start = p.chain[d].start /\ q.chain[d].order = p.chain[d].order
    BY <2>a, <2>8
  <2>13. p.n <= q.n
    BY <1>2, <2>8
  <2>14. Grows(l, i, p, q)
    BY <1>0, <2>7, <2>8, <2>9, <2>10, <2>11, <2>12, <2>13 DEF Grows
  <2>15. QED
    BY <2>1, <2>14
<1>7. QED
  BY <1>5, <1>6

LEMMA WalksExternal ==
    ASSUME NEW l \in Seq(Processors), Distinct(l), NEW i \in 1 .. Len(l), NEW p, Walked(l, i - 1, p), l[i] \notin InProcess
    PROVE  Grows(l, i, p, ChainExternal(p, l[i]))
<1> DEFINE c == l[i]
<1>0. Len(l) \in Nat /\ i \in Nat /\ i - 1 \in Nat /\ 1 <= i /\ i <= Len(l) /\ c \in Processors /\ c \in External
  <2>1. Len(l) \in Nat
    OBVIOUS
  <2>2. QED
    BY <2>1 DEF External
<1>1. p \in [n : 0 .. 2 * (i - 1), head : SUBSET Processors, chain : [Processors -> ChainRecord]]
  BY DEF Walked
<1>2. p.n \in 0 .. 2 * (i - 1) /\ p.n \in Nat
  BY <1>0, <1>1
<1>3. p.chain \in [Processors -> ChainRecord] /\ p.head \in SUBSET Processors
  BY <1>1
<1>4. \A d \in Processors : /\ p.chain[d].start \in None .. p.n
                           /\ p.chain[d].wait \in None .. p.n - 1
                           /\ p.chain[d].order \in None .. p.n
  BY DEF Walked
<1>5. PICK r : r = [start |-> IF p.head = {} THEN p.n ELSE None, wait |-> None, order |-> p.n]
  OBVIOUS
<1>6. r \in ChainRecord /\ r.start = (IF p.head = {} THEN p.n ELSE None) /\ r.wait = None /\ r.order = p.n
  BY <1>2, <1>5 DEF ChainRecord, None
<1>7. PICK h : h = IF p.head = {} THEN {c} ELSE p.head
  OBVIOUS
<1>8. PICK new : new = [p.chain EXCEPT ![c] = r]
  OBVIOUS
<1>9. PICK q : q = [n |-> p.n + 1, head |-> h, chain |-> new]
  OBVIOUS
<1>10. ChainExternal(p, c) = q
  BY <1>5, <1>7, <1>8, <1>9 DEF ChainExternal
<1>11. q.n = p.n + 1 /\ q.head = h /\ q.chain = new
  BY <1>9
<1>12. new \in [Processors -> ChainRecord]
  BY <1>0, <1>3, <1>6, <1>8
<1>13. q \in [n : 0 .. 2 * i, head : SUBSET Processors, chain : [Processors -> ChainRecord]]
  <2>1. p.n + 1 \in 0 .. 2 * i
    BY <1>0, <1>2
  <2>2. h \in SUBSET Processors
    BY <1>0, <1>3, <1>7
  <2>3. QED
    BY <1>9, <1>12, <2>1, <2>2
<1>14. ASSUME NEW d \in Processors, d # c PROVE q.chain[d] = p.chain[d]
  BY <1>3, <1>8, <1>11, <1>14
<1>15. q.chain[c] = r
  BY <1>0, <1>3, <1>8, <1>11
<1>16. ASSUME NEW g \in 1 .. i, NEW k \in 1 .. i, k < i, Subgraph(l, g, k)
       PROVE  q.chain[l[g]].wait = q.chain[l[k]].order + 1
  <2>1. g <= k /\ Ends(l, k)
    BY <1>16 DEF Subgraph
  <2>2. k # Len(l) /\ l[k + 1] \in InProcess
    BY <1>0, <1>16, <2>1 DEF Ends
  <2>3. k # i - 1
    BY <1>0, <2>2
  <2>4. k < i - 1 /\ g \in 1 .. i - 1 /\ k \in 1 .. i - 1 /\ g # i /\ k # i /\ g \in 1 .. Len(l) /\ k \in 1 .. Len(l)
    BY <1>0, <1>16, <2>1, <2>3
  <2>5. p.chain[l[g]].wait = p.chain[l[k]].order + 1
    BY <1>16, <2>4 DEF Walked
  <2>6. l[g] # c /\ l[k] # c /\ l[g] \in Processors /\ l[k] \in Processors
    BY <2>4 DEF Distinct
  <2>7. QED
    BY <1>14, <2>5, <2>6
<1>17. ASSUME NEW d \in Processors
       PROVE  /\ q.chain[d].start \in None .. q.n /\ q.chain[d].order \in None .. q.n
              /\ q.chain[d].wait \in {p.chain[d].wait, None}
  <2>1. CASE d = c
    <3>1. q.chain[d].wait = None /\ (q.chain[d].start = p.n \/ q.chain[d].start = -1) /\ q.chain[d].order = p.n /\ q.n = p.n + 1
      BY <1>6, <1>11, <1>15, <2>1 DEF None
    <3>2. q.chain[d].start \in -1 .. q.n /\ q.chain[d].order \in -1 .. q.n
      BY <1>2, <3>1
    <3>3. QED
      BY <3>1, <3>2 DEF None
  <2>2. CASE d # c
    <3>1. q.chain[d] = p.chain[d]
      BY <1>14, <2>2
    <3>2. p.chain[d].start \in -1 .. p.n /\ p.chain[d].order \in -1 .. p.n
      BY <1>4 DEF None
    <3>3. q.n = p.n + 1
      BY <1>11
    <3>4. p.chain[d].start \in -1 .. q.n /\ p.chain[d].order \in -1 .. q.n
      BY <1>2, <3>2, <3>3
    <3>5. QED
      BY <3>1, <3>4 DEF None
  <2>3. QED
    BY <2>1, <2>2
<1>18. \A d \in Processors : d # c => q.chain[d].start = p.chain[d].start /\ q.chain[d].order = p.chain[d].order
  BY <1>14
<1>19. p.n <= q.n
  BY <1>2, <1>11
<1>20. /\ q.chain[c].order = p.n
       /\ p.head = {} => q.head = {c} /\ q.chain[c].start = p.n
       /\ p.head # {} => q.head = p.head
  BY <1>6, <1>7, <1>11, <1>15
<1>21. Grows(l, i, p, q)
  BY <1>11, <1>13, <1>16, <1>17, <1>18, <1>19, <1>20 DEF Grows
<1>22. QED
  BY <1>10, <1>21

\* The loop has walked the whole list.
LEMMA WalkIsDone ==
    ASSUME NEW l \in Seq(Processors), Distinct(l)
    PROVE  \E st : Walked(l, Len(l), st) /\ jack_rechain_graph(l) = ChainOf(st)
<1>1. Len(l) \in Nat
  OBVIOUS
<1>2. PICK f : Chains(l, Len(l), f) /\ jack_rechain_graph(l) = ChainOf(f[Len(l)])
  BY <1>1, RechainIs
<1> DEFINE bad == {m \in 0 .. Len(l) : ~ Walked(l, m, f[m])}
<1>3. ASSUME bad # {} PROVE FALSE
  <2>1. PICK m \in bad : \A k \in bad : m <= k
    <3>1. bad \in SUBSET Nat
      BY <1>1
    <3> HIDE DEF bad
    <3>2. QED
      BY <1>3, <3>1, LeastExists
  <2>2. f[m] = ChainStep(l, m, f[m - 1])
    BY <1>2, <2>1 DEF Chains
  <2>3. CASE m = 0
    <3>1. f[m] = [n |-> 0, head |-> {}, chain |-> [c \in Processors |-> Unchained]]
      BY <2>2, <2>3 DEF ChainStep
    <3>2. Unchained \in ChainRecord /\ Unchained.start = None /\ Unchained.wait = None /\ Unchained.order = None
      BY DEF Unchained, ChainRecord, None
    <3>3. f[m] \in [n : 0 .. 2 * m, head : SUBSET Processors, chain : [Processors -> ChainRecord]]
      BY <2>3, <3>1, <3>2
    <3>4. \A c \in Processors : f[m].chain[c] = Unchained
      BY <3>1
    <3>5. f[m].n = 0 /\ f[m].head = {}
      BY <3>1
    <3>6. Walked(l, m, f[m])
      <4>1. 1 .. m = {} /\ ~(m # 0)
        BY <2>3
      <4>2. None \in None .. 0 /\ None \in None .. 0 - 1
        BY DEF None
      <4>3. \A c \in Processors : /\ f[m].chain[c].start \in None .. f[m].n
                                 /\ f[m].chain[c].wait \in None .. f[m].n - 1
                                 /\ f[m].chain[c].order \in None .. f[m].n
        BY <3>2, <3>4, <3>5, <4>2
      <4>4. QED
        BY <3>3, <3>5, <4>1, <4>3 DEF Walked
    <3>7. QED
      BY <2>1, <3>6
  <2>4. CASE m # 0
    <3>1. m \in 1 .. Len(l) /\ m - 1 \in 0 .. Len(l) /\ m - 1 < m
      BY <1>1, <2>1, <2>4
    <3>2. Walked(l, m - 1, f[m - 1])
      BY <2>1, <3>1
    <3>3. CASE l[m] \in InProcess
      <4>1. f[m] = ChainInternal(f[m - 1], l[m])
        BY <2>2, <2>4, <3>3 DEF ChainStep
      <4>2. Walked(l, m, f[m])
        BY <3>1, <3>2, <3>3, <4>1, WalksInternal, WalkedOn
      <4>3. QED
        BY <2>1, <4>2
    <3>4. CASE l[m] \notin InProcess
      <4>1. f[m] = ChainExternal(f[m - 1], l[m])
        BY <2>2, <2>4, <3>4 DEF ChainStep
      <4>2. Walked(l, m, f[m])
        BY <3>1, <3>2, <3>4, <4>1, WalksExternal, WalkedOn
      <4>3. QED
        BY <2>1, <4>2
    <3>5. QED
      BY <3>3, <3>4
  <2>5. QED
    BY <2>3, <2>4
<1>4. Len(l) \notin bad /\ Len(l) \in 0 .. Len(l)
  BY <1>1, <1>3
<1>5. QED
  BY <1>2, <1>4

LEMMA ListIsShort ==
    ASSUME NEW l \in Seq(Processors), Distinct(l)
    PROVE  Len(l) <= Cardinality(Processors) /\ Cardinality(Processors) \in Nat
<1>1. Len(l) \in Nat /\ l \in [1 .. Len(l) -> Processors]
  OBVIOUS
<1>2. l \in Injection(1 .. Len(l), Processors)
  BY <1>1 DEF Injection, IsInjective, Distinct
<1>3. Cardinality(1 .. Len(l)) = Len(l)
  BY <1>1, FS_Interval
<1>4. IsFiniteSet(Processors)
  BY CycleAssumption
<1>5. Cardinality(1 .. Len(l)) <= Cardinality(Processors)
  BY <1>2, <1>4, FS_Injection
<1>6. QED
  BY <1>3, <1>4, <1>5, FS_CardinalityType

\* jack_rechain_graph makes one chain of a list.
LEMMA RechainIsWhole ==
    ASSUME NEW l \in Seq(Processors), Distinct(l)
    PROVE  /\ WholeChain(l, jack_rechain_graph(l))
           /\ jack_rechain_graph(l) \in [Processors -> [start : Fifos \cup {None}, wait : Fifos \cup {None},
                                                      order : Fifos \cup {None}]]
<1> DEFINE n == Len(l)
<1>1. n \in Nat /\ \A i \in 1 .. n : l[i] \in Processors
  OBVIOUS
<1>2. PICK st : Walked(l, n, st) /\ jack_rechain_graph(l) = ChainOf(st)
  BY WalkIsDone
<1>3. PICK ch : ch = ChainOf(st)
  OBVIOUS
<1>4. st.n \in 0 .. 2 * n /\ st.head \in SUBSET Processors /\ st.chain \in [Processors -> ChainRecord]
  BY <1>2 DEF Walked
<1>5. st.n \in Fifos /\ 0 .. st.n \subseteq Fifos /\ st.n \in Nat
  <2>1. n <= Cardinality(Processors) /\ Cardinality(Processors) \in Nat
    BY ListIsShort
  <2>2. QED
    BY <1>1, <1>4, <2>1 DEF Fifos
<1>6. \A c \in Processors : /\ st.chain[c].start \in None .. st.n
                           /\ st.chain[c].wait \in None .. st.n - 1
                           /\ st.chain[c].order \in None .. st.n
  BY <1>2 DEF Walked
<1>7. ASSUME NEW c \in Processors
      PROVE  /\ ch[c] \in ChainRecord
             /\ ch[c].start = st.chain[c].start
             /\ ch[c].wait = IF c \in st.head THEN st.n ELSE st.chain[c].wait
             /\ ch[c].order = st.chain[c].order
  <2>1. PICK r \in ChainRecord : r = st.chain[c]
    BY <1>4
  <2>2. PICK s \in ChainRecord : s = [r EXCEPT !.wait = st.n] /\ s.start = r.start /\ s.wait = st.n /\ s.order = r.order
    <3>1. st.n \in Int
      BY <1>5
    <3>2. QED
      BY <3>1, ChainRecordWith
  <2>3. ch[c] = IF c \in st.head THEN s ELSE r
    BY <1>3, <2>1, <2>2 DEF ChainOf
  <2>4. QED
    BY <2>1, <2>2, <2>3
<1>8. ch \in [Processors -> [start : Fifos \cup {None}, wait : Fifos \cup {None}, order : Fifos \cup {None}]]
  <2>1. ch = [c \in Processors |-> ch[c]]
    BY <1>3 DEF ChainOf
  <2>2. ASSUME NEW c \in Processors
        PROVE  ch[c] \in [start : Fifos \cup {None}, wait : Fifos \cup {None}, order : Fifos \cup {None}]
    <3>1. \A x \in None .. st.n : x \in Fifos \cup {None}
      <4>1. \A x \in -1 .. st.n : x \in 0 .. st.n \/ x = -1
        BY <1>5
      <4>2. QED
        BY <1>5, <4>1 DEF None
    <3>2. \A x \in None .. st.n - 1 : x \in None .. st.n
      BY <1>5 DEF None
    <3>3. ch[c].start \in Fifos \cup {None} /\ ch[c].wait \in Fifos \cup {None} /\ ch[c].order \in Fifos \cup {None}
      BY <1>5, <1>6, <1>7, <3>1, <3>2
    <3>4. ch[c] \in ChainRecord
      BY <1>7
    <3>5. QED
      BY <3>3, <3>4 DEF ChainRecord
  <2>3. QED
    BY <2>1, <2>2
<1>9. ASSUME NEW i \in 1 .. n, l[i] \in External
      PROVE  /\ st.chain[l[i]].order \in 0 .. st.n - 1
             /\ Begins(l, i) => st.chain[l[i]].start = st.chain[l[i]].order
             /\ ~Begins(l, i) => st.chain[l[i]].order = st.chain[l[i - 1]].order + 1
             /\ \A k \in 1 .. n : l[k] \in External /\ k # i => st.chain[l[k]].order # st.chain[l[i]].order
             /\ \A c \in Processors : st.chain[c].wait # st.chain[l[i]].order
  BY <1>2, <1>9 DEF Walked
<1>10. ASSUME NEW i \in 1 .. n, l[i] \in External
       PROVE  /\ ch[l[i]].order \in Fifos
              /\ Begins(l, i) => ch[l[i]].start = ch[l[i]].order
              /\ ~Begins(l, i) => ch[l[i]].order = ch[l[i - 1]].order + 1
              /\ \A j \in 1 .. n : l[j] \in External /\ j # i => ch[l[j]].order # ch[l[i]].order
              /\ \A j \in 1 .. n : ch[l[j]].wait # ch[l[i]].order
  <2>1. ch[l[i]].order = st.chain[l[i]].order /\ ch[l[i]].start = st.chain[l[i]].start
    BY <1>1, <1>7
  <2>2. \A x \in 0 .. st.n - 1 : x \in 0 .. st.n /\ x # st.n
    BY <1>5
  <2>3. ch[l[i]].order \in Fifos
    BY <1>5, <1>9, <1>10, <2>1, <2>2
  <2>4. ASSUME ~Begins(l, i) PROVE ch[l[i]].order = ch[l[i - 1]].order + 1
    <3>1. i - 1 \in 1 .. n
      BY <1>1, <2>4 DEF Begins
    <3>2. ch[l[i - 1]].order = st.chain[l[i - 1]].order
      BY <1>1, <1>7, <3>1
    <3>3. QED
      BY <1>9, <1>10, <2>1, <2>4, <3>2
  <2>5. ASSUME NEW j \in 1 .. n, l[j] \in External, j # i PROVE ch[l[j]].order # ch[l[i]].order
    <3>1. ch[l[j]].order = st.chain[l[j]].order
      BY <1>1, <1>7
    <3>2. QED
      BY <1>9, <1>10, <2>1, <2>5, <3>1
  <2>6. ASSUME NEW j \in 1 .. n PROVE ch[l[j]].wait # ch[l[i]].order
    <3>1. ch[l[j]].wait = st.n \/ ch[l[j]].wait = st.chain[l[j]].wait
      BY <1>1, <1>7
    <3>2. QED
      BY <1>1, <1>9, <1>10, <2>1, <2>2, <3>1
  <2>7. QED
    BY <1>9, <1>10, <2>1, <2>3, <2>4, <2>5, <2>6
<1>11. ASSUME NEW h \in 1 .. n, NEW k \in 1 .. n, Subgraph(l, h, k)
       PROVE  ch[l[h]].wait = ch[l[k]].order + 1 /\ ch[l[h]].wait \in Fifos
  <2>1. h <= k /\ Begins(l, h) /\ Ends(l, k) /\ \A j \in h .. k : l[j] \in External
    BY <1>11 DEF Subgraph
  <2>2. h \in h .. k /\ k \in h .. k /\ h \in 1 .. k
    BY <1>1, <2>1
  <2>3. l[h] \in Processors /\ l[k] \in Processors /\ l[k] \in External
    BY <1>1, <2>1, <2>2
  <2>4. ch[l[k]].order = st.chain[l[k]].order /\ st.chain[l[k]].order \in 0 .. st.n - 1
    BY <1>7, <1>9, <2>3
  <2>5. CASE k = n
    <3>1. n # 0 /\ l[n] \in External
      BY <1>1, <2>3, <2>5
    <3>2. st.chain[l[n]].order = st.n - 1
      BY <1>2, <3>1 DEF Walked
    <3>3. PICK g \in 1 .. n : st.head = {l[g]} /\ Begins(l, g) /\ \A j \in g .. n : l[j] \in External
      BY <1>2, <3>1 DEF Walked
    <3>4. g = h
      BY <1>1, <2>1, <2>2, <2>5, <3>3, OneHead
    <3>5. ch[l[h]].wait = st.n
      BY <1>7, <2>3, <3>3, <3>4
    <3>6. st.n = ch[l[k]].order + 1
      BY <1>5, <2>4, <2>5, <3>2
    <3>7. QED
      BY <1>5, <3>5, <3>6
  <2>6. CASE k # n
    <3>1. k < n /\ l[k + 1] \in InProcess /\ k + 1 \in 1 .. n
      BY <1>1, <2>1, <2>6 DEF Ends
    <3>2. st.chain[l[h]].wait = st.chain[l[k]].order + 1
      BY <1>2, <1>11, <3>1 DEF Walked
    <3>3. l[h] \notin st.head
      <4>1. CASE l[n] \in InProcess
        <5>1. st.head = {}
          BY <1>2, <4>1 DEF Walked
        <5>2. QED
          BY <5>1
      <4>2. CASE l[n] \notin InProcess
        <5>1. n # 0 /\ l[n] \in External
          BY <1>1, <3>1, <4>2 DEF External
        <5>2. PICK g \in 1 .. n : st.head = {l[g]} /\ Begins(l, g) /\ \A j \in g .. n : l[j] \in External
          BY <1>2, <5>1 DEF Walked
        <5>3. ~(k + 1 \in g .. n)
          BY <3>1, <5>2 DEF External
        <5>4. g # h
          BY <1>1, <2>1, <3>1, <5>3
        <5>5. l[g] # l[h]
          BY <5>4 DEF Distinct
        <5>6. QED
          BY <5>2, <5>5
      <4>3. QED
        BY <4>1, <4>2
    <3>4. ch[l[h]].wait = st.chain[l[h]].wait
      BY <1>7, <2>3, <3>3
    <3>5. ch[l[k]].order + 1 \in 0 .. st.n
      BY <1>5, <2>4
    <3>6. QED
      BY <1>5, <2>4, <3>2, <3>4, <3>5
  <2>7. QED
    BY <2>5, <2>6
<1>12. WholeChain(l, ch)
  BY <1>10, <1>11 DEF WholeChain
<1>13. QED
  BY <1>2, <1>3, <1>8, <1>12

------------------------------------------------------------------------------
(* What it says of the cycle.                                                  *)

LEMMA ActiveIs ==
    ASSUME NEW l \in Seq(Processors)
    PROVE  /\ \A c : c \in ToSet(l) <=> \E i \in 1 .. Len(l) : l[i] = c
           /\ \A i \in 1 .. Len(l) : l[i] \in ToSet(l) /\ l[i] \in Processors
           /\ ToSet(l) \subseteq Processors /\ DOMAIN l = 1 .. Len(l) /\ Len(l) \in Nat
BY DEF ToSet

\* Every external client is in a subgraph.
LEMMA HeadExists ==
    ASSUME NEW l, Len(l) \in Nat, NEW i \in 1 .. Len(l), l[i] \in External, \A j \in 1 .. Len(l) : l[j] \in Processors
    PROVE  \E h \in 1 .. i : (\A j \in h .. i : l[j] \in External) /\ Begins(l, h)
<1> DEFINE T == {h \in 1 .. i : \A j \in h .. i : l[j] \in External}
<1>0. i \in Nat /\ 1 <= i /\ i <= Len(l)
  OBVIOUS
<1>1. T \in SUBSET Nat /\ i \in T
  BY <1>0
<1>2. PICK h \in T : \A k \in T : h <= k
  <2> HIDE DEF T
  <2>1. QED
    BY <1>1, LeastExists
<1>3. h \in 1 .. i /\ \A j \in h .. i : l[j] \in External
  OBVIOUS
<1>4. ASSUME h # 1, l[h - 1] \notin InProcess PROVE FALSE
  <2>1. h - 1 \in 1 .. i /\ h - 1 \in 1 .. Len(l)
    BY <1>0, <1>3, <1>4
  <2>2. l[h - 1] \in External
    BY <1>4, <2>1 DEF External
  <2>3. \A j \in h - 1 .. i : j = h - 1 \/ j \in h .. i
    BY <1>0, <1>3
  <2>4. h - 1 \in T
    BY <1>3, <2>1, <2>2, <2>3
  <2>5. h <= h - 1
    BY <1>2, <2>4
  <2>6. QED
    BY <1>3, <2>5
<1>5. QED
  BY <1>3, <1>4 DEF Begins

LEMMA TailExists ==
    ASSUME NEW l, Len(l) \in Nat, NEW i \in 1 .. Len(l), l[i] \in External, \A j \in 1 .. Len(l) : l[j] \in Processors
    PROVE  \E k \in i .. Len(l) : (\A j \in i .. k : l[j] \in External) /\ Ends(l, k)
<1> DEFINE T == {k \in i .. Len(l) : Ends(l, k)}
<1>0. i \in Nat /\ 1 <= i /\ i <= Len(l)
  OBVIOUS
<1>1. T \in SUBSET Nat /\ Len(l) \in T
  BY <1>0 DEF Ends
<1>2. PICK k \in T : \A m \in T : k <= m
  <2> HIDE DEF T
  <2>1. QED
    BY <1>1, LeastExists
<1>3. k \in i .. Len(l) /\ Ends(l, k)
  OBVIOUS
<1>4. ASSUME NEW j \in i .. k PROVE l[j] \in External
  <2>1. CASE j = i
    BY <2>1
  <2>2. CASE j # i
    <3>1. j - 1 \in i .. Len(l) /\ j - 1 < k /\ j \in 1 .. Len(l)
      BY <1>0, <1>3, <2>2
    <3>2. j - 1 \notin T
      BY <1>2, <1>3, <3>1
    <3>3. j - 1 + 1 = j
      BY <3>1
    <3>4. l[j] \notin InProcess
      BY <3>1, <3>2, <3>3 DEF Ends
    <3>5. QED
      BY <3>1, <3>4 DEF External
  <2>3. QED
    BY <2>1, <2>2
<1>5. QED
  BY <1>3, <1>4

LEMMA ChainIsKeptWhole == CycleIInv => ChainIsWhole
<1> SUFFICES ASSUME CycleIInv, clean, NEW i \in DOMAIN clients, clients[i] \in External
             PROVE  LET c == clients[i]
                        first == i = 1 \/ clients[i - 1] \in InProcess
                        last == i = Len(clients) \/ clients[i + 1] \in InProcess
                        head == CHOOSE h \in 1 .. i :
                                  /\ \A j \in h .. i : clients[j] \in External
                                  /\ h = 1 \/ clients[h - 1] \in InProcess
                    IN  /\ first => chain[c].start = chain[c].order
                        /\ ~first => chain[c].order = chain[clients[i - 1]].order + 1
                        /\ last => chain[clients[head]].wait = chain[c].order + 1
                        /\ \A j \in DOMAIN clients :
                             j # i /\ clients[j] \in External
                               => chain[clients[j]].order # chain[c].order
                        /\ \A j \in DOMAIN clients :
                             chain[clients[j]].wait # chain[c].order
  BY DEF ChainIsWhole
<1> DEFINE head == CHOOSE h \in 1 .. i : /\ \A j \in h .. i : clients[j] \in External
                                         /\ h = 1 \/ clients[h - 1] \in InProcess
<1>1. clients \in Seq(Processors)
  BY DEF CycleIInv, CycleTypeOK
<1>2. DOMAIN clients = 1 .. Len(clients) /\ Len(clients) \in Nat /\ \A j \in 1 .. Len(clients) : clients[j] \in Processors
  BY <1>1
<1>3. WholeChain(clients, chain)
  BY DEF CycleIInv, ServerKept
<1>4. \E h \in 1 .. i : (\A j \in h .. i : clients[j] \in External) /\ Begins(clients, h)
  BY <1>2, HeadExists
<1>5. head \in 1 .. i /\ (\A j \in head .. i : clients[j] \in External) /\ Begins(clients, head)
  BY <1>4 DEF Begins
<1> HIDE DEF head
<1>6. ASSUME Ends(clients, i) PROVE chain[clients[head]].wait = chain[clients[i]].order + 1
  <2>1. Subgraph(clients, head, i)
    BY <1>2, <1>5, <1>6 DEF Subgraph
  <2>2. head \in 1 .. Len(clients) /\ i \in 1 .. Len(clients)
    BY <1>2, <1>5
  <2>3. QED
    BY <1>3, <2>1, <2>2 DEF WholeChain
<1>7. /\ Begins(clients, i) => chain[clients[i]].start = chain[clients[i]].order
      /\ ~Begins(clients, i) => chain[clients[i]].order = chain[clients[i - 1]].order + 1
      /\ \A j \in 1 .. Len(clients) : clients[j] \in External /\ j # i => chain[clients[j]].order # chain[clients[i]].order
      /\ \A j \in 1 .. Len(clients) : chain[clients[j]].wait # chain[clients[i]].order
  BY <1>2, <1>3 DEF WholeChain
<1>8. QED
  BY <1>2, <1>6, <1>7 DEF Begins, Ends, head

LEMMA CycleIInvGives == CycleIInv => CycleInv
<1> SUFFICES ASSUME CycleIInv PROVE CycleInv
  OBVIOUS
<1>0. /\ clients \in Seq(Processors) /\ Len(clients) \in Nat /\ DOMAIN clients = 1 .. Len(clients)
      /\ fifo \in [Fifos -> 0 .. MaxBytes]
      /\ server.took \in Nat
  BY DEF CycleIInv, CycleTypeOK, ServerKept
<1>1. RunsOnceInOrder
  BY <1>0 DEF CycleIInv, WalkKept, RunsOnceInOrder
<1>2. OneAtATime
  <2> SUFFICES ASSUME clean, NEW i \in 1 .. Len(clients), clients[i] \in External, worker[clients[i]] = "processing"
               PROVE  /\ driver.doing = "waiting" /\ driver.at <= i
                      /\ \A j \in 1 .. i - 1 : /\ ran[clients[j]] = 1
                                               /\ clients[j] \in External => worker[clients[j]] # "processing"
    BY <1>0 DEF OneAtATime
  <2>1. driver.doing = "waiting"
    BY DEF CycleIInv, WalkKept, Resting
  <2>2. PICK k \in 1 .. Len(clients) : \E t \in driver.at .. k + 1 : Turn(driver.at, k, t)
    BY <2>1 DEF CycleIInv, TurnKept
  <2>3. PICK t \in driver.at .. k + 1 : Turn(driver.at, k, t)
    BY <2>2
  <2>4. driver.at \in 1 .. Len(clients)
    BY <2>1 DEF CycleIInv, TurnKept
  <2>5. t <= k /\ clients[i] = clients[t]
    BY <2>3 DEF Turn
  <2>6. t \in 1 .. Len(clients) /\ driver.at <= t
    BY <1>0, <2>4, <2>5
  <2>7. \A a, b \in 1 .. Len(clients) : clients[a] = clients[b] => a = b
    BY DEF CycleIInv, ServerKept, Distinct
  <2>8. i = t
    BY <2>5, <2>6, <2>7
  <2>9. ASSUME NEW j \in 1 .. i - 1
        PROVE  ran[clients[j]] = 1 /\ (clients[j] \in External => worker[clients[j]] # "processing")
    <3>1. j \in 1 .. Len(clients) /\ j < t /\ j # t
      BY <1>0, <2>6, <2>8
    <3>2. ran[clients[j]] = 1
      BY <2>3, <3>1 DEF Turn
    <3>3. clients[j] # clients[t]
      BY <2>6, <2>7, <3>1
    <3>4. QED
      BY <2>3, <3>2, <3>3 DEF Turn
  <2>10. QED
    BY <2>1, <2>6, <2>8, <2>9
<1>3. FifosAreDrained
  <2> SUFFICES ASSUME clean, driver.doing \in {"idle", "walking"}, NEW f \in Fifos
               PROVE  fifo[f] <= Cardinality({c \in External : worker[c] = "woke" /\ order[c] = f})
    BY DEF FifosAreDrained
  <2> DEFINE S == {c \in External : worker[c] = "woke" /\ order[c] = f}
  <2>1. IsFiniteSet(S)
    <3>1. S \subseteq Processors /\ IsFiniteSet(Processors)
      BY CycleAssumption DEF External
    <3>2. QED
      BY <3>1, FS_Subset
  <2>2. fifo[f] <= Own(f) /\ fifo[f] \in Int
    BY <1>0 DEF CycleIInv, WalkKept
  <2>3. Owed(f) => S # {}
    BY DEF Owed
  <2> HIDE DEF S
  <2>4. Cardinality(S) \in Nat /\ (S # {} => Cardinality(S) # 0)
    BY <2>1, FS_CardinalityType, FS_EmptySet
  <2>5. fifo[f] <= Cardinality(S)
    <3>1. CASE Owed(f)
      BY <2>2, <2>3, <2>4, <3>1 DEF Own
    <3>2. CASE ~Owed(f)
      BY <2>2, <2>4, <3>2 DEF Own
    <3>3. QED
      BY <3>1, <3>2
  <2>6. QED
    BY <2>5 DEF S
<1>4. ErrorsAreCounted
  <2>1. problems \in Nat
    BY DEF CycleIInv, CycleTypeOK
  <2>2. Failed => problems > IF server.doing = "telling" THEN server.took ELSE 0
    BY DEF CycleIInv, FailuresKept
  <2>3. Failed => problems > 0
    BY <1>0, <2>1, <2>2
  <2>4. QED
    BY <2>3 DEF ErrorsAreCounted, Failed
<1>5. QED
  BY <1>1, <1>2, <1>3, <1>4, ChainIsKeptWhole DEF CycleInv, CycleIInv

------------------------------------------------------------------------------
(* The server thread.                                                          *)

\* Whatever makes the list l and chains it.
LEMMA ReordersKeeps ==
    ASSUME CycleIInv, Unlocked, NEW l \in Seq(Processors), Distinct(l),
           NEW took \in Nat, took <= problems, Reorders(l, took),
           UNCHANGED <<driver, ran, problems, order>>, upsets' \in 0 .. MaxUpsets,
           errors' \in [Processors -> 0 .. 2], worker' \in [External -> Workers],
           \A c \in External : worker'[c] = "processing" => worker[c] = "processing",
           \A c \in Processors : errors'[c] # 0 => c \in ToSet(l) \cap External,
           (\E c \in ToSet(l) : errors'[c] # 0) => problems > took
    PROVE  CycleIInv'
<1>0. /\ clients' = l /\ chain' = jack_rechain_graph(l) /\ fifo' = [f \in Fifos |-> 0]
      /\ server' = [doing |-> "telling", tell |-> Keeping(l, External), took |-> took]
      /\ clean' = \A c \in External : worker[c] # "processing"
      /\ Active' = ToSet(l)
  BY DEF Reorders, jack_clear_fifos, Active
<1>1. Kept(l, External, Len(l), Keeping(l, External))
  BY KeepingKeeps
<1>2. PICK s \in Seq(External) : s = Keeping(l, External)
  BY <1>1 DEF Kept
<1>3. server'.doing = "telling" /\ server'.tell = s /\ server'.took = took
      /\ server' \in [doing : {"polling", "telling"}, tell : Seq(External), took : Nat]
  BY <1>0, <1>2
<1>4. driver.doing = "idle" /\ driver' = driver
  BY DEF Unlocked
<1>5. CycleTypeOK'
  <2>1. clients' \in Seq(Processors)
    BY <1>0
  <2>2. chain' \in [Processors -> [start : Fifos \cup {None}, wait : Fifos \cup {None}, order : Fifos \cup {None}]]
    BY <1>0, RechainIsWhole
  <2>3. fifo' \in [Fifos -> 0 .. MaxBytes]
    <3>1. 0 \in 0 .. MaxBytes
      BY CycleAssumption
    <3>2. QED
      BY <1>0, <3>1
  <2>4. order' \in [External -> Fifos] /\ problems' \in Nat
    BY DEF CycleIInv, CycleTypeOK
  <2>5. QED
    BY <2>1, <2>2, <2>3, <2>4 DEF CycleTypeOK
<1>6. ServerKept'
  <2>1. driver' \in [doing : {"idle", "walking", "waiting", "cut"}, at : Nat] /\ ran' \in [Processors -> Nat]
    BY DEF CycleIInv, ServerKept
  <2>2. clean' \in BOOLEAN
    BY <1>0
  <2>3. Distinct(clients')
    BY <1>0
  <2>4. WholeChain(clients', chain')
    BY <1>0, RechainIsWhole
  <2>5. \A i \in 1 .. Len(s) : s[i] \in ToSet(l)
    <3> SUFFICES ASSUME NEW i \in 1 .. Len(s) PROVE s[i] \in ToSet(l)
      OBVIOUS
    <3>1. \E j \in 1 .. Len(l) : s[i] = l[j]
      BY <1>1, <1>2 DEF Kept
    <3>2. QED
      BY <3>1, ActiveIs
  <2>6. server'.took <= problems' /\ driver'.doing = "idle"
    BY <1>3, <1>4
  <2>7. \A i \in 1 .. Len(server'.tell) : server'.tell[i] \in Active'
    BY <1>0, <1>3, <2>5
  <2>8. QED
    BY <1>3, <2>1, <2>2, <2>3, <2>4, <2>6, <2>7 DEF ServerKept, Distinct, WholeChain
<1>7. FailuresKept'
  <2>1. \A c \in Processors : errors'[c] # 0 => c \in Active' \cap External
    BY <1>0
  <2>2. Failed' => problems' > took
    BY <1>0 DEF Failed
  <2>3. QED
    BY <1>3, <2>1, <2>2 DEF FailuresKept
<1>8. \A f \in Fifos : fifo'[f] = 0
  BY <1>0
<1>9. ASSUME clean' PROVE Resting'
  BY <1>0, <1>9 DEF Resting
<1>10. ToldKept'
  <2>1. ASSUME NEW c \in Active' \cap External PROVE \E i \in 1 .. Len(server'.tell) : server'.tell[i] = c
    <3>1. PICK j \in 1 .. Len(l) : l[j] = c
      BY <1>0, ActiveIs
    <3>2. \E i \in 1 .. Len(s) : s[i] = l[j]
      BY <1>1, <1>2, <3>1 DEF Kept
    <3>3. QED
      BY <1>3, <3>1, <3>2
  <2>2. QED
    BY <1>4, <1>8, <1>9, <2>1 DEF ToldKept
<1>11. WalkKept'
  BY <1>4, <1>8, <1>9 DEF WalkKept, Own
<1>12. TurnKept'
  BY <1>4 DEF TurnKept
<1>13. QED
  BY <1>5, <1>6, <1>7, <1>10, <1>11, <1>12 DEF CycleIInv

LEMMA JoinsKeeps ==
    ASSUME CycleIInv, NEW c \in Processors, Joins(c)
    PROVE  CycleIInv'
<1> DEFINE l == <<c>> \o clients
<1>0. /\ clients \in Seq(Processors) /\ errors \in [Processors -> 0 .. 2] /\ worker \in [External -> Workers]
      /\ problems \in Nat /\ upsets \in 0 .. MaxUpsets /\ Distinct(clients) /\ Len(clients) \in Nat
  BY DEF CycleIInv, CycleTypeOK, ServerKept
<1>1. /\ Unlocked /\ upsets < MaxUpsets /\ c \notin Active /\ Reorders(l, 0)
      /\ worker' = IF c \in External THEN [worker EXCEPT ![c] = "polling"] ELSE worker
      /\ upsets' = upsets + 1 /\ UNCHANGED <<order, errors, problems, driver, ran>>
  BY DEF Joins
<1>2. l \in Seq(Processors) /\ Len(l) = Len(clients) + 1 /\ l[1] = c /\ \A i \in 2 .. Len(l) : l[i] = clients[i - 1] /\ i - 1 \in 1 .. Len(clients)
  BY <1>0
<1> HIDE DEF l
<1>3. \A i \in 1 .. Len(clients) : clients[i] # c
  BY <1>0, <1>1, ActiveIs DEF Active
<1>4. Distinct(l)
  <2> SUFFICES ASSUME NEW i \in 1 .. Len(l), NEW j \in 1 .. Len(l), l[i] = l[j] PROVE i = j
    BY DEF Distinct
  <2>1. CASE i = 1 /\ j = 1
    BY <2>1
  <2>2. CASE i = 1 /\ j # 1
    <3>1. j \in 2 .. Len(l)
      BY <2>2
    <3>2. QED
      BY <1>2, <1>3, <2>2, <3>1
  <2>3. CASE i # 1 /\ j = 1
    <3>1. i \in 2 .. Len(l)
      BY <2>3
    <3>2. QED
      BY <1>2, <1>3, <2>3, <3>1
  <2>4. CASE i # 1 /\ j # 1
    <3>1. i \in 2 .. Len(l) /\ j \in 2 .. Len(l)
      BY <2>4
    <3>2. i - 1 = j - 1
      BY <1>0, <1>2, <3>1 DEF Distinct
    <3>3. QED
      BY <3>1, <3>2
  <2>5. QED
    BY <2>1, <2>2, <2>3, <2>4
<1>5. ASSUME NEW d \in Active PROVE d \in ToSet(l)
  <2>1. PICK i \in 1 .. Len(clients) : clients[i] = d
    BY <1>0, <1>5, ActiveIs DEF Active
  <2>2. i + 1 \in 2 .. Len(l) /\ i + 1 \in 1 .. Len(l) /\ i + 1 - 1 = i
    BY <1>0, <1>2
  <2>3. l[i + 1] = d
    BY <1>2, <2>1, <2>2
  <2>4. QED
    BY <1>2, <2>2, <2>3, ActiveIs
<1>6. \A d \in Processors : errors[d] # 0 => d \in Active \cap External
  BY DEF CycleIInv, FailuresKept
<1>7. upsets' \in 0 .. MaxUpsets
  BY <1>0, <1>1, CycleAssumption
<1>8. worker' \in [External -> Workers] /\ \A d \in External : worker'[d] = "processing" => worker[d] = "processing"
  <2>1. "polling" \in Workers
    BY DEF Workers
  <2>2. QED
    BY <1>0, <1>1, <2>1
<1>9. (\E d \in ToSet(l) : errors'[d] # 0) => problems > 0
  <2>1. \A d \in ToSet(l) : d \in Processors
    BY <1>2, ActiveIs
  <2>2. (\E d \in Processors : errors[d] # 0) => Failed
    BY <1>6 DEF Failed
  <2>3. Failed => problems > 0
    BY <1>1 DEF CycleIInv, FailuresKept, Unlocked
  <2>4. QED
    BY <1>1, <2>1, <2>2, <2>3
<1>10. \A d \in Processors : errors'[d] # 0 => d \in ToSet(l) \cap External
  BY <1>1, <1>5, <1>6
<1>11. 0 \in Nat /\ 0 <= problems /\ errors' \in [Processors -> 0 .. 2]
  BY <1>0, <1>1
<1>12. QED
  BY <1>1, <1>2, <1>4, <1>7, <1>8, <1>9, <1>10, <1>11, ReordersKeeps

LEMMA SortsAnewKeeps ==
    ASSUME CycleIInv, NEW l \in Permuted, SortsAnew(l)
    PROVE  CycleIInv'
<1>0. /\ clients \in Seq(Processors) /\ errors \in [Processors -> 0 .. 2] /\ worker \in [External -> Workers]
      /\ problems \in Nat /\ upsets \in 0 .. MaxUpsets /\ Distinct(clients) /\ Len(clients) \in Nat
  BY DEF CycleIInv, CycleTypeOK, ServerKept
<1>1. /\ Unlocked /\ upsets < MaxUpsets /\ Reorders(l, 0)
      /\ upsets' = upsets + 1 /\ UNCHANGED <<worker, order, errors, problems, driver, ran>>
  BY DEF SortsAnew
<1>2. l \in [1 .. Len(clients) -> Active] /\ ToSet(l) = Active
  BY DEF Permuted
<1>3. Active \subseteq Processors
  BY <1>0, ActiveIs DEF Active
<1>4. l \in Seq(Processors) /\ Len(l) = Len(clients)
  <2>1. l \in [1 .. Len(clients) -> Processors]
    BY <1>2, <1>3
  <2>2. QED
    BY <1>0, <2>1
<1>5. Distinct(l)
  <2>1. clients \in [1 .. Len(clients) -> Active]
    BY <1>0, ActiveIs DEF Active
  <2>2. clients \in Surjection(1 .. Len(clients), Active)
    <3>1. \A c \in Active : \E i \in 1 .. Len(clients) : clients[i] = c
      BY <1>0, ActiveIs DEF Active
    <3>2. QED
      BY <2>1, <3>1 DEF Surjection
  <2>3. clients \in Injection(1 .. Len(clients), Active)
    BY <1>0, <2>1 DEF Injection, IsInjective, Distinct
  <2>4. IsFiniteSet(1 .. Len(clients))
    BY <1>0, FS_Interval
  <2>5. Cardinality(Active) = Cardinality(1 .. Len(clients))
    BY <2>2, <2>3, <2>4, FS_Surjection
  <2>6. l \in Surjection(1 .. Len(clients), Active)
    <3>1. \A c \in Active : \E i \in 1 .. Len(clients) : l[i] = c
      BY <1>2, <1>4, ActiveIs
    <3>2. QED
      BY <1>2, <3>1 DEF Surjection
  <2>7. l \in Injection(1 .. Len(clients), Active)
    BY <2>4, <2>5, <2>6, FS_Surjection
  <2>8. QED
    BY <1>4, <2>7 DEF Injection, IsInjective, Distinct
<1>6. \A d \in Processors : errors[d] # 0 => d \in Active \cap External
  BY DEF CycleIInv, FailuresKept
<1>7. upsets' \in 0 .. MaxUpsets
  BY <1>0, <1>1, CycleAssumption
<1>8. (\E d \in ToSet(l) : errors'[d] # 0) => problems > 0
  BY <1>1, <1>2 DEF CycleIInv, FailuresKept, Unlocked, Failed
<1>9. worker' \in [External -> Workers] /\ \A d \in External : worker'[d] = "processing" => worker[d] = "processing"
  BY <1>0, <1>1
<1>10. \A d \in Processors : errors'[d] # 0 => d \in ToSet(l) \cap External
  BY <1>1, <1>2, <1>6
<1>11. 0 \in Nat /\ 0 <= problems /\ errors' \in [Processors -> 0 .. 2]
  BY <1>0, <1>1
<1>12. QED
  BY <1>1, <1>4, <1>5, <1>7, <1>8, <1>9, <1>10, <1>11, ReordersKeeps

LEMMA RemovesClientsKeeps ==
    ASSUME CycleIInv, RemovesClients
    PROVE  CycleIInv'
<1> DEFINE S == {c \in Active : errors[c] = 0}
<1>0. /\ clients \in Seq(Processors) /\ worker \in [External -> Workers]
      /\ problems \in Nat /\ upsets \in 0 .. MaxUpsets /\ Distinct(clients) /\ Len(clients) \in Nat
  BY DEF CycleIInv, CycleTypeOK, ServerKept
<1>1. PICK l : l = Keeping(clients, S)
  OBVIOUS
<1>2. /\ Unlocked /\ Reorders(l, problems) /\ errors' = [c \in Processors |-> 0]
      /\ UNCHANGED <<worker, order, problems, driver, ran, upsets>>
  BY <1>1 DEF RemovesClients
<1>3. Kept(clients, S, Len(clients), l)
  BY <1>0, <1>1, KeepingKeeps
<1>4. S \subseteq Processors
  BY <1>0, ActiveIs DEF Active
<1>5. l \in Seq(Processors) /\ Distinct(l)
  <2>1. l \in Seq(S) /\ Distinct(l)
    BY <1>3 DEF Kept
  <2>2. QED
    BY <1>4, <2>1
<1>6. \A d \in Processors : errors'[d] = 0
  BY <1>2
<1>7. ToSet(l) \subseteq Processors
  BY <1>5, ActiveIs
<1>8. errors' \in [Processors -> 0 .. 2]
  BY <1>2
<1>9. worker' \in [External -> Workers] /\ (\A d \in External : worker'[d] = "processing" => worker[d] = "processing")
      /\ upsets' \in 0 .. MaxUpsets /\ problems <= problems
  BY <1>0, <1>2
<1>10. /\ \A d \in Processors : errors'[d] # 0 => d \in ToSet(l) \cap External
       /\ (\E d \in ToSet(l) : errors'[d] # 0) => problems > problems
  BY <1>6, <1>7
<1>11. QED
  BY <1>0, <1>2, <1>5, <1>8, <1>9, <1>10, ReordersKeeps

LEMMA UnloadsKeeps ==
    ASSUME CycleIInv, NEW c \in Processors, Unloads(c)
    PROVE  CycleIInv'
<1>0. /\ clients \in Seq(Processors) /\ Distinct(clients) /\ Len(clients) \in Nat /\ upsets \in 0 .. MaxUpsets
  BY DEF CycleIInv, CycleTypeOK, ServerKept
<1>1. PICK l : l = Keeping(clients, Active \ {c})
  OBVIOUS
<1>2. /\ Unlocked /\ upsets < MaxUpsets /\ c \in InProcess /\ clients' = l /\ ~clean' /\ clean' \in BOOLEAN /\ upsets' = upsets + 1
      /\ UNCHANGED <<chain, fifo, worker, order, errors, problems, driver, server, ran>>
  BY <1>1 DEF Unloads
<1>3. Kept(clients, Active \ {c}, Len(clients), l)
  BY <1>0, <1>1, KeepingKeeps
<1>4. Active \ {c} \subseteq Processors
  BY <1>0, ActiveIs DEF Active
<1>5. l \in Seq(Processors) /\ Distinct(l) /\ l \in Seq(Active \ {c})
  <2>1. l \in Seq(Active \ {c}) /\ Distinct(l)
    BY <1>3 DEF Kept
  <2>2. QED
    BY <1>4, <2>1
<1>6. Active' = Active \ {c}
  <2>1. Active' = ToSet(l)
    BY <1>2 DEF Active
  <2>2. ASSUME NEW d \in ToSet(l) PROVE d \in Active \ {c}
    BY <1>5, ActiveIs
  <2>3. ASSUME NEW d \in Active \ {c} PROVE d \in ToSet(l)
    <3>1. PICK j \in 1 .. Len(clients) : clients[j] = d
      BY <1>0, ActiveIs DEF Active
    <3>2. \E k \in 1 .. Len(l) : l[k] = clients[j]
      BY <1>3, <3>1 DEF Kept
    <3>3. QED
      BY <1>5, <3>1, <3>2, ActiveIs
  <2>4. QED
    BY <2>1, <2>2, <2>3
<1>7. server.doing = "polling" /\ driver.doing = "idle"
  BY <1>2 DEF Unlocked
<1>8. CycleTypeOK'
  <2>1. upsets' \in 0 .. MaxUpsets
    BY <1>0, <1>2, CycleAssumption
  <2>2. clients' \in Seq(Processors)
    BY <1>2, <1>5
  <2>3. QED
    BY <1>2, <2>1, <2>2 DEF CycleIInv, CycleTypeOK
<1>9. ServerKept'
  <2>1. server.tell = <<>>
    BY <1>7 DEF CycleIInv, ServerKept
  <2>2. \A i \in 1 .. Len(server'.tell) : server'.tell[i] \in Active'
    BY <1>2, <2>1
  <2>3. Distinct(clients')
    BY <1>2, <1>5
  <2>4. QED
    BY <1>2, <1>7, <2>1, <2>2, <2>3 DEF CycleIInv, ServerKept, Distinct
<1>10. FailuresKept'
  <2>1. c \notin External
    BY <1>2 DEF External
  <2>2. QED
    BY <1>2, <1>6, <1>7, <2>1 DEF CycleIInv, FailuresKept, Failed
<1>11. ToldKept' /\ WalkKept' /\ TurnKept'
  BY <1>2 DEF ToldKept, WalkKept, TurnKept
<1>12. QED
  BY <1>8, <1>9, <1>10, <1>11 DEF CycleIInv

LEMMA TellsKeeps ==
    ASSUME CycleIInv, Acknowledges \/ DoesNotAnswer
    PROVE  CycleIInv'
<1>0. /\ server \in [doing : {"polling", "telling"}, tell : Seq(External), took : Nat] /\ server.tell # <<>>
      /\ clients \in Seq(Processors) /\ order \in [External -> Fifos] /\ errors \in [Processors -> 0 .. 2] /\ problems \in Nat
  BY DEF CycleIInv, CycleTypeOK, ServerKept, Acknowledges, DoesNotAnswer
<1>1. PICK s \in Seq(External) : s = server.tell
  BY <1>0
<1>2. PICK c \in External : c = Head(s) /\ c = s[1]
  BY <1>0, <1>1
<1>3. Tail(s) \in Seq(External) /\ Len(Tail(s)) = Len(s) - 1 /\ Len(s) \in Nat /\ Len(s) # 0
      /\ \A i \in 1 .. Len(Tail(s)) : i + 1 \in 1 .. Len(s) /\ Tail(s)[i] = s[i + 1]
  BY <1>0, <1>1
<1>4. server.doing = "telling"
  BY <1>0 DEF CycleIInv, ServerKept
<1>5. c \in Active
  <2>1. 1 \in 1 .. Len(server.tell) /\ server.tell[1] = c
    BY <1>1, <1>2, <1>3
  <2>2. QED
    BY <2>1 DEF CycleIInv, ServerKept
<1>6. WholeChain(clients, chain) /\ driver.doing = "idle" /\ server.took <= problems /\ server.took \in Nat
  BY <1>0, <1>4 DEF CycleIInv, ServerKept
<1>7. chain[c].order \in Fifos
  <2>1. PICK i \in 1 .. Len(clients) : clients[i] = c
    BY <1>0, <1>5, ActiveIs DEF Active
  <2>2. QED
    BY <1>2, <1>6, <2>1 DEF WholeChain
<1>8. c \in Processors
  BY <1>2 DEF External
<1>9. /\ UNCHANGED <<clients, chain, fifo, worker, driver, ran, clean, upsets>>
      /\ server' = [server EXCEPT !.tell = Tail(s)]
      /\ \/ worker[c] = "polling" /\ order' = [order EXCEPT ![c] = chain[c].order] /\ UNCHANGED <<errors, problems>>
         \/ errors' = [errors EXCEPT ![c] = 2] /\ problems' = problems + 1 /\ UNCHANGED order
  BY <1>1, <1>2 DEF Acknowledges, DoesNotAnswer
<1>10. /\ server' \in [doing : {"polling", "telling"}, tell : Seq(External), took : Nat]
       /\ server'.doing = "telling" /\ server'.tell = Tail(s) /\ server'.took = server.took
  BY <1>0, <1>3, <1>4, <1>9
<1>11. order' \in [External -> Fifos] /\ errors' \in [Processors -> 0 .. 2] /\ problems' \in Nat /\ problems <= problems'
  <2>1. [order EXCEPT ![c] = chain[c].order] \in [External -> Fifos]
    BY <1>0, <1>7
  <2>2. [errors EXCEPT ![c] = 2] \in [Processors -> 0 .. 2]
    <3>1. 2 \in 0 .. 2
      OBVIOUS
    <3>2. QED
      BY <1>0, <3>1
  <2>3. problems + 1 \in Nat /\ problems <= problems + 1 /\ problems <= problems
    BY <1>0
  <2>4. QED
    BY <1>0, <1>9, <2>1, <2>2, <2>3
<1>12. CycleTypeOK'
  BY <1>9, <1>11 DEF CycleIInv, CycleTypeOK
<1>13. ServerKept'
  <2>1. \A i \in 1 .. Len(Tail(s)) : Tail(s)[i] \in Active
    BY <1>1, <1>3 DEF CycleIInv, ServerKept
  <2>2. server'.took <= problems'
    BY <1>0, <1>6, <1>10, <1>11
  <2>3. Active' = Active
    BY <1>9 DEF Active
  <2>4. \A i \in 1 .. Len(server'.tell) : server'.tell[i] \in Active'
    BY <1>10, <2>1, <2>3
  <2>5. QED
    BY <1>6, <1>9, <1>10, <2>2, <2>4 DEF CycleIInv, ServerKept, Distinct, WholeChain
<1>14. FailuresKept'
  <2>1. Active' = Active
    BY <1>9 DEF Active
  <2>2. \A d \in Processors : errors'[d] = errors[d] \/ d = c
    BY <1>0, <1>9
  <2>3. \A d \in Processors : errors'[d] # 0 => d \in Active' \cap External
    BY <1>2, <1>5, <2>1, <2>2 DEF CycleIInv, FailuresKept
  <2>4. ASSUME Failed' PROVE problems' > server'.took
    <3>1. CASE UNCHANGED <<errors, problems>>
      <4>1. Failed
        BY <2>1, <2>4, <3>1 DEF Failed
      <4>2. QED
        BY <1>4, <1>10, <3>1, <4>1 DEF CycleIInv, FailuresKept
    <3>2. CASE problems' = problems + 1
      BY <1>0, <1>6, <1>10, <3>2
    <3>3. QED
      BY <1>9, <3>1, <3>2
  <2>5. QED
    BY <1>10, <2>3, <2>4 DEF FailuresKept
<1>15. ToldKept'
  <2> SUFFICES ASSUME clean PROVE ToldKept'
    BY <1>9 DEF ToldKept
  <2>1. driver.doing = "idle" /\ Resting /\ \A f \in Fifos : fifo[f] = 0
    BY <1>4 DEF CycleIInv, ToldKept
  <2>2. driver'.doing = "idle" /\ Resting' /\ \A f \in Fifos : fifo'[f] = 0
    BY <1>9, <2>1 DEF Resting
  <2>3. ASSUME NEW d \in Active' \cap External
        PROVE  \/ \E i \in 1 .. Len(server'.tell) : server'.tell[i] = d
               \/ errors'[d] # 0
               \/ order'[d] = chain'[d].order /\ worker'[d] # "gone"
    <3>0. d \in Active \cap External /\ d \in Processors /\ d \in External
      BY <1>9, <2>3 DEF Active, External
    <3>1. CASE d = c
      <4>1. CASE worker[c] = "polling" /\ order' = [order EXCEPT ![c] = chain[c].order] /\ UNCHANGED <<errors, problems>>
        BY <1>0, <1>2, <1>9, <3>1, <4>1
      <4>2. CASE errors' = [errors EXCEPT ![c] = 2]
        BY <1>0, <1>8, <3>1, <4>2
      <4>3. QED
        BY <1>9, <4>1, <4>2
    <3>2. CASE d # c
      <4>1. errors'[d] = errors[d] /\ order'[d] = order[d] /\ chain' = chain /\ worker' = worker
        BY <1>0, <1>9, <3>0, <3>2
      <4>2. \/ \E i \in 1 .. Len(s) : s[i] = d
            \/ errors[d] # 0
            \/ order[d] = chain[d].order /\ worker[d] # "gone"
        BY <1>1, <3>0 DEF CycleIInv, ToldKept
      <4>3. ASSUME NEW i \in 1 .. Len(s), s[i] = d PROVE \E j \in 1 .. Len(Tail(s)) : Tail(s)[j] = d
        <5>1. i # 1
          BY <1>2, <3>2, <4>3
        <5>2. i - 1 \in 1 .. Len(Tail(s)) /\ i - 1 + 1 = i
          BY <1>3, <5>1
        <5>3. Tail(s)[i - 1] = s[i - 1 + 1]
          BY <1>3, <5>2
        <5>4. QED
          BY <4>3, <5>2, <5>3
      <4>4. QED
        BY <1>10, <4>1, <4>2, <4>3
    <3>3. QED
      BY <3>1, <3>2
  <2>4. QED
    BY <2>2, <2>3 DEF ToldKept
<1>16. WalkKept'
  <2> SUFFICES ASSUME clean PROVE WalkKept'
    BY <1>9 DEF WalkKept
  <2>1. driver.doing = "idle" /\ Resting /\ \A f \in Fifos : fifo[f] = 0
    BY <1>4 DEF CycleIInv, ToldKept
  <2>2. driver'.doing = "idle" /\ Resting' /\ \A f \in Fifos : fifo'[f] = 0
    BY <1>9, <2>1 DEF Resting
  <2>3. QED
    BY <2>2 DEF WalkKept, Own
<1>17. TurnKept'
  BY <1>6, <1>9 DEF TurnKept
<1>18. QED
  BY <1>12, <1>13, <1>14, <1>15, <1>16, <1>17 DEF CycleIInv

LEMMA ToldKeeps ==
    ASSUME CycleIInv, Told
    PROVE  CycleIInv'
<1>0. /\ server \in [doing : {"polling", "telling"}, tell : Seq(External), took : Nat] /\ problems \in Nat
      /\ server.doing = "telling" /\ server.tell = <<>> /\ driver.doing = "idle"
      /\ server.took <= problems /\ server.took \in Nat
  BY DEF CycleIInv, CycleTypeOK, ServerKept, Told
<1>1. /\ server' = [server EXCEPT !.doing = "polling"] /\ problems' = problems - server.took
      /\ UNCHANGED <<clients, chain, fifo, worker, order, errors, driver, ran, clean, upsets>>
  BY DEF Told
<1>2. /\ server' \in [doing : {"polling", "telling"}, tell : Seq(External), took : Nat]
      /\ server'.doing = "polling" /\ server'.tell = <<>> /\ server'.took = server.took /\ problems' \in Nat
  BY <1>0, <1>1
<1>3. Active' = Active /\ Failed' = Failed /\ Resting' = Resting
  BY <1>1 DEF Active, Failed, Resting
<1>4. CycleTypeOK'
  BY <1>1, <1>2 DEF CycleIInv, CycleTypeOK
<1>5. ServerKept'
  BY <1>0, <1>1, <1>2 DEF CycleIInv, ServerKept, Distinct, WholeChain
<1>6. FailuresKept'
  <2>1. Failed => problems > server.took
    BY <1>0 DEF CycleIInv, FailuresKept
  <2>2. Failed' => problems' > 0
    BY <1>0, <1>1, <1>3, <2>1
  <2>3. QED
    BY <1>1, <1>2, <1>3, <2>2 DEF CycleIInv, FailuresKept
<1>7. clean => Resting /\ \A f \in Fifos : fifo[f] = 0
  BY <1>0 DEF CycleIInv, ToldKept
<1>8. ToldKept'
  <2>1. ASSUME clean, NEW c \in Active \cap External
        PROVE  errors[c] # 0 \/ (order[c] = chain[c].order /\ worker[c] # "gone")
    BY <1>0, <2>1 DEF CycleIInv, ToldKept
  <2>2. QED
    BY <1>0, <1>1, <1>2, <1>3, <1>7, <2>1 DEF ToldKept
<1>9. WalkKept'
  BY <1>0, <1>1, <1>3, <1>7 DEF WalkKept, Own
<1>10. TurnKept'
  BY <1>0, <1>1 DEF TurnKept
<1>11. QED
  BY <1>4, <1>5, <1>6, <1>8, <1>9, <1>10 DEF CycleIInv

LEMMA SeesBrokenSocketKeeps ==
    ASSUME CycleIInv, NEW c \in External, SeesBrokenSocket(c)
    PROVE  CycleIInv'
<1>0. /\ errors \in [Processors -> 0 .. 2] /\ problems \in Nat /\ c \in Processors
      /\ server.doing = "polling" /\ server.tell = <<>>
      /\ c \in Active \cap External /\ worker[c] = "gone"
  BY DEF CycleIInv, CycleTypeOK, ServerKept, SeesBrokenSocket, External
<1>1. /\ errors' = [errors EXCEPT ![c] = 2] /\ problems' = problems + 1
      /\ UNCHANGED <<clients, chain, fifo, worker, order, driver, server, ran, clean, upsets>>
  BY DEF SeesBrokenSocket
<1>2. errors' \in [Processors -> 0 .. 2] /\ problems' \in Nat /\ problems' > 0
      /\ \A d \in Processors : errors'[d] = IF d = c THEN 2 ELSE errors[d]
  BY <1>0, <1>1
<1>3. Active' = Active /\ Resting' = Resting /\ \A f \in Fifos : Own(f)' = Own(f)
  BY <1>1 DEF Active, Resting, Own, Owed
<1>4. CycleTypeOK'
  BY <1>1, <1>2 DEF CycleIInv, CycleTypeOK
<1>5. ServerKept'
  BY <1>0, <1>1 DEF CycleIInv, ServerKept, Distinct, WholeChain, Active
<1>6. FailuresKept'
  BY <1>0, <1>1, <1>2, <1>3 DEF CycleIInv, FailuresKept
<1>7. clean => Failed
  BY <1>0 DEF CycleIInv, ToldKept, Failed
<1>8. clean => driver.doing = "idle" /\ Resting /\ \A f \in Fifos : fifo[f] = 0
  BY <1>7 DEF CycleIInv, ToldKept
<1>9. ToldKept'
  <2>1. ASSUME clean, NEW d \in Active \cap External
        PROVE  errors'[d] # 0 \/ (order[d] = chain[d].order /\ worker[d] # "gone")
    <3>1. d \in Processors
      BY <2>1 DEF External
    <3>2. errors[d] # 0 \/ (order[d] = chain[d].order /\ worker[d] # "gone")
      BY <1>0, <2>1 DEF CycleIInv, ToldKept
    <3>3. QED
      BY <1>2, <3>1, <3>2
  <2>2. QED
    BY <1>1, <1>3, <1>8, <2>1 DEF ToldKept
<1>10. WalkKept'
  BY <1>1, <1>3, <1>8 DEF WalkKept, Own
<1>11. TurnKept'
  BY <1>1, <1>8 DEF TurnKept
<1>12. QED
  BY <1>4, <1>5, <1>6, <1>9, <1>10, <1>11 DEF CycleIInv

------------------------------------------------------------------------------
(* The driver thread.                                                          *)

LEMMA PutIs ==
    ASSUME fifo \in [Fifos -> 0 .. MaxBytes], NEW x
    PROVE  /\ Put(x) \in [Fifos -> 0 .. MaxBytes] /\ Take(x) \in [Fifos -> 0 .. MaxBytes]
           /\ \A f \in Fifos : /\ f # x => Put(x)[f] = fifo[f] /\ Take(x)[f] = fifo[f]
                               /\ f = x => /\ Put(x)[f] <= fifo[f] + 1
                                          /\ Take(x)[f] = IF fifo[f] = 0 THEN 0 ELSE fifo[f] - 1
<1>1. MaxBytes \in Nat
  BY CycleAssumption
<1>2. \A n \in 0 .. MaxBytes : /\ (IF n = MaxBytes THEN n ELSE n + 1) \in 0 .. MaxBytes
                               /\ (IF n = 0 THEN 0 ELSE n - 1) \in 0 .. MaxBytes
                               /\ (IF n = MaxBytes THEN n ELSE n + 1) <= n + 1
  BY <1>1
<1>3. CASE x \in Fifos
  <2>1. fifo[x] \in 0 .. MaxBytes
    BY <1>3
  <2>2. QED
    BY <1>2, <1>3, <2>1 DEF Put, Take
<1>4. CASE x \notin Fifos
  <2>1. Put(x) = fifo /\ Take(x) = fifo
    BY <1>4 DEF Put, Take
  <2>2. QED
    BY <1>4, <2>1
<1>5. QED
  BY <1>3, <1>4

\* A step of the driver that leaves the list, its clients and their errors alone.
LEMMA DriverKeeps ==
    ASSUME CycleIInv, server.doing = "polling",
           UNCHANGED <<clients, chain, worker, order, server>>,
           driver' \in [doing : {"idle", "walking", "waiting", "cut"}, at : Nat], ran' \in [Processors -> Nat],
           fifo' \in [Fifos -> 0 .. MaxBytes], problems' \in Nat, upsets' \in 0 .. MaxUpsets,
           errors' \in [Processors -> 0 .. 2], clean' \in BOOLEAN, clean' => clean /\ errors' = errors,
           \A c \in Processors : errors'[c] # 0 => c \in Active \cap External,
           Failed' => problems' > 0,
           clean' /\ Failed => driver'.doing = "idle" /\ UNCHANGED fifo
    PROVE  CycleTypeOK' /\ ServerKept' /\ FailuresKept' /\ ToldKept'
<1>1. CycleTypeOK'
  BY DEF CycleIInv, CycleTypeOK
<1>2. Active' = Active
  BY DEF Active
<1>3. ServerKept'
  BY <1>2 DEF CycleIInv, ServerKept, Distinct, WholeChain
<1>4. FailuresKept'
  BY <1>2 DEF FailuresKept
<1>5. ToldKept'
  <2> SUFFICES ASSUME clean' PROVE ToldKept'
    BY DEF ToldKept
  <2>1. Failed' = Failed /\ Resting' = Resting
    BY <1>2 DEF Failed, Resting
  <2>2. QED
    BY <1>2, <2>1 DEF CycleIInv, ToldKept
<1>6. QED
  BY <1>1, <1>3, <1>4, <1>5

LEMMA StartsCycleKeeps ==
    ASSUME CycleIInv, StartsCycle
    PROVE  CycleIInv'
<1>0. /\ server.doing = "polling" /\ driver.doing = "idle" /\ problems = 0
      /\ driver' = [doing |-> "walking", at |-> 1] /\ ran' = [c \in Processors |-> 0]
      /\ UNCHANGED <<clients, chain, fifo, worker, order, errors, problems, server, clean, upsets>>
  BY DEF StartsCycle, Unlocked
<1>1. ~Failed
  BY <1>0 DEF CycleIInv, FailuresKept
<1>2. Active' = Active /\ Failed' = Failed /\ Resting' = Resting /\ \A f \in Fifos : Own(f)' = Own(f)
  BY <1>0 DEF Active, Failed, Resting, Own, Owed
<1>3. clients \in Seq(Processors) /\ Len(clients) \in Nat
  BY DEF CycleIInv, CycleTypeOK
<1>4. CycleTypeOK' /\ ServerKept' /\ FailuresKept' /\ ToldKept'
  <2>1. driver' \in [doing : {"idle", "walking", "waiting", "cut"}, at : Nat] /\ ran' \in [Processors -> Nat]
    BY <1>0
  <2>2. QED
    BY <1>0, <1>1, <1>2, <2>1, DriverKeeps DEF CycleIInv, CycleTypeOK, ServerKept, FailuresKept
<1>5. WalkKept'
  <2> SUFFICES ASSUME clean PROVE WalkKept'
    BY <1>0 DEF WalkKept
  <2>1. Resting /\ \A f \in Fifos : fifo[f] <= Own(f)
    BY <1>0 DEF CycleIInv, WalkKept
  <2>2. Resting' /\ \A f \in Fifos : fifo'[f] <= Own(f)'
    BY <1>0, <1>2, <2>1
  <2>3. driver'.at = 1 /\ 1 \in 1 .. Len(clients') + 1
    BY <1>0, <1>3
  <2>4. \A i \in 1 .. Len(clients') : ran'[clients'[i]] = IF i < 1 THEN 1 ELSE 0
    BY <1>0, <1>3
  <2>5. Begins(clients', 1)
    BY DEF Begins
  <2>6. QED
    BY <2>2, <2>3, <2>4, <2>5 DEF WalkKept
<1>6. TurnKept'
  BY <1>0 DEF TurnKept
<1>7. QED
  BY <1>4, <1>5, <1>6 DEF CycleIInv

LEMMA CallsInternalKeeps ==
    ASSUME CycleIInv, NEW fails \in BOOLEAN, CallsInternal(fails)
    PROVE  CycleIInv'
<1>0. /\ driver.doing = "walking" /\ driver.at <= Len(clients) /\ clients[driver.at] \in InProcess
      /\ ran' = [ran EXCEPT ![clients[driver.at]] = @ + 1]
      /\ driver' = IF fails THEN [driver EXCEPT !.doing = "cut"] ELSE [driver EXCEPT !.at = @ + 1]
      /\ UNCHANGED <<clients, chain, fifo, worker, order, errors, problems, server, clean, upsets>>
  BY DEF CallsInternal
<1>1. /\ clients \in Seq(Processors) /\ Len(clients) \in Nat
      /\ driver \in [doing : {"idle", "walking", "waiting", "cut"}, at : Nat] /\ ran \in [Processors -> Nat]
      /\ server.doing = "polling"
  BY <1>0 DEF CycleIInv, CycleTypeOK, ServerKept
<1>2. Active' = Active /\ Failed' = Failed /\ Resting' = Resting /\ \A f \in Fifos : Own(f)' = Own(f)
  BY <1>0 DEF Active, Failed, Resting, Own, Owed
<1>3. /\ driver' \in [doing : {"idle", "walking", "waiting", "cut"}, at : Nat]
      /\ driver'.doing = (IF fails THEN "cut" ELSE "walking")
      /\ driver'.at = (IF fails THEN driver.at ELSE driver.at + 1)
      /\ driver.at \in Nat
  BY <1>0, <1>1
<1>4. ran' \in [Processors -> Nat]
  <2>1. clients[driver.at] \in Processors
    BY <1>0, CycleAssumption
  <2>2. ran[clients[driver.at]] + 1 \in Nat
    BY <1>1, <2>1
  <2>3. QED
    BY <1>0, <1>1, <2>2
<1>5. clean => ~Failed
  BY <1>0 DEF CycleIInv, ToldKept
<1>6. CycleTypeOK' /\ ServerKept' /\ FailuresKept' /\ ToldKept'
  BY <1>0, <1>1, <1>2, <1>3, <1>4, <1>5, DriverKeeps DEF CycleIInv, CycleTypeOK, ServerKept, FailuresKept
<1>7. WalkKept'
  <2> SUFFICES ASSUME clean PROVE WalkKept'
    BY <1>0 DEF WalkKept
  <2>1. /\ Resting /\ \A f \in Fifos : fifo[f] <= Own(f)
        /\ driver.at \in 1 .. Len(clients) + 1
        /\ \A i \in 1 .. Len(clients) : ran[clients[i]] = IF i < driver.at THEN 1 ELSE 0
    BY <1>0 DEF CycleIInv, WalkKept
  <2>2. Resting' /\ \A f \in Fifos : fifo'[f] <= Own(f)'
    BY <1>0, <1>2, <2>1
  <2>3. ASSUME ~fails
        PROVE  /\ driver'.at \in 1 .. Len(clients') + 1
               /\ \A i \in 1 .. Len(clients') : ran'[clients'[i]] = IF i < driver'.at THEN 1 ELSE 0
               /\ Begins(clients', driver'.at)
    <3>1. driver'.at = driver.at + 1 /\ driver.at \in 1 .. Len(clients) /\ clients' = clients
      BY <1>0, <1>1, <1>3, <2>1, <2>3
    <3>2. driver'.at \in 1 .. Len(clients') + 1
      BY <1>1, <3>1
    <3>3. ASSUME NEW i \in 1 .. Len(clients) PROVE ran'[clients[i]] = IF i < driver.at + 1 THEN 1 ELSE 0
      <4>1. clients[i] \in Processors /\ clients[driver.at] \in Processors
        BY <1>1, <3>1
      <4>2. CASE i = driver.at
        <5>1. ran[clients[i]] = 0
          BY <1>1, <2>1, <4>2
        <5>2. ran'[clients[i]] = 1
          BY <1>0, <1>1, <4>1, <4>2, <5>1
        <5>3. QED
          BY <1>1, <4>2, <5>2
      <4>3. CASE i # driver.at
        <5>1. clients[i] # clients[driver.at]
          BY <3>1, <4>3 DEF CycleIInv, ServerKept, Distinct
        <5>2. ran'[clients[i]] = ran[clients[i]]
          BY <1>0, <1>1, <4>1, <5>1
        <5>3. i < driver.at + 1 <=> i < driver.at
          BY <1>1, <3>1, <4>3
        <5>4. QED
          BY <2>1, <5>2, <5>3
      <4>4. QED
        BY <4>2, <4>3
    <3>4. PICK a \in Nat : a = driver.at + 1 /\ a - 1 = driver.at
      BY <1>3
    <3>5. clients[a - 1] \in InProcess
      BY <1>0, <3>4
    <3>a. Begins(clients, a)
      BY <3>5 DEF Begins
    <3>b. Begins(clients', driver'.at)
      BY <3>1, <3>4, <3>a
    <3>6. QED
      BY <3>1, <3>2, <3>3, <3>b
  <2>4. QED
    BY <1>3, <2>2, <2>3 DEF WalkKept
<1>8. TurnKept'
  BY <1>3 DEF TurnKept
<1>9. QED
  BY <1>6, <1>7, <1>8 DEF CycleIInv

LEMMA EndsCycleKeeps ==
    ASSUME CycleIInv, EndsCycle
    PROVE  CycleIInv'
<1>0. /\ driver.doing \in {"cut", "walking"} /\ driver' = [doing |-> "idle", at |-> 0]
      /\ problems' = (IF Failed THEN problems + 1 ELSE problems)
      /\ UNCHANGED <<clients, chain, fifo, worker, order, errors, server, ran, clean, upsets>>
  BY DEF EndsCycle, Failed
<1>1. problems \in Nat /\ server.doing = "polling"
  BY <1>0 DEF CycleIInv, CycleTypeOK, ServerKept
<1>2. Active' = Active /\ Failed' = Failed /\ Resting' = Resting /\ \A f \in Fifos : Own(f)' = Own(f)
  BY <1>0 DEF Active, Failed, Resting, Own, Owed
<1>3. problems' \in Nat /\ (Failed' => problems' > 0)
  BY <1>0, <1>1, <1>2
<1>4. driver' \in [doing : {"idle", "walking", "waiting", "cut"}, at : Nat] /\ driver'.doing = "idle"
  BY <1>0
<1>5. CycleTypeOK' /\ ServerKept' /\ FailuresKept' /\ ToldKept'
  BY <1>0, <1>1, <1>2, <1>3, <1>4, DriverKeeps DEF CycleIInv, CycleTypeOK, ServerKept, FailuresKept
<1>6. WalkKept'
  BY <1>0, <1>2, <1>4 DEF CycleIInv, WalkKept
<1>7. TurnKept'
  BY <1>4 DEF TurnKept
<1>8. QED
  BY <1>5, <1>6, <1>7 DEF CycleIInv

LEMMA TimesOutKeeps ==
    ASSUME CycleIInv, TimesOut
    PROVE  CycleIInv'
<1> DEFINE late == {c \in Active \cap External : worker[c] = "processing" /\ errors[c] = 0}
<1>0. /\ driver.doing = "waiting" /\ Moving => upsets < MaxUpsets
      /\ upsets' = (IF Moving THEN upsets + 1 ELSE upsets)
      /\ errors' = [c \in Processors |-> IF c \in late THEN 1 ELSE errors[c]]
      /\ problems' = (IF \E c \in Active : errors'[c] # 0 THEN problems + 1 ELSE problems)
      /\ driver' = [driver EXCEPT !.doing = "cut"] /\ clean' = FALSE
      /\ UNCHANGED <<clients, chain, fifo, worker, order, server, ran>>
  <2>1. driver.doing = "waiting" /\ (Moving => upsets < MaxUpsets)
    BY DEF TimesOut
  <2>2. QED
    BY <2>1 DEF TimesOut
<1>1. /\ problems \in Nat /\ server.doing = "polling" /\ upsets \in 0 .. MaxUpsets /\ errors \in [Processors -> 0 .. 2]
      /\ driver \in [doing : {"idle", "walking", "waiting", "cut"}, at : Nat]
  <2>1. driver.doing = "waiting"
    BY DEF TimesOut
  <2>2. QED
    BY <2>1 DEF CycleIInv, CycleTypeOK, ServerKept
<1>2. Active' = Active
  BY <1>0 DEF Active
<1>3. problems' \in Nat /\ (Failed' => problems' > 0)
  <2>1. Failed' <=> \E c \in Active : errors'[c] # 0
    BY <1>2 DEF Failed
  <2>2. problems' = IF Failed' THEN problems + 1 ELSE problems
    BY <1>0, <2>1
  <2>3. QED
    BY <1>1, <2>2
<1>4. driver' \in [doing : {"idle", "walking", "waiting", "cut"}, at : Nat] /\ driver'.doing = "cut"
  BY <1>0, <1>1
<1>5. errors' \in [Processors -> 0 .. 2]
  BY <1>0, <1>1
<1>6. upsets' \in 0 .. MaxUpsets
  <2>1. Moving => upsets < MaxUpsets
    BY DEF TimesOut
  <2>2. upsets' = IF Moving THEN upsets + 1 ELSE upsets
    BY DEF TimesOut
  <2>3. QED
    BY <1>1, <2>1, <2>2, CycleAssumption
<1>7. \A c \in Processors : errors'[c] # 0 => c \in Active \cap External
  <2> SUFFICES ASSUME NEW c \in Processors, errors'[c] # 0 PROVE c \in Active \cap External
    OBVIOUS
  <2>1. c \in late \/ errors[c] # 0
    BY <1>0
  <2>2. QED
    BY <2>1 DEF CycleIInv, FailuresKept
<1>8. CycleTypeOK' /\ ServerKept' /\ FailuresKept' /\ ToldKept'
  BY <1>0, <1>1, <1>3, <1>4, <1>5, <1>6, <1>7, DriverKeeps DEF CycleIInv, CycleTypeOK, ServerKept
<1>9. WalkKept' /\ TurnKept'
  BY <1>0 DEF WalkKept, TurnKept
<1>10. QED
  BY <1>8, <1>9 DEF CycleIInv

LEMMA StartsSubgraphKeeps ==
    ASSUME CycleIInv, StartsSubgraph
    PROVE  CycleIInv'
<1>0. /\ driver.doing = "walking" /\ driver.at <= Len(clients) /\ clients[driver.at] \in External
      /\ fifo' = Put(chain[clients[driver.at]].start)
      /\ driver' = [driver EXCEPT !.doing = "waiting"]
      /\ UNCHANGED <<clients, chain, worker, order, errors, problems, server, ran, clean, upsets>>
  BY DEF StartsSubgraph
<1>1. /\ clients \in Seq(Processors) /\ Len(clients) \in Nat
      /\ driver \in [doing : {"idle", "walking", "waiting", "cut"}, at : Nat]
      /\ server.doing = "polling" /\ fifo \in [Fifos -> 0 .. MaxBytes]
  BY <1>0 DEF CycleIInv, CycleTypeOK, ServerKept
<1>2. Active' = Active /\ Failed' = Failed /\ Resting' = Resting /\ \A f \in Fifos : Own(f)' = Own(f)
  BY <1>0 DEF Active, Failed, Resting, Own, Owed
<1>3. /\ driver' \in [doing : {"idle", "walking", "waiting", "cut"}, at : Nat]
      /\ driver'.doing = "waiting" /\ driver'.at = driver.at /\ driver.at \in Nat
  BY <1>0, <1>1
<1>4. fifo' \in [Fifos -> 0 .. MaxBytes]
  BY <1>0, <1>1, PutIs
<1>5. clean => ~Failed
  BY <1>0 DEF CycleIInv, ToldKept
<1>6. CycleTypeOK' /\ ServerKept' /\ FailuresKept' /\ ToldKept'
  BY <1>0, <1>1, <1>2, <1>3, <1>4, <1>5, DriverKeeps DEF CycleIInv, CycleTypeOK, ServerKept, FailuresKept
<1>7. WalkKept'
  BY <1>3 DEF WalkKept
<1>8. TurnKept'
  <2> SUFFICES ASSUME clean PROVE TurnKept'
    BY <1>0 DEF TurnKept
  <2> DEFINE h == driver.at
  <2>1. /\ Resting /\ \A f \in Fifos : fifo[f] <= Own(f)
        /\ h \in 1 .. Len(clients) + 1
        /\ \A i \in 1 .. Len(clients) : ran[clients[i]] = IF i < h THEN 1 ELSE 0
        /\ Begins(clients, h)
    BY <1>0 DEF CycleIInv, WalkKept
  <2>2. h \in 1 .. Len(clients)
    BY <1>0, <1>1, <2>1
  <2>3. PICK k \in h .. Len(clients) : (\A j \in h .. k : clients[j] \in External) /\ Ends(clients, k)
    <3>1. \A j \in 1 .. Len(clients) : clients[j] \in Processors
      BY <1>1
    <3>2. clients[h] \in External
      BY <1>0
    <3>3. QED
      BY <1>1, <2>2, <3>1, <3>2, TailExists
  <2>4. k \in 1 .. Len(clients) /\ h <= k /\ h \in h .. k + 1
    BY <1>1, <2>2
  <2>5. Subgraph(clients, h, k)
    BY <2>1, <2>3, <2>4 DEF Subgraph
  <2>6. chain[clients[h]].start = chain[clients[h]].order /\ chain[clients[h]].order \in Fifos
    BY <1>0, <2>1, <2>2 DEF CycleIInv, ServerKept, WholeChain
  <2>7. \A f \in Fifos : fifo'[f] <= Own(f) + IF f = chain[clients[h]].order + (h - h) THEN 1 ELSE 0
    <3> SUFFICES ASSUME NEW f \in Fifos PROVE fifo'[f] <= Own(f) + IF f = chain[clients[h]].order THEN 1 ELSE 0
      <4>1. chain[clients[h]].order + (h - h) = chain[clients[h]].order
        BY <2>2, <2>6 DEF Fifos
      <4>2. QED
        BY <4>1
    <3>1. fifo[f] \in 0 .. MaxBytes /\ fifo[f] <= Own(f) /\ Own(f) \in {0, 1}
      BY <1>1, <2>1 DEF Own
    <3>2. fifo'[f] \in 0 .. MaxBytes /\ fifo'[f] <= fifo[f] + IF f = chain[clients[h]].order THEN 1 ELSE 0
      BY <1>0, <1>1, <1>4, <2>6, PutIs
    <3>3. QED
      BY <3>1, <3>2, CycleAssumption
  <2>8. Turn(h, k, h)'
    <3>1. \A i \in 1 .. Len(clients) : clients[i] \in External => worker[clients[i]] # "processing"
      BY <2>1 DEF Resting
    <3>2. worker[clients[h]] # "processing"
      BY <1>0, <2>1 DEF Resting
    <3>3. \A i \in 1 .. Len(clients) :
             ran[clients[i]] = IF i < h \/ (i = h /\ h <= k /\ worker[clients[i]] = "processing") THEN 1 ELSE 0
      BY <2>1, <3>2
    <3>4. \A c \in External : worker[c] = "processing" => h <= k /\ c = clients[h]
      BY <2>1 DEF Resting
    <3>5. \A f \in Fifos : fifo'[f] <= Own(f)' + IF f = chain[clients[h]].order + (h - h) THEN 1 ELSE 0
      BY <1>2, <2>7
    <3>6. QED
      BY <1>0, <1>3, <2>5, <3>3, <3>4, <3>5 DEF Turn, Subgraph, Begins, Ends
  <2>9. QED
    <3>1. driver'.at = h /\ clients' = clients
      BY <1>0, <1>3
    <3>2. driver'.at \in 1 .. Len(clients')
      BY <2>2, <3>1
    <3>3. \E k2 \in 1 .. Len(clients') : \E t \in driver'.at .. k2 + 1 : Turn(h, k2, t)'
      BY <2>4, <2>8, <3>1
    <3>4. h' = h
      BY <3>1
    <3>5. QED
      BY <3>1, <3>2, <3>3 DEF TurnKept
<1>9. QED
  BY <1>6, <1>7, <1>8 DEF CycleIInv

\* Along a subgraph the FIFOs are counted.
LEMMA OrdersAlong ==
    ASSUME NEW l \in Seq(Processors), NEW ch, WholeChain(l, ch), NEW h \in 1 .. Len(l), NEW k \in 1 .. Len(l), Subgraph(l, h, k)
    PROVE  \A j \in h .. k : ch[l[j]].order = ch[l[h]].order + (j - h)
<1>0. Len(l) \in Nat /\ h \in Nat /\ k \in Nat /\ h <= k /\ k <= Len(l) /\ 1 <= h /\ \A j \in h .. k : l[j] \in External
  BY DEF Subgraph
<1>1. \A j \in h .. k : j \in 1 .. Len(l) /\ ch[l[j]].order \in Nat
  BY <1>0 DEF WholeChain, Fifos
<1> DEFINE bad == {j \in h .. k : ch[l[j]].order # ch[l[h]].order + (j - h)}
<1>2. SUFFICES ASSUME bad # {} PROVE FALSE
  OBVIOUS
<1>3. PICK j \in bad : \A m \in bad : j <= m
  <2>1. bad \in SUBSET Nat
    BY <1>0
  <2> HIDE DEF bad
  <2>2. QED
    BY <1>2, <2>1, LeastExists
<1>4. j \in h .. k /\ ch[l[j]].order # ch[l[h]].order + (j - h)
  OBVIOUS
<1>5. j # h
  BY <1>0, <1>1, <1>4
<1>6. j - 1 \in h .. k /\ j - 1 < j
  BY <1>0, <1>4, <1>5
<1>7. ch[l[j - 1]].order = ch[l[h]].order + (j - 1 - h)
  <2>1. j - 1 \notin bad
    BY <1>0, <1>3, <1>4, <1>6
  <2>2. QED
    BY <1>6, <2>1
<1>8. ~Begins(l, j)
  <2>1. l[j - 1] \in External /\ j # 1
    BY <1>0, <1>4, <1>5, <1>6
  <2>2. QED
    BY <2>1 DEF Begins, External
<1>9. ch[l[j]].order = ch[l[j - 1]].order + 1
  BY <1>0, <1>1, <1>4, <1>8 DEF WholeChain
<1>10. ch[l[j]].order = ch[l[h]].order + (j - h)
  <2>1. ch[l[h]].order \in Nat /\ ch[l[j - 1]].order \in Nat
    BY <1>0, <1>1, <1>6
  <2>2. \A a, b, d \in Nat : b = a + (j - 1 - h) /\ d = b + 1 => d = a + (j - h)
    BY <1>0, <1>4
  <2>3. ch[l[j]].order \in Nat
    BY <1>1, <1>4
  <2>4. QED
    BY <1>7, <1>9, <2>1, <2>2, <2>3
<1>11. QED
  BY <1>4, <1>10

LEMMA NextInternalIs ==
    ASSUME clients \in Seq(Processors), driver.at \in Nat
    PROVE  /\ NextInternal \in Nat
           /\ \A k \in 1 .. Len(clients) :
                driver.at \in 1 .. Len(clients) /\ Subgraph(clients, driver.at, k) => NextInternal = k + 1
<1> DEFINE later == {i \in driver.at .. Len(clients) : clients[i] \in InProcess}
<1>0. Len(clients) \in Nat
  OBVIOUS
<1>1. NextInternal = IF later = {} THEN Len(clients) + 1 ELSE CHOOSE i \in later : \A j \in later : i <= j
  BY DEF NextInternal
<1>2. later \in SUBSET Nat
  BY <1>0
<1>3. later # {} => NextInternal \in later /\ \A j \in later : NextInternal <= j
  <2> HIDE DEF later
  <2>1. later # {} => \E i \in later : \A j \in later : i <= j
    BY <1>2, LeastExists
  <2>2. QED
    BY <1>1, <2>1
<1>4. NextInternal \in Nat
  BY <1>0, <1>1, <1>2, <1>3
<1>5. ASSUME NEW k \in 1 .. Len(clients), driver.at \in 1 .. Len(clients), Subgraph(clients, driver.at, k) PROVE NextInternal = k + 1
  <2>1. driver.at <= k /\ Ends(clients, k) /\ \A j \in driver.at .. k : clients[j] \notin InProcess
    BY <1>5 DEF Subgraph, External
  <2>2. \A j \in later : j > k
    BY <1>0, <2>1
  <2>3. CASE k = Len(clients)
    <3>1. later = {}
      BY <1>0, <2>2, <2>3
    <3>2. QED
      BY <1>1, <2>3, <3>1
  <2>4. CASE k # Len(clients)
    <3>1. clients[k + 1] \in InProcess /\ k + 1 \in driver.at .. Len(clients)
      BY <1>0, <2>1, <2>4 DEF Ends
    <3>2. k + 1 \in later
      BY <3>1
    <3>3. NextInternal \in later /\ NextInternal <= k + 1
      BY <1>3, <3>2
    <3>4. QED
      BY <1>4, <2>2, <3>3
  <2>5. QED
    BY <2>3, <2>4
<1>6. QED
  BY <1>4, <1>5

\* In a clean cycle nobody failed, and everyone waits on the FIFO of the chain.
LEMMA CycleIsSettled ==
    ASSUME CycleIInv, clean, server.doing = "polling", ~Failed
    PROVE  /\ \A i \in 1 .. Len(clients) : clients[i] \in External =>
                order[clients[i]] = chain[clients[i]].order /\ worker[clients[i]] # "gone"
           /\ \A i \in 1 .. Len(clients) : clients[i] \in External =>
                (Owed(order[clients[i]]) <=> worker[clients[i]] = "woke")
           /\ \A j \in 1 .. Len(clients) : ~Owed(chain[clients[j]].wait)
<1>0. clients \in Seq(Processors) /\ Len(clients) \in Nat /\ server.tell = <<>> /\ WholeChain(clients, chain)
  BY DEF CycleIInv, CycleTypeOK, ServerKept
<1>1. ASSUME NEW i \in 1 .. Len(clients), clients[i] \in External
      PROVE  order[clients[i]] = chain[clients[i]].order /\ worker[clients[i]] # "gone"
  <2>1. clients[i] \in Active \cap External
    BY <1>0, <1>1, ActiveIs DEF Active
  <2>2. errors[clients[i]] = 0
    BY <2>1 DEF Failed
  <2>3. QED
    BY <1>0, <2>1, <2>2 DEF CycleIInv, ToldKept
<1>2. ASSUME NEW f, Owed(f)
      PROVE  \E i \in 1 .. Len(clients) : /\ clients[i] \in External /\ worker[clients[i]] = "woke"
                                          /\ chain[clients[i]].order = f
  <2>1. PICK c \in Active \cap External : worker[c] = "woke" /\ order[c] = f
    BY <1>2 DEF Owed
  <2>2. PICK i \in 1 .. Len(clients) : clients[i] = c
    BY <1>0, <2>1, ActiveIs DEF Active
  <2>3. QED
    BY <1>1, <2>1, <2>2
<1>3. ASSUME NEW i \in 1 .. Len(clients), clients[i] \in External
      PROVE  Owed(order[clients[i]]) <=> worker[clients[i]] = "woke"
  <2>1. ASSUME Owed(order[clients[i]]) PROVE worker[clients[i]] = "woke"
    <3>1. PICK j \in 1 .. Len(clients) : /\ clients[j] \in External /\ worker[clients[j]] = "woke"
                                         /\ chain[clients[j]].order = order[clients[i]]
      BY <1>2, <2>1
    <3>2. chain[clients[j]].order = chain[clients[i]].order
      BY <1>1, <1>3, <3>1
    <3>3. j = i
      BY <1>0, <1>3, <3>1, <3>2 DEF WholeChain
    <3>4. QED
      BY <3>1, <3>3
  <2>2. ASSUME worker[clients[i]] = "woke" PROVE Owed(order[clients[i]])
    <3>1. clients[i] \in Active \cap External
      BY <1>0, <1>3, ActiveIs DEF Active
    <3>2. QED
      BY <2>2, <3>1 DEF Owed
  <2>3. QED
    BY <2>1, <2>2
<1>4. ASSUME NEW j \in 1 .. Len(clients) PROVE ~Owed(chain[clients[j]].wait)
  <2> SUFFICES ASSUME Owed(chain[clients[j]].wait) PROVE FALSE
    OBVIOUS
  <2>1. PICK i \in 1 .. Len(clients) : /\ clients[i] \in External
                                       /\ chain[clients[i]].order = chain[clients[j]].wait
    BY <1>2
  <2>2. QED
    BY <1>0, <2>1 DEF WholeChain
<1>5. QED
  BY <1>1, <1>3, <1>4

\* Whose turn it is: the byte that nobody owes is the one of its FIFO, or of the server's.
LEMMA TurnIs ==
    ASSUME CycleIInv, clean, driver.doing = "waiting", NEW k \in 1 .. Len(clients), NEW t \in driver.at .. k + 1,
           Turn(driver.at, k, t)
    PROVE  /\ driver.at \in 1 .. Len(clients) /\ driver.at <= k /\ t \in Nat /\ k \in Nat /\ driver.at \in Nat
           /\ server.doing = "polling" /\ ~Failed /\ WholeChain(clients, chain)
           /\ chain[clients[driver.at]].order \in Nat
           /\ t <= k => t \in 1 .. Len(clients) /\ clients[t] \in External
                        /\ chain[clients[t]].order = chain[clients[driver.at]].order + (t - driver.at)
           /\ t = k + 1 => chain[clients[driver.at]].wait = chain[clients[driver.at]].order + (t - driver.at)
           /\ chain[clients[driver.at]].wait = chain[clients[driver.at]].order + (k + 1 - driver.at)
           /\ chain[clients[driver.at]].wait \in Fifos
<1> DEFINE h == driver.at
<1>0. clients \in Seq(Processors) /\ Len(clients) \in Nat
  BY DEF CycleIInv, CycleTypeOK
<1>1. server.doing = "polling" /\ ~Failed /\ WholeChain(clients, chain)
  <2>1. server.doing = "polling"
    BY DEF CycleIInv, ServerKept
  <2>2. QED
    BY <2>1 DEF CycleIInv, ServerKept, ToldKept
<1>2. h \in 1 .. Len(clients)
  BY DEF CycleIInv, TurnKept
<1>3. Subgraph(clients, h, k)
  BY DEF Turn
<1>4. h <= k /\ (\A j \in h .. k : clients[j] \in External) /\ h \in h .. k
  BY <1>2, <1>3 DEF Subgraph
<1>5. chain[clients[h]].order \in Nat
  BY <1>1, <1>2, <1>4 DEF WholeChain, Fifos
<1>6. \A j \in h .. k : chain[clients[j]].order = chain[clients[h]].order + (j - h)
  BY <1>0, <1>1, <1>2, <1>3, OrdersAlong
<1>7. chain[clients[h]].wait = chain[clients[k]].order + 1 /\ chain[clients[h]].wait \in Fifos
  BY <1>1, <1>2, <1>3 DEF WholeChain
<1>8. chain[clients[h]].wait = chain[clients[h]].order + (k + 1 - h)
  <2>1. k \in h .. k
    BY <1>2, <1>4
  <2>2. chain[clients[k]].order = chain[clients[h]].order + (k - h)
    BY <1>6, <2>1
  <2>3. QED
    BY <1>2, <1>5, <1>7, <2>2
<1>9. t <= k => t \in h .. k /\ t \in 1 .. Len(clients)
  BY <1>0, <1>2
<1>10. QED
  BY <1>0, <1>1, <1>2, <1>4, <1>5, <1>6, <1>7, <1>8, <1>9

LEMMA SubgraphIsDoneKeeps ==
    ASSUME CycleIInv, SubgraphIsDone
    PROVE  CycleIInv'
<1>0. /\ driver.doing = "waiting" /\ fifo[chain[clients[driver.at]].wait] > 0
      /\ fifo' = Take(chain[clients[driver.at]].wait)
      /\ driver' = [doing |-> "walking", at |-> NextInternal]
      /\ UNCHANGED <<clients, chain, worker, order, errors, problems, server, ran, clean, upsets>>
  BY DEF SubgraphIsDone
<1>1. /\ clients \in Seq(Processors) /\ Len(clients) \in Nat
      /\ driver \in [doing : {"idle", "walking", "waiting", "cut"}, at : Nat] /\ driver.at \in Nat
      /\ server.doing = "polling" /\ fifo \in [Fifos -> 0 .. MaxBytes]
  BY <1>0 DEF CycleIInv, CycleTypeOK, ServerKept
<1>2. Active' = Active /\ Failed' = Failed /\ Resting' = Resting /\ \A f \in Fifos : Own(f)' = Own(f)
  BY <1>0 DEF Active, Failed, Resting, Own, Owed
<1>3. NextInternal \in Nat
  BY <1>1, NextInternalIs
<1>4. driver' \in [doing : {"idle", "walking", "waiting", "cut"}, at : Nat] /\ driver'.doing = "walking" /\ driver'.at = NextInternal
  BY <1>0, <1>3
<1>5. fifo' \in [Fifos -> 0 .. MaxBytes]
  BY <1>0, <1>1, PutIs
<1>6. clean => ~Failed
  BY <1>0 DEF CycleIInv, ToldKept
<1>7. CycleTypeOK' /\ ServerKept' /\ FailuresKept' /\ ToldKept'
  BY <1>0, <1>1, <1>2, <1>4, <1>5, <1>6, DriverKeeps DEF CycleIInv, CycleTypeOK, ServerKept, FailuresKept
<1>8. WalkKept'
  <2> SUFFICES ASSUME clean PROVE WalkKept'
    BY <1>0 DEF WalkKept
  <2> DEFINE h == driver.at
             w == chain[clients[h]].wait
  <2>1. PICK k \in 1 .. Len(clients) : \E t \in h .. k + 1 : Turn(h, k, t)
    BY <1>0 DEF CycleIInv, TurnKept
  <2>2. PICK t \in h .. k + 1 : Turn(h, k, t)
    BY <2>1
  <2>3. /\ h \in 1 .. Len(clients) /\ h <= k /\ t \in Nat /\ k \in Nat /\ h \in Nat
        /\ chain[clients[h]].order \in Nat
        /\ w = chain[clients[h]].order + (k + 1 - h) /\ w \in Fifos
    BY <1>0, <2>2, TurnIs
  <2>4. ~Owed(w)
    BY <1>1, <1>6, <2>3, CycleIsSettled
  <2>5. fifo[w] \in 0 .. MaxBytes /\ fifo[w] <= IF w = chain[clients[h]].order + (t - h) THEN 1 ELSE 0
    BY <1>1, <2>2, <2>3, <2>4 DEF Turn, Own
  <2>6. fifo[w] > 0
    BY <1>0
  <2>7. t = k + 1 /\ fifo[w] = 1 /\ w = chain[clients[h]].order + (t - h)
    <3>1. fifo[w] \in Nat
      BY <2>5, CycleAssumption
    <3>2. w = chain[clients[h]].order + (t - h) /\ fifo[w] = 1
      BY <2>5, <2>6, <3>1
    <3>3. \A a \in Nat : a + (k + 1 - h) = a + (t - h) => t = k + 1
      BY <2>3
    <3>4. QED
      BY <2>3, <3>2, <3>3
  <2>8. Resting
    BY <2>2, <2>3, <2>7 DEF Turn, Resting
  <2>9. ASSUME NEW f \in Fifos PROVE fifo'[f] <= Own(f)
    <3>1. CASE f = w
      <4>1. fifo'[f] = 0
        BY <1>0, <1>1, <2>7, <3>1, PutIs
      <4>2. QED
        BY <4>1 DEF Own
    <3>2. CASE f # w
      <4>1. fifo'[f] = fifo[f] /\ fifo[f] \in Int
        BY <1>0, <1>1, <3>2, PutIs
      <4>2. fifo[f] <= Own(f) + IF f = chain[clients[h]].order + (t - h) THEN 1 ELSE 0
        BY <2>2 DEF Turn
      <4>3. f # chain[clients[h]].order + (t - h)
        BY <2>7, <3>2
      <4>4. Own(f) \in {0, 1}
        BY DEF Own
      <4>5. QED
        BY <4>1, <4>2, <4>3, <4>4
    <3>3. QED
      BY <3>1, <3>2
  <2>10. NextInternal = k + 1
    BY <1>1, <2>2, <2>3, NextInternalIs DEF Turn
  <2>11. \A i \in 1 .. Len(clients) : ran[clients[i]] = IF i < k + 1 THEN 1 ELSE 0
    <3> SUFFICES ASSUME NEW i \in 1 .. Len(clients) PROVE ran[clients[i]] = IF i < k + 1 THEN 1 ELSE 0
      OBVIOUS
    <3>1. ran[clients[i]] = IF i < t \/ (i = t /\ t <= k /\ worker[clients[i]] = "processing") THEN 1 ELSE 0
      BY <2>2 DEF Turn
    <3>2. ~(t <= k)
      BY <2>3, <2>7
    <3>3. QED
      BY <2>7, <3>1, <3>2
  <2>12. k + 1 \in 1 .. Len(clients) + 1
    BY <1>1, <2>3
  <2>13. ASSUME k + 1 <= Len(clients) PROVE clients[k + 1] \notin External
    <3>1. Ends(clients, k) /\ k # Len(clients)
      BY <1>1, <2>2, <2>3, <2>13 DEF Turn, Subgraph
    <3>2. QED
      BY <3>1 DEF Ends, External
  <2>14. /\ driver'.at = k + 1 /\ clients' = clients /\ ran' = ran /\ Resting'
         /\ \A f \in Fifos : fifo'[f] <= Own(f)'
    BY <1>0, <1>2, <1>4, <2>8, <2>9, <2>10
  <2>15. QED
    BY <2>11, <2>12, <2>13, <2>14 DEF WalkKept
<1>9. TurnKept'
  BY <1>4 DEF TurnKept
<1>10. QED
  BY <1>7, <1>8, <1>9 DEF CycleIInv

------------------------------------------------------------------------------
(* The process threads.                                                        *)

\* A step of a client: the list, its errors and where the others are stay.
LEMMA WorkerKeeps ==
    ASSUME CycleIInv, UNCHANGED <<clients, chain, order, errors, problems, server, driver>>,
           worker' \in [External -> Workers], fifo' \in [Fifos -> 0 .. MaxBytes], ran' \in [Processors -> Nat],
           upsets' \in 0 .. MaxUpsets, clean' \in BOOLEAN, clean' => clean,
           clean' => \A c \in Active \cap External : worker'[c] = "gone" => worker[c] = "gone",
           clean' /\ (server.doing = "telling" \/ Failed) => Resting' /\ \A f \in Fifos : fifo'[f] = 0
    PROVE  CycleTypeOK' /\ ServerKept' /\ FailuresKept' /\ ToldKept'
<1>1. CycleTypeOK'
  BY DEF CycleIInv, CycleTypeOK
<1>2. Active' = Active
  BY DEF Active
<1>3. Failed' = Failed
  BY <1>2 DEF Failed
<1>4. ServerKept'
  BY <1>2 DEF CycleIInv, ServerKept, Distinct, WholeChain
<1>5. FailuresKept'
  BY <1>2, <1>3 DEF CycleIInv, FailuresKept
<1>6. ToldKept'
  <2> SUFFICES ASSUME clean' PROVE ToldKept'
    BY DEF ToldKept
  <2>1. server.doing = "telling" \/ Failed => driver.doing = "idle"
    BY DEF CycleIInv, ToldKept
  <2>2. ASSUME NEW c \in Active \cap External
        PROVE  \/ \E i \in 1 .. Len(server.tell) : server.tell[i] = c
               \/ errors[c] # 0
               \/ order[c] = chain[c].order /\ worker'[c] # "gone"
    BY DEF CycleIInv, ToldKept
  <2>3. QED
    BY <1>2, <1>3, <2>1, <2>2 DEF ToldKept
<1>7. QED
  BY <1>1, <1>4, <1>5, <1>6

\* One that no callback begins or ends with, and that puts nothing in a FIFO.
LEMMA QuietKeeps ==
    ASSUME CycleIInv, UNCHANGED <<clients, chain, order, errors, problems, server, driver, ran, upsets, clean>>,
           worker' \in [External -> Workers], fifo' \in [Fifos -> 0 .. MaxBytes],
           \A c \in External : worker'[c] = "processing" <=> worker[c] = "processing",
           \A c \in Active \cap External : worker'[c] = "gone" => worker[c] = "gone",
           \A f \in Fifos : fifo[f] = 0 => fifo'[f] = 0,
           \A f \in Fifos : \A b \in {0, 1} : fifo[f] <= Own(f) + b => fifo'[f] <= Own(f)' + b
    PROVE  CycleIInv'
<1>1. clients \in Seq(Processors) /\ fifo \in [Fifos -> 0 .. MaxBytes] /\ fifo' \in [Fifos -> 0 .. MaxBytes]
  BY DEF CycleIInv, CycleTypeOK
<1>2. Resting' = Resting
  BY DEF Resting
<1>3. CycleTypeOK' /\ ServerKept' /\ FailuresKept' /\ ToldKept'
  <2>1. ran' \in [Processors -> Nat] /\ upsets' \in 0 .. MaxUpsets /\ clean' \in BOOLEAN
    BY DEF CycleIInv, CycleTypeOK, ServerKept
  <2>2. clean' /\ (server.doing = "telling" \/ Failed) => Resting' /\ \A f \in Fifos : fifo'[f] = 0
    BY <1>2 DEF CycleIInv, ToldKept
  <2>3. QED
    BY <2>1, <2>2, WorkerKeeps
<1>4. WalkKept'
  <2> SUFFICES ASSUME clean, driver.doing # "waiting" PROVE WalkKept'
    BY DEF WalkKept
  <2>1. Resting /\ \A f \in Fifos : fifo[f] <= Own(f)
    BY DEF CycleIInv, WalkKept
  <2>2. ASSUME NEW f \in Fifos PROVE fifo'[f] <= Own(f)'
    <3>1. fifo[f] \in Int /\ fifo'[f] \in Int /\ Own(f) \in Int /\ Own(f)' \in Int
      BY <1>1, CycleAssumption DEF Own
    <3>2. fifo[f] <= Own(f) + 0
      BY <2>1, <3>1
    <3>3. 0 \in {0, 1}
      OBVIOUS
    <3>4. fifo'[f] <= Own(f)' + 0
      BY <3>2, <3>3
    <3>5. QED
      BY <3>1, <3>4
  <2>3. Resting'
    BY <1>2, <2>1
  <2>4. QED
    BY <2>2, <2>3 DEF CycleIInv, WalkKept
<1>5. TurnKept'
  <2> SUFFICES ASSUME clean, driver.doing = "waiting" PROVE TurnKept'
    BY DEF TurnKept
  <2>1. PICK k \in 1 .. Len(clients) : \E t \in driver.at .. k + 1 : Turn(driver.at, k, t)
    BY DEF CycleIInv, TurnKept
  <2>2. PICK t \in driver.at .. k + 1 : Turn(driver.at, k, t)
    BY <2>1
  <2>3. /\ driver.at \in 1 .. Len(clients)
        /\ t <= k => clients[t] \in External
    BY <2>2, TurnIs
  <2>4. Subgraph(clients, driver.at, k)' = Subgraph(clients, driver.at, k)
    BY DEF Subgraph, Begins, Ends
  <2>5. ASSUME NEW i \in 1 .. Len(clients)
        PROVE  ran[clients[i]] = IF i < t \/ (i = t /\ t <= k /\ worker'[clients[i]] = "processing") THEN 1 ELSE 0
    <3>1. ran[clients[i]] = IF i < t \/ (i = t /\ t <= k /\ worker[clients[i]] = "processing") THEN 1 ELSE 0
      BY <2>2 DEF Turn
    <3>2. i = t /\ t <= k => (worker'[clients[i]] = "processing" <=> worker[clients[i]] = "processing")
      BY <2>3
    <3>3. QED
      BY <3>1, <3>2
  <2>6. ASSUME NEW f \in Fifos
        PROVE  fifo'[f] <= Own(f)' + IF f = chain[clients[driver.at]].order + (t - driver.at) THEN 1 ELSE 0
    <3> DEFINE b == IF f = chain[clients[driver.at]].order + (t - driver.at) THEN 1 ELSE 0
    <3>1. b \in {0, 1} /\ fifo[f] <= Own(f) + b
      BY <2>2 DEF Turn
    <3> HIDE DEF b
    <3>2. fifo'[f] <= Own(f)' + b
      BY <3>1
    <3>3. QED
      BY <3>2 DEF b
  <2>7. \A c \in External : worker'[c] = "processing" => t <= k /\ c = clients[t]
    BY <2>2 DEF Turn
  <2>8. Subgraph(clients, driver.at, k)
    BY <2>2 DEF Turn
  <2>9. Turn(driver.at, k, t)'
    BY <2>4, <2>5, <2>6, <2>7, <2>8 DEF Turn
  <2>10. QED
    BY <2>3, <2>9 DEF TurnKept
<1>6. QED
  BY <1>3, <1>4, <1>5 DEF CycleIInv

LEMMA CleansUpKeeps ==
    ASSUME CycleIInv, NEW c \in External, CleansUp(c)
    PROVE  CycleIInv'
<1>0. /\ worker[c] = "woke" /\ worker' = [worker EXCEPT ![c] = "polling"] /\ fifo' = Take(order[c])
      /\ UNCHANGED <<clients, chain, order, errors, problems, driver, server, ran, clean, upsets>>
  BY DEF CleansUp
<1>1. fifo \in [Fifos -> 0 .. MaxBytes] /\ worker \in [External -> Workers]
  BY DEF CycleIInv, CycleTypeOK
<1>2. fifo' \in [Fifos -> 0 .. MaxBytes]
  BY <1>0, <1>1, PutIs
<1>3. /\ worker' \in [External -> Workers]
      /\ \A d \in External : worker'[d] = IF d = c THEN "polling" ELSE worker[d]
  BY <1>0, <1>1 DEF Workers
<1>4. ASSUME NEW f \in Fifos PROVE fifo'[f] = IF f = order[c] /\ fifo[f] # 0 THEN fifo[f] - 1 ELSE fifo[f]
  BY <1>0, <1>1, PutIs
<1>5. Active' = Active
  BY <1>0 DEF Active
<1>6. ASSUME NEW f \in Fifos, f # order[c] PROVE Own(f)' = Own(f)
  <2>1. Owed(f)' <=> Owed(f)
    BY <1>0, <1>3, <1>5, <1>6 DEF Owed
  <2>2. QED
    BY <2>1 DEF Own
<1>7. ASSUME NEW f \in Fifos, NEW b \in {0, 1}, fifo[f] <= Own(f) + b PROVE fifo'[f] <= Own(f)' + b
  <2>1. fifo[f] \in Nat /\ Own(f) \in {0, 1} /\ Own(f)' \in {0, 1}
    BY <1>1, CycleAssumption DEF Own
  <2>2. CASE f = order[c]
    <3>1. fifo'[f] = IF fifo[f] # 0 THEN fifo[f] - 1 ELSE 0
      BY <1>4, <2>2
    <3>2. QED
      BY <1>7, <2>1, <3>1
  <2>3. CASE f # order[c]
    BY <1>4, <1>6, <1>7, <2>3
  <2>4. QED
    BY <2>2, <2>3
<1>8. \A d \in External : worker'[d] = "processing" <=> worker[d] = "processing"
  BY <1>0, <1>3
<1>9. \A d \in Active \cap External : worker'[d] = "gone" => worker[d] = "gone"
  BY <1>3
<1>10. \A f \in Fifos : fifo[f] = 0 => fifo'[f] = 0
  BY <1>4
<1>11. QED
  BY <1>0, <1>2, <1>3, <1>7, <1>8, <1>9, <1>10, QuietKeeps

LEMMA DiesKeeps ==
    ASSUME CycleIInv, NEW c \in External, Dies(c)
    PROVE  CycleIInv'
<1>0. /\ upsets < MaxUpsets /\ worker' = [worker EXCEPT ![c] = "gone"] /\ ~clean' /\ clean' \in BOOLEAN
      /\ upsets' = upsets + 1
      /\ UNCHANGED <<clients, chain, fifo, order, errors, problems, driver, server, ran>>
  BY DEF Dies
<1>1. upsets' \in 0 .. MaxUpsets
  BY <1>0, CycleAssumption DEF CycleIInv, CycleTypeOK
<1>2. worker' \in [External -> Workers]
  BY <1>0 DEF CycleIInv, CycleTypeOK, Workers
<1>3. fifo' \in [Fifos -> 0 .. MaxBytes] /\ ran' \in [Processors -> Nat]
  BY <1>0 DEF CycleIInv, CycleTypeOK, ServerKept
<1>4. CycleTypeOK' /\ ServerKept' /\ FailuresKept' /\ ToldKept'
  BY <1>0, <1>1, <1>2, <1>3, WorkerKeeps
<1>5. WalkKept' /\ TurnKept'
  BY <1>0 DEF WalkKept, TurnKept
<1>6. QED
  BY <1>4, <1>5 DEF CycleIInv

\* Who may wake in a clean cycle is the client whose turn it is.
LEMMA WhoWakes ==
    ASSUME CycleIInv, clean, NEW c \in Active \cap External, worker[c] = "polling", fifo[order[c]] > 0
    PROVE  /\ driver.doing = "waiting" /\ server.doing = "polling" /\ ~Failed
           /\ \A k \in 1 .. Len(clients) : \A t \in driver.at .. k + 1 :
                Turn(driver.at, k, t) => t <= k /\ t \in 1 .. Len(clients) /\ c = clients[t]
<1>0. /\ clients \in Seq(Processors) /\ Len(clients) \in Nat /\ order \in [External -> Fifos] /\ c \in External
      /\ fifo \in [Fifos -> 0 .. MaxBytes]
  BY DEF CycleIInv, CycleTypeOK
<1>1. order[c] \in Fifos /\ fifo[order[c]] \in Nat
  BY <1>0, CycleAssumption
<1>2. server.doing = "polling" /\ ~Failed
  <2>1. server.doing # "telling" /\ ~Failed
    BY <1>1 DEF CycleIInv, ToldKept
  <2>2. QED
    BY <2>1 DEF CycleIInv, ServerKept
<1>3. PICK i \in 1 .. Len(clients) : clients[i] = c
  BY <1>0, ActiveIs DEF Active
<1>4. order[c] = chain[clients[i]].order /\ Own(order[c]) = 0
  <2>1. order[c] = chain[clients[i]].order /\ ~Owed(order[c])
    BY <1>0, <1>2, <1>3, CycleIsSettled
  <2>2. QED
    BY <2>1 DEF Own
<1>5. driver.doing = "waiting"
  <2>1. ~(fifo[order[c]] <= Own(order[c]))
    BY <1>1, <1>4
  <2>2. QED
    BY <1>1, <2>1 DEF CycleIInv, WalkKept
<1>6. ASSUME NEW k \in 1 .. Len(clients), NEW t \in driver.at .. k + 1, Turn(driver.at, k, t)
      PROVE  t <= k /\ t \in 1 .. Len(clients) /\ c = clients[t]
  <2> DEFINE o == chain[clients[driver.at]].order + (t - driver.at)
  <2>1. fifo[order[c]] <= IF order[c] = o THEN 1 ELSE 0
    BY <1>1, <1>4, <1>6 DEF Turn
  <2>2. order[c] = o
    BY <1>1, <2>1
  <2>3. /\ WholeChain(clients, chain) /\ driver.at \in 1 .. Len(clients) /\ t \in Nat /\ k \in Nat /\ driver.at \in Nat
        /\ t <= k => t \in 1 .. Len(clients) /\ clients[t] \in External /\ chain[clients[t]].order = o
        /\ t = k + 1 => chain[clients[driver.at]].wait = o
    BY <1>5, <1>6, TurnIs
  <2>4. clients[i] \in External
    BY <1>0, <1>3
  <2>5. \A j \in 1 .. Len(clients) : chain[clients[j]].wait # chain[clients[i]].order
    BY <2>3, <2>4 DEF WholeChain
  <2>6. t # k + 1
    BY <1>4, <2>2, <2>3, <2>5
  <2>7. t <= k
    BY <2>3, <2>6
  <2>8. t = i
    <3>1. chain[clients[t]].order = chain[clients[i]].order /\ clients[t] \in External /\ t \in 1 .. Len(clients)
      BY <1>4, <2>2, <2>3, <2>7
    <3>2. \A j \in 1 .. Len(clients) : clients[j] \in External /\ j # i => chain[clients[j]].order # chain[clients[i]].order
      BY <2>3, <2>4 DEF WholeChain
    <3>3. QED
      BY <3>1, <3>2
  <2>9. QED
    BY <1>3, <2>7, <2>8
<1>7. QED
  BY <1>2, <1>5, <1>6

LEMMA WakesKeeps ==
    ASSUME CycleIInv, NEW c \in External, Wakes(c)
    PROVE  CycleIInv'
<1>0. /\ worker[c] = "polling" /\ fifo[order[c]] > 0
      /\ worker' = [worker EXCEPT ![c] = IF c \in Active THEN "processing" ELSE "gone"]
      /\ ran' = IF c \in Active THEN [ran EXCEPT ![c] = @ + 1] ELSE ran
      /\ UNCHANGED <<clients, chain, fifo, order, errors, problems, driver, server, clean, upsets>>
  BY DEF Wakes
<1>1. /\ fifo \in [Fifos -> 0 .. MaxBytes] /\ worker \in [External -> Workers] /\ ran \in [Processors -> Nat]
      /\ clients \in Seq(Processors) /\ Len(clients) \in Nat /\ upsets \in 0 .. MaxUpsets /\ clean \in BOOLEAN
      /\ c \in Processors
  BY DEF CycleIInv, CycleTypeOK, ServerKept, External
<1>2. Active' = Active
  BY <1>0 DEF Active
<1>3. \A f : Own(f)' = Own(f)
  <2>1. ASSUME NEW f PROVE Owed(f)' <=> Owed(f)
    BY <1>0, <1>1, <1>2 DEF Owed
  <2>2. QED
    BY <2>1 DEF Own
<1>4. CASE c \notin Active
  <2>1. worker' = [worker EXCEPT ![c] = "gone"] /\ ran' = ran /\ fifo' = fifo
    BY <1>0, <1>4
  <2>2. worker' \in [External -> Workers] /\ \A d \in External : worker'[d] = IF d = c THEN "gone" ELSE worker[d]
    BY <1>1, <2>1 DEF Workers
  <2>3. \A d \in External : worker'[d] = "processing" <=> worker[d] = "processing"
    BY <1>0, <2>2
  <2>4. \A d \in Active \cap External : worker'[d] = "gone" => worker[d] = "gone"
    BY <1>4, <2>2
  <2>5. \A f \in Fifos : \A b \in {0, 1} : fifo[f] <= Own(f) + b => fifo'[f] <= Own(f)' + b
    BY <1>3, <2>1
  <2>6. QED
    BY <1>0, <1>1, <2>1, <2>2, <2>3, <2>4, <2>5, QuietKeeps
<1>5. CASE c \in Active
  <2>1. worker' = [worker EXCEPT ![c] = "processing"] /\ ran' = [ran EXCEPT ![c] = @ + 1] /\ fifo' = fifo
    BY <1>0, <1>5
  <2>2. worker' \in [External -> Workers] /\ \A d \in External : worker'[d] = IF d = c THEN "processing" ELSE worker[d]
    BY <1>1, <2>1 DEF Workers
  <2>3. ran' \in [Processors -> Nat] /\ \A d \in Processors : ran'[d] = IF d = c THEN ran[c] + 1 ELSE ran[d]
    BY <1>1, <2>1
  <2>4. c \in Active \cap External
    BY <1>5
  <2>5. clean => driver.doing = "waiting" /\ server.doing = "polling" /\ ~Failed
    BY <1>0, <2>4, WhoWakes
  <2>6. CycleTypeOK' /\ ServerKept' /\ FailuresKept' /\ ToldKept'
    <3>1. \A d \in Active \cap External : worker'[d] = "gone" => worker[d] = "gone"
      BY <2>2
    <3>2. ~(clean' /\ (server.doing = "telling" \/ Failed))
      BY <1>0, <2>5
    <3>3. QED
      BY <1>0, <1>1, <2>1, <2>2, <2>3, <3>1, <3>2, WorkerKeeps
  <2>7. WalkKept'
    BY <1>0, <2>5 DEF WalkKept
  <2>8. TurnKept'
    <3> SUFFICES ASSUME clean PROVE TurnKept'
      BY <1>0 DEF TurnKept
    <3>1. PICK k \in 1 .. Len(clients) : \E t \in driver.at .. k + 1 : Turn(driver.at, k, t)
      BY <2>5 DEF CycleIInv, TurnKept
    <3>2. PICK t \in driver.at .. k + 1 : Turn(driver.at, k, t)
      BY <3>1
    <3>3. t <= k /\ t \in 1 .. Len(clients) /\ c = clients[t]
      BY <1>0, <2>4, <3>2, WhoWakes
    <3>4. driver.at \in 1 .. Len(clients)
      BY <2>5, <3>2, TurnIs
    <3>5. ASSUME NEW i \in 1 .. Len(clients)
          PROVE  ran'[clients[i]] = IF i < t \/ (i = t /\ t <= k /\ worker'[clients[i]] = "processing") THEN 1 ELSE 0
      <4>1. ran[clients[i]] = IF i < t \/ (i = t /\ t <= k /\ worker[clients[i]] = "processing") THEN 1 ELSE 0
        BY <3>2 DEF Turn
      <4>2. CASE i = t
        <5>1. ran[c] = 0
          BY <1>0, <3>3, <4>1, <4>2
        <5>2. ran'[clients[i]] = 1 /\ worker'[clients[i]] = "processing"
          BY <1>1, <2>2, <2>3, <3>3, <4>2, <5>1
        <5>3. QED
          BY <3>3, <4>2, <5>2
      <4>3. CASE i # t
        <5>1. clients[i] # c /\ clients[i] \in Processors
          BY <1>1, <3>3, <4>3 DEF CycleIInv, ServerKept, Distinct
        <5>2. ran'[clients[i]] = ran[clients[i]]
          BY <2>3, <5>1
        <5>3. QED
          BY <4>1, <4>3, <5>2
      <4>4. QED
        BY <4>2, <4>3
    <3>6. \A d \in External : worker'[d] = "processing" => t <= k /\ d = clients[t]
      BY <2>2, <3>2, <3>3 DEF Turn
    <3>7. \A f \in Fifos : fifo'[f] <= Own(f)' + IF f = chain[clients[driver.at]].order + (t - driver.at) THEN 1 ELSE 0
      BY <1>3, <2>1, <3>2 DEF Turn
    <3>8. Subgraph(clients, driver.at, k)
      BY <3>2 DEF Turn
    <3>9. Turn(driver.at, k, t)'
      BY <1>0, <3>5, <3>6, <3>7, <3>8 DEF Turn, Subgraph, Begins, Ends
    <3>10. QED
      BY <1>0, <3>4, <3>9 DEF TurnKept
  <2>9. QED
    BY <2>6, <2>7, <2>8 DEF CycleIInv
<1>6. QED
  BY <1>4, <1>5

LEMMA WakesNextKeeps ==
    ASSUME CycleIInv, NEW c \in External, WakesNext(c)
    PROVE  CycleIInv'
<1>0. /\ worker[c] = "processing" /\ worker' = [worker EXCEPT ![c] = "woke"] /\ fifo' = Put(order[c] + 1)
      /\ UNCHANGED <<clients, chain, order, errors, problems, driver, server, ran, clean, upsets>>
  BY DEF WakesNext
<1>1. /\ fifo \in [Fifos -> 0 .. MaxBytes] /\ worker \in [External -> Workers] /\ ran \in [Processors -> Nat]
      /\ clients \in Seq(Processors) /\ Len(clients) \in Nat /\ upsets \in 0 .. MaxUpsets /\ clean \in BOOLEAN
      /\ order \in [External -> Fifos]
  BY DEF CycleIInv, CycleTypeOK, ServerKept
<1>2. Active' = Active
  BY <1>0 DEF Active
<1>3. worker' \in [External -> Workers] /\ \A d \in External : worker'[d] = IF d = c THEN "woke" ELSE worker[d]
  BY <1>0, <1>1 DEF Workers
<1>4. fifo' \in [Fifos -> 0 .. MaxBytes]
  BY <1>0, <1>1, PutIs
<1>5. clean => ~Resting
  BY <1>0 DEF Resting
<1>6. clean => driver.doing = "waiting" /\ server.doing # "telling" /\ ~Failed
  BY <1>5 DEF CycleIInv, WalkKept, ToldKept
<1>7. CycleTypeOK' /\ ServerKept' /\ FailuresKept' /\ ToldKept'
  <2>1. \A d \in Active \cap External : worker'[d] = "gone" => worker[d] = "gone"
    BY <1>3
  <2>2. ~(clean' /\ (server.doing = "telling" \/ Failed))
    BY <1>0, <1>6
  <2>3. QED
    BY <1>0, <1>1, <1>3, <1>4, <2>1, <2>2, WorkerKeeps
<1>8. WalkKept'
  BY <1>0, <1>6 DEF WalkKept
<1>9. TurnKept'
  <2> SUFFICES ASSUME clean PROVE TurnKept'
    BY <1>0 DEF TurnKept
  <2>1. PICK k \in 1 .. Len(clients) : \E t \in driver.at .. k + 1 : Turn(driver.at, k, t)
    BY <1>6 DEF CycleIInv, TurnKept
  <2>2. PICK t \in driver.at .. k + 1 : Turn(driver.at, k, t)
    BY <2>1
  <2>3. t <= k /\ c = clients[t]
    BY <1>0, <2>2 DEF Turn
  <2>4. /\ driver.at \in 1 .. Len(clients) /\ driver.at <= k /\ t \in Nat /\ k \in Nat /\ driver.at \in Nat
        /\ server.doing = "polling" /\ ~Failed /\ WholeChain(clients, chain)
        /\ chain[clients[driver.at]].order \in Nat /\ t \in 1 .. Len(clients)
        /\ chain[clients[t]].order = chain[clients[driver.at]].order + (t - driver.at)
    BY <1>6, <2>2, <2>3, TurnIs
  <2>5. PICK o \in Nat : o = chain[clients[driver.at]].order + (t - driver.at)
    <3>1. \A a \in Nat : a + (t - driver.at) \in Nat
      BY <2>4
    <3>2. QED
      BY <2>4, <3>1
  <2>6. order[c] = o /\ ~Owed(o)
    <3>1. order[c] = chain[c].order /\ (Owed(order[c]) <=> worker[c] = "woke")
      BY <2>3, <2>4, CycleIsSettled
    <3>2. QED
      BY <1>0, <2>3, <2>4, <2>5, <3>1
  <2>7. chain[clients[driver.at]].order + (t + 1 - driver.at) = o + 1
    <3>1. \A a \in Nat : a + (t + 1 - driver.at) = a + (t - driver.at) + 1
      BY <2>4
    <3>2. QED
      BY <2>4, <2>5, <3>1
  <2>8. c \in Active \cap External
    BY <1>1, <2>3, <2>4, ActiveIs DEF Active
  <2>9. Owed(o)'
    BY <1>0, <1>2, <1>3, <2>6, <2>8 DEF Owed
  <2>10. ASSUME NEW f, Owed(f) PROVE Owed(f)'
    <3>1. PICK d \in Active \cap External : worker[d] = "woke" /\ order[d] = f
      BY <2>10 DEF Owed
    <3>2. worker'[d] = "woke" /\ order'[d] = f /\ d \in Active' \cap External
      BY <1>0, <1>2, <1>3, <3>1
    <3>3. QED
      BY <3>2 DEF Owed
  <2>11. ASSUME NEW f \in Fifos PROVE fifo'[f] <= Own(f)' + IF f = o + 1 THEN 1 ELSE 0
    <3>1. fifo[f] \in Int /\ fifo'[f] \in Int
      BY <1>1, <1>4, CycleAssumption
    <3>2. Own(f) \in {0, 1} /\ Own(f)' \in {0, 1} /\ Own(f) <= Own(f)'
      BY <2>10 DEF Own
    <3>3. fifo[f] <= Own(f) + IF f = o THEN 1 ELSE 0
      BY <2>2, <2>5 DEF Turn
    <3>4. CASE f = o
      <4>1. f # o + 1
        BY <3>4
      <4>2. fifo'[f] = fifo[f]
        BY <1>0, <1>1, <2>6, <4>1, PutIs
      <4>3. Own(f) = 0 /\ Own(f)' = 1
        BY <2>6, <2>9, <3>4 DEF Own
      <4>4. QED
        BY <3>1, <3>3, <3>4, <4>1, <4>2, <4>3
    <3>5. CASE f = o + 1
      <4>1. fifo'[f] <= fifo[f] + 1
        BY <1>0, <1>1, <2>6, <3>5, PutIs
      <4>2. fifo[f] <= Own(f)
        BY <3>1, <3>2, <3>3, <3>5
      <4>3. QED
        BY <3>1, <3>2, <3>5, <4>1, <4>2
    <3>6. CASE f # o /\ f # o + 1
      <4>1. fifo'[f] = fifo[f]
        BY <1>0, <1>1, <2>6, <3>6, PutIs
      <4>2. QED
        BY <3>1, <3>2, <3>3, <3>6, <4>1
    <3>7. QED
      BY <3>4, <3>5, <3>6
  <2>12. \A d \in External : worker'[d] # "processing"
    <3>1. \A d \in External : worker[d] = "processing" => d = c
      BY <2>2, <2>3 DEF Turn
    <3>2. QED
      BY <1>3, <3>1
  <2>13. Subgraph(clients, driver.at, k)
    BY <2>2 DEF Turn
  <2>14. t + 1 \in driver.at .. k + 1
    BY <2>3, <2>4
  <2>15. t + 1 <= k => clients[t + 1] \in External
    <3>1. t + 1 <= k => t + 1 \in driver.at .. k
      BY <2>14
    <3>2. QED
      BY <2>13, <3>1 DEF Subgraph
  <2>16. ASSUME NEW i \in 1 .. Len(clients)
         PROVE  ran[clients[i]] = IF i < t + 1 \/ (i = t + 1 /\ t + 1 <= k /\ worker'[clients[i]] = "processing") THEN 1 ELSE 0
    <3>1. ran[clients[i]] = IF i < t \/ (i = t /\ t <= k /\ worker[clients[i]] = "processing") THEN 1 ELSE 0
      BY <2>2 DEF Turn
    <3>2. ran[clients[i]] = IF i < t \/ i = t THEN 1 ELSE 0
      BY <1>0, <2>3, <3>1
    <3>3. i < t + 1 <=> i < t \/ i = t
      BY <2>4
    <3>4. ~(i = t + 1 /\ t + 1 <= k /\ worker'[clients[i]] = "processing")
      BY <2>12, <2>15
    <3>5. QED
      BY <3>2, <3>3, <3>4
  <2>17. Turn(driver.at, k, t + 1)'
    <3>1. PICK u \in Nat : u = t + 1
      BY <2>4
    <3>2. chain[clients[driver.at]].order + (u - driver.at) = o + 1
      <4>1. t \in Nat /\ driver.at \in Nat /\ chain[clients[driver.at]].order \in Nat
        BY <2>4
      <4>2. u - driver.at = t + 1 - driver.at
        BY <3>1, <4>1
      <4>3. QED
        BY <2>7, <4>2
    <3>3. \A i \in 1 .. Len(clients) :
            ran[clients[i]] = IF i < u \/ (i = u /\ u <= k /\ worker'[clients[i]] = "processing") THEN 1 ELSE 0
      BY <2>16, <3>1
    <3>4. \A f \in Fifos : fifo'[f] <= Own(f)' + IF f = chain[clients[driver.at]].order + (u - driver.at) THEN 1 ELSE 0
      BY <2>11, <3>2
    <3>5. Turn(driver.at, k, u)'
      BY <1>0, <2>12, <2>13, <3>3, <3>4 DEF Turn, Subgraph, Begins, Ends
    <3>6. QED
      BY <3>1, <3>5
  <2>18. QED
    BY <1>0, <2>4, <2>14, <2>17 DEF TurnKept
<1>10. QED
  BY <1>7, <1>8, <1>9 DEF CycleIInv

------------------------------------------------------------------------------
(* The specification.                                                          *)

LEMMA CycleBegins == CycleInit => CycleIInv
<1> SUFFICES ASSUME CycleInit PROVE CycleIInv
  OBVIOUS
<1> DEFINE n == Cardinality(Processors)
<1>0. /\ clients \in [1 .. n -> Processors] /\ ToSet(clients) = Processors
      /\ chain = jack_rechain_graph(clients) /\ fifo = [f \in Fifos |-> 0]
      /\ worker = [c \in External |-> "polling"] /\ order = [c \in External |-> chain[c].order]
      /\ errors = [c \in Processors |-> 0] /\ problems = 0 /\ driver = [doing |-> "idle", at |-> 0]
      /\ server = [doing |-> "polling", tell |-> <<>>, took |-> 0]
      /\ ran = [c \in Processors |-> 0] /\ clean = TRUE /\ upsets = 0
  BY DEF CycleInit, Orders
<1>1. n \in Nat /\ IsFiniteSet(Processors)
  BY CycleAssumption, FS_CardinalityType
<1>2. clients \in Seq(Processors) /\ Len(clients) = n
  BY <1>0, <1>1
<1>3. Distinct(clients)
  <2>1. clients \in Surjection(1 .. n, Processors)
    <3>1. \A c \in Processors : \E i \in 1 .. n : clients[i] = c
      BY <1>0, <1>2, ActiveIs
    <3>2. QED
      BY <1>0, <3>1 DEF Surjection
  <2>2. IsFiniteSet(1 .. n) /\ Cardinality(1 .. n) = n
    BY <1>1, FS_Interval
  <2>3. clients \in Injection(1 .. n, Processors)
    BY <2>1, <2>2, FS_Surjection
  <2>4. QED
    BY <1>2, <2>3 DEF Injection, IsInjective, Distinct
<1>4. /\ WholeChain(clients, chain)
      /\ chain \in [Processors -> [start : Fifos \cup {None}, wait : Fifos \cup {None}, order : Fifos \cup {None}]]
  BY <1>0, <1>2, <1>3, RechainIsWhole
<1>5. order \in [External -> Fifos]
  <2>1. ASSUME NEW c \in External PROVE chain[c].order \in Fifos
    <3>1. PICK i \in 1 .. Len(clients) : clients[i] = c
      BY <1>0, <1>2, ActiveIs DEF External
    <3>2. QED
      BY <1>4, <3>1 DEF WholeChain
  <2>2. QED
    BY <1>0, <2>1
<1>6. 0 \in 0 .. MaxBytes /\ 0 \in 0 .. MaxUpsets /\ 0 \in 0 .. 2
  BY CycleAssumption
<1>7. CycleTypeOK
  <2>1. fifo \in [Fifos -> 0 .. MaxBytes] /\ worker \in [External -> Workers] /\ errors \in [Processors -> 0 .. 2]
    BY <1>0, <1>6 DEF Workers
  <2>2. QED
    BY <1>0, <1>2, <1>4, <1>5, <1>6, <2>1 DEF CycleTypeOK
<1>8. server \in [doing : {"polling", "telling"}, tell : Seq(External), took : Nat] /\ server.doing = "polling" /\ server.tell = <<>>
      /\ driver \in [doing : {"idle", "walking", "waiting", "cut"}, at : Nat] /\ driver.doing = "idle"
  BY <1>0
<1>9. ServerKept
  BY <1>0, <1>3, <1>4, <1>8 DEF ServerKept
<1>10. ~Failed /\ \A c \in Processors : errors[c] = 0
  BY <1>0 DEF Failed, Active
<1>11. FailuresKept
  BY <1>10 DEF FailuresKept
<1>12. \A c \in External : order[c] = chain[c].order /\ worker[c] = "polling"
  BY <1>0
<1>13. ToldKept
  BY <1>8, <1>10, <1>12 DEF ToldKept
<1>14. WalkKept
  <2>1. Resting
    BY <1>12 DEF Resting
  <2>2. \A f \in Fifos : fifo[f] <= Own(f)
    BY <1>0 DEF Own
  <2>3. QED
    BY <1>8, <2>1, <2>2 DEF WalkKept
<1>15. TurnKept
  BY <1>8 DEF TurnKept
<1>16. QED
  BY <1>7, <1>9, <1>11, <1>13, <1>14, <1>15 DEF CycleIInv

LEMMA CycleStays ==
    ASSUME CycleIInv, UNCHANGED cycleVars
    PROVE  CycleIInv'
<1>1. UNCHANGED <<clients, chain, order, errors, problems, server, driver, ran, upsets, clean, worker, fifo>>
  BY DEF cycleVars
<1>2. worker' \in [External -> Workers] /\ fifo' \in [Fifos -> 0 .. MaxBytes]
  BY <1>1 DEF CycleIInv, CycleTypeOK
<1>3. \A f : Own(f)' = Own(f)
  BY <1>1 DEF Own, Owed, Active
<1>4. QED
  BY <1>1, <1>2, <1>3, QuietKeeps

LEMMA CycleStepKeeps == CycleIInv /\ [CycleNext]_cycleVars => CycleIInv'
<1> SUFFICES ASSUME CycleIInv, [CycleNext]_cycleVars PROVE CycleIInv'
  OBVIOUS
<1>1. CASE Acknowledges \/ DoesNotAnswer
  BY <1>1, TellsKeeps
<1>2. CASE Told
  BY <1>2, ToldKeeps
<1>3. CASE RemovesClients
  BY <1>3, RemovesClientsKeeps
<1>4. CASE StartsCycle
  BY <1>4, StartsCycleKeeps
<1>5. CASE StartsSubgraph
  BY <1>5, StartsSubgraphKeeps
<1>6. CASE SubgraphIsDone
  BY <1>6, SubgraphIsDoneKeeps
<1>7. CASE TimesOut
  BY <1>7, TimesOutKeeps
<1>8. CASE EndsCycle
  BY <1>8, EndsCycleKeeps
<1>9. ASSUME NEW fails \in BOOLEAN, CallsInternal(fails) PROVE CycleIInv'
  BY <1>9, CallsInternalKeeps
<1>10. ASSUME NEW c \in External, Wakes(c) PROVE CycleIInv'
  BY <1>10, WakesKeeps
<1>11. ASSUME NEW c \in External, WakesNext(c) PROVE CycleIInv'
  BY <1>11, WakesNextKeeps
<1>12. ASSUME NEW c \in External, CleansUp(c) PROVE CycleIInv'
  BY <1>12, CleansUpKeeps
<1>13. ASSUME NEW c \in External, Dies(c) PROVE CycleIInv'
  BY <1>13, DiesKeeps
<1>14. ASSUME NEW c \in External, SeesBrokenSocket(c) PROVE CycleIInv'
  BY <1>14, SeesBrokenSocketKeeps
<1>15. ASSUME NEW c \in Processors, Joins(c) PROVE CycleIInv'
  BY <1>15, JoinsKeeps
<1>16. ASSUME NEW c \in Processors, Unloads(c) PROVE CycleIInv'
  BY <1>16, UnloadsKeeps
<1>17. ASSUME NEW l \in Permuted, SortsAnew(l) PROVE CycleIInv'
  BY <1>17, SortsAnewKeeps
<1>18. CASE UNCHANGED cycleVars
  BY <1>18, CycleStays
<1>19. QED
  BY <1>1, <1>2, <1>3, <1>4, <1>5, <1>6, <1>7, <1>8, <1>9, <1>10, <1>11, <1>12, <1>13, <1>14, <1>15, <1>16, <1>17, <1>18
     DEF CycleNext, ServerThread, DriverThread, Worker

\* For any clients, in any order and as often as they are sorted anew, late, killed
\* or removed: the FIFOs are chained without a gap and no two clients share one, and
\* while nobody is late each client runs once a cycle, in list order and alone, and
\* the next cycle starts from drained FIFOs (jack_rechain_graph, jack_process_external,
\* jack_wake_next_client); no cycle starts with an error that is not counted.
THEOREM CycleIsKept == CycleSpec => []CycleInv
<1>1. CycleInit => CycleIInv
  BY CycleBegins
<1>2. CycleIInv /\ [CycleNext]_cycleVars => CycleIInv'
  BY CycleStepKeeps
<1>3. CycleIInv => CycleInv
  BY CycleIInvGives
<1>4. QED
  BY <1>1, <1>2, <1>3, PTL DEF CycleSpec
==============================================================================
