------------------------------- MODULE NetJack -------------------------------
(* The slave end of a netjack link: datagrams that are lost, late, doubled and *)
(* out of order are collected in a packet cache, each wait of the driver looks *)
(* for the next frame there until its deadline, and resynchronises when the    *)
(* master is ahead, silent or replaced (drivers/netjack). Deadlines themselves *)
(* are time: which comes first, a datagram or the deadline, is left open.      *)
EXTENDS Integers, FiniteSets, FiniteSetsExt

CONSTANTS
    Masters,        \* addresses that send
    NumFragments,   \* fragments of a packet
    CacheSize,      \* latency + 50 in the code
    MaxFrame,       \* bound: frames a master sends, from 0
    MaxExpected,    \* bound: expected_framecnt
    ResyncAt,       \* how far ahead a packet makes the driver jump, 10 in the code
    LostMany, LostAll   \* 100 and 200 in the code

ASSUME NetAssumption ==
    /\ {NumFragments, CacheSize} \subseteq Nat \ {0}
    /\ {MaxFrame, MaxExpected, ResyncAt, LostMany, LostAll} \subseteq Nat /\ LostMany < LostAll
    /\ MaxFrame <= MaxExpected

VARIABLES
    sent,               \* frames each master has sent, lost or not
    packets,            \* the cache, by slot
    master_address,
    last_retreived,     \* last_framecnt_retreived, None if it is not valid
    expected,           \* expected_framecnt, None if it is not valid
    rx_buf,             \* the slot the driver reads from
    packet_data_valid, num_lost_packets, running_free,
    srcaddress,         \* where the answers go
    net_phase,          \* "idle", "waiting" or "ready", waited for the next cycle
    always_deadline,
    have_frame,         \* we_have_the_expected_frame
    played,             \* the last frame that was read from this master
    overrun             \* a packet that was found was thrown out before its use

netVars == <<sent, packets, master_address, last_retreived, expected, rx_buf,
             packet_data_valid, num_lost_packets, running_free, srcaddress, net_phase,
             always_deadline, have_frame, played, overrun>>
netj == <<expected, rx_buf, packet_data_valid, num_lost_packets, running_free,
          srcaddress, net_phase, have_frame, played, overrun>>

None == -1
NoMaster == "none"
NetFrames == 0 .. MaxFrame
Fragments == 0 .. NumFragments - 1
CacheSlots == 1 .. CacheSize
\* got: who sent each fragment
Slot == [valid : BOOLEAN, framecnt : NetFrames, got : [Fragments -> Masters \cup {NoMaster}]]
EmptySlot == [valid |-> FALSE, framecnt |-> 0, got |-> [i \in Fragments |-> NoMaster]]

------------------------------------------------------------------------------
(* The packet cache.                                                           *)

cache_packet_is_complete(p) == \A i \in Fragments : p.got[i] # NoMaster

CompletePackets == {s \in CacheSlots : packets[s].valid /\ cache_packet_is_complete(packets[s])}
FramesOf(S) == {packets[s].framecnt : s \in S}

\* packet_cache_get_next_available_framecnt, highest_available_framecnt
NextAvailable == LET F == {f \in FramesOf(CompletePackets) : f >= expected}
                 IN  IF F = {} THEN None ELSE Min(F)
HighestAvailable == IF CompletePackets = {} THEN None ELSE Max(FramesOf(CompletePackets))

First(S) == Min(S)
SlotOf(f) == First({s \in CacheSlots : packets[s].valid /\ packets[s].framecnt = f})

\* The packet's slot, a free one, or that of the oldest packet.
packet_cache_get_packet(f) ==
    LET same == {s \in CacheSlots : packets[s].valid /\ packets[s].framecnt = f}
        free == {s \in CacheSlots : ~packets[s].valid}
        old == Min(FramesOf(CacheSlots))
    IN  IF same # {} THEN First(same)
        ELSE IF free # {} THEN First(free)
        ELSE First({s \in CacheSlots : packets[s].framecnt = old})

\* cache_packet_set_framecnt
Named(p, f) == IF p.valid /\ p.framecnt = f THEN p
               ELSE [EmptySlot EXCEPT !.valid = TRUE, !.framecnt = f]

\* cache_packet_reset
Reset(p) == [EmptySlot EXCEPT !.framecnt = p.framecnt]

------------------------------------------------------------------------------
\* Started, with the address of the first sender if it configured the driver.
NetInit ==
    /\ sent = [m \in Masters |-> 0]
    /\ packets = [s \in CacheSlots |-> EmptySlot]
    /\ master_address = NoMaster
    /\ last_retreived = None
    /\ expected = None
    /\ rx_buf = 0
    /\ packet_data_valid = FALSE
    /\ num_lost_packets = 0
    /\ running_free = FALSE
    /\ srcaddress \in Masters \cup {NoMaster}
    /\ net_phase = "idle"
    /\ always_deadline \in BOOLEAN
    /\ have_frame = FALSE
    /\ played = None
    /\ overrun = FALSE

\* netjack_sendto at the other end.
MasterSends(m) ==
    /\ sent[m] <= MaxFrame
    /\ sent' = [sent EXCEPT ![m] = @ + 1]
    /\ UNCHANGED <<packets, master_address, last_retreived, always_deadline, netj>>

TooLate(f) == last_retreived # None /\ f <= last_retreived

\* One datagram of packet_cache_drain_socket; the first sender is the master.
Arrives(m, f, i) ==
    /\ net_phase = "waiting"
    /\ f < sent[m]
    /\ master_address \in {NoMaster, m}
    /\ master_address' = m
    /\ IF TooLate(f) THEN packets' = packets
       ELSE LET s == packet_cache_get_packet(f)
            IN  packets' = [packets EXCEPT ![s] = [Named(@, f) EXCEPT !.got[i] = m]]
    /\ UNCHANGED <<sent, last_retreived, always_deadline, netj>>

\* netjack_wait begins: the next frame, or where the master is.
WaitBegins ==
    /\ net_phase = "idle"
    /\ expected < MaxExpected
    /\ net_phase' = "waiting"
    /\ have_frame' = FALSE
    /\ expected' = IF expected # None THEN expected + 1
                   ELSE IF HighestAvailable = None THEN 0 ELSE HighestAvailable
    /\ UNCHANGED <<sent, packets, master_address, last_retreived, rx_buf,
                   packet_data_valid, num_lost_packets, running_free, srcaddress,
                   always_deadline, played, overrun>>

\* It goes on until the deadline all the same if it is told to.
SeesFrame ==
    /\ net_phase = "waiting"
    /\ always_deadline
    /\ ~have_frame
    /\ NextAvailable = expected
    /\ have_frame' = TRUE
    /\ UNCHANGED <<sent, packets, master_address, last_retreived, expected, rx_buf,
                   packet_data_valid, num_lost_packets, running_free, srcaddress,
                   net_phase, always_deadline, played, overrun>>

\* packet_cache_retreive_packet_pointer
Retreives(f) ==
    /\ expected' = f
    /\ packet_data_valid' = TRUE
    /\ num_lost_packets' = 0
    /\ IF f \in FramesOf(CompletePackets)
       THEN rx_buf' = SlotOf(f) /\ last_retreived' = f /\ overrun' = overrun
       ELSE UNCHANGED <<rx_buf, last_retreived>> /\ overrun' = TRUE

Loses ==
    /\ packet_data_valid' = FALSE
    /\ num_lost_packets' = IF num_lost_packets > LostAll THEN num_lost_packets
                           ELSE num_lost_packets + 1
    /\ UNCHANGED <<expected, rx_buf, overrun>>

\* The end of a wait: where the answers go is decided before the rest.
Ends ==
    /\ net_phase = "waiting"
    /\ net_phase' = "ready"
    /\ have_frame' = FALSE
    /\ UNCHANGED <<sent, packets, always_deadline>>

Answers == IF srcaddress = NoMaster THEN master_address ELSE srcaddress

\* The frame is there.
WaitFinds ==
    /\ Ends
    /\ IF always_deadline THEN have_frame ELSE NextAvailable = expected
    /\ Retreives(expected)
    /\ running_free' = FALSE
    /\ srcaddress' = Answers
    /\ UNCHANGED <<master_address, played>>

\* The deadline, and the next packets are too far ahead.
WaitJumps ==
    /\ Ends
    /\ ~have_frame
    /\ NextAvailable > expected
    /\ NextAvailable - expected >= ResyncAt
    /\ Retreives(NextAvailable)
    /\ running_free' = FALSE
    /\ srcaddress' = Answers
    /\ UNCHANGED <<master_address, played>>

\* The deadline: a cycle without data. A long silence is a free run.
WaitLoses ==
    /\ Ends
    /\ ~have_frame
    /\ NextAvailable # expected
    /\ NextAvailable # None => NextAvailable - expected < ResyncAt
    /\ NextAvailable = None /\ num_lost_packets > LostMany => HighestAvailable = None
    /\ Loses
    /\ running_free' = (NextAvailable = None /\ num_lost_packets > LostMany)
    /\ LET gone == running_free' /\ num_lost_packets > LostAll
       IN  IF gone
           THEN /\ srcaddress' = NoMaster
                /\ master_address' = NoMaster
                /\ last_retreived' = None
                /\ played' = None
           ELSE /\ srcaddress' = Answers
                /\ UNCHANGED <<master_address, last_retreived, played>>

\* The deadline in a free run, and there is some packet again.
WaitResyncs ==
    /\ Ends
    /\ ~have_frame
    /\ NextAvailable = None
    /\ num_lost_packets > LostMany
    /\ HighestAvailable # None
    /\ Retreives(HighestAvailable)
    /\ running_free' = FALSE
    /\ srcaddress' = Answers
    /\ UNCHANGED <<master_address, played>>

\* Mutant: the older ones stay.
packet_cache_release_packet_Keeps(f) ==
    [s \in CacheSlots |-> IF packets[s].valid /\ packets[s].framecnt = f
                     THEN Reset(packets[s]) ELSE packets[s]]

\* The packet and all older ones, complete or not.
packet_cache_release_packet(f) ==
    IF f \notin FramesOf(CompletePackets) THEN packets
    ELSE [s \in CacheSlots |-> IF packets[s].valid /\ packets[s].framecnt <= f
                          THEN Reset(packets[s]) ELSE packets[s]]

\* net_driver_read; net_driver_write answers after it, or not in a free run.
Reads ==
    /\ net_phase = "ready"
    /\ net_phase' = "idle"
    /\ IF packet_data_valid
       THEN /\ packets' = packet_cache_release_packet(expected)
            /\ played' = expected
       ELSE UNCHANGED <<packets, played>>
    /\ UNCHANGED <<sent, master_address, last_retreived, expected, rx_buf,
                   packet_data_valid, num_lost_packets, running_free, srcaddress,
                   always_deadline, have_frame, overrun>>

\* The engine runs a null cycle: the packet is not released. Before the first
\* packet netjack_send_silence has no buffer to look into.
NetNullCycle ==
    /\ net_phase = "ready"
    /\ rx_buf # 0
    /\ net_phase' = "idle"
    /\ UNCHANGED <<sent, packets, master_address, last_retreived, expected, rx_buf,
                   packet_data_valid, num_lost_packets, running_free, srcaddress,
                   always_deadline, have_frame, played, overrun>>

NetNext ==
    \/ \E m \in Masters : MasterSends(m)
    \/ \E m \in Masters, f \in NetFrames, i \in Fragments : Arrives(m, f, i)
    \/ WaitBegins \/ SeesFrame
    \/ WaitFinds \/ WaitJumps \/ WaitLoses \/ WaitResyncs
    \/ Reads \/ NetNullCycle

NetSpec == NetInit /\ [][NetNext]_netVars

------------------------------------------------------------------------------
\* The cache and the driver's fields are well formed.
NetTypeOK ==
    /\ sent \in [Masters -> 0 .. MaxFrame + 1]
    /\ packets \in [CacheSlots -> Slot]
    /\ {master_address, srcaddress} \subseteq Masters \cup {NoMaster}
    /\ {last_retreived, played} \subseteq NetFrames \cup {None}
    /\ expected \in 0 .. MaxExpected \cup {None}
    /\ rx_buf \in CacheSlots \cup {0}
    /\ num_lost_packets \in 0 .. LostAll + 1

\* packet_cache_get_packet: a frame has one slot, whichever of its fragments
\* comes first, twice or after the cache was full.
OneSlotAFrame ==
    \A s, z \in CacheSlots :
        packets[s].valid /\ packets[z].valid /\ packets[s].framecnt = packets[z].framecnt
            => s = z

\* net_driver_read renders a packet that is whole and that of the frame it
\* waited for: nothing evicts the packet between the look into the cache and
\* its use, unless the driver waits for the deadline with the packet found.
ReadsExpectedFrame ==
    net_phase = "ready" /\ packet_data_valid /\ ~overrun =>
        /\ packets[rx_buf].valid
        /\ packets[rx_buf].framecnt = expected
        /\ \A i \in Fragments : packets[rx_buf].got[i] # NoMaster

\* What is read from one master goes forward: no late or doubled datagram and no
\* packet that was passed over in a jump or a free run is played afterwards.
FramesGoForward ==
    net_phase = "ready" /\ packet_data_valid /\ ~overrun => expected > played

\* The packet cache is kept: a frame has one slot, what is read is the whole
\* packet that was waited for, and frames go forward.
NetInv ==
    /\ NetTypeOK
    /\ OneSlotAFrame
    /\ ReadsExpectedFrame
    /\ FramesGoForward
==============================================================================
