------------------------------ MODULE NetPacket ------------------------------
(* What netjack puts on the wire (drivers/netjack/netjack_packet.c): a packet  *)
(* cut into datagrams of the MTU and put together again in any order, and the  *)
(* events of a MIDI port written into the words of its channel. The words and  *)
(* the packet buffer still hold what was there in the cycles before.           *)
EXTENDS Integers, Sequences, SequencesExt

CONSTANTS
    Header,         \* sizeof(jacknet_packet_header), in bytes
    Mtus,           \* MTUs, at least twice the header as netjack_startup demands
    PacketSizes,    \* sizes of a packet, header and all
    Words,          \* buffer_size_uint32, the words of a MIDI channel
    MidiEvents,     \* events: [time, quads, data], quads of the same data word
    MaxEvents       \* bound: events in a cycle

ASSUME PacketAssumption ==
    /\ Header \in Nat \ {0} /\ Words \in Nat /\ Words > 4
    /\ \A x \in Mtus : x \in Nat /\ x >= 2 * Header
    /\ \A x \in PacketSizes : x \in Nat /\ x >= Header

VARIABLES
    mtu, packet_size,
    packet_buf,         \* the payload as it was put together, by offset
    fragment_array,     \* fragments that are there
    payload,            \* the words of a MIDI channel
    midi_in             \* the events that were encoded into them

packetVars == <<mtu, packet_size, packet_buf, fragment_array, payload, midi_in>>

Old == -1
fragment_payload_size == mtu - Header
PayloadSize == packet_size - Header

------------------------------------------------------------------------------
(* Fragments.                                                                  *)

\* packet_cache_new, with the integer division of C.
fragment_number ==
    IF packet_size = Header THEN 1
    ELSE (packet_size - Header - 1) \div fragment_payload_size + 1

\* How many fragments netjack_sendto sends before the last one: it goes on as
\* long as there is more than a fragment left.
FullFragments ==
    IF packet_size <= mtu THEN 0
    ELSE (PayloadSize - 1) \div fragment_payload_size

\* The payload of fragment nr of netjack_sendto.
Piece(nr) == [from |-> nr * fragment_payload_size,
              len |-> IF nr < FullFragments THEN fragment_payload_size
                      ELSE PayloadSize - FullFragments * fragment_payload_size]

Fits(nr, len) == nr * fragment_payload_size + len <= PayloadSize

\* cache_packet_add_fragment, for a fragment that comes first, late or again.
AddFragment(nr) ==
    LET p == Piece(nr)
    IN  /\ nr \in 0 .. FullFragments
        /\ IF nr = 0 \/ (nr < fragment_number /\ Fits(nr, p.len))
           THEN /\ packet_buf' = [k \in DOMAIN packet_buf |->
                        IF k \in p.from .. p.from + p.len - 1 THEN k ELSE packet_buf[k]]
                /\ fragment_array' = fragment_array \cup {nr}
           ELSE UNCHANGED <<packet_buf, fragment_array>>
        /\ UNCHANGED <<mtu, packet_size, payload, midi_in>>

------------------------------------------------------------------------------
(* MIDI.                                                                       *)

\* The words of an event: its words in all, its time, its size and its data.
WordsOf(e) == <<3 + e.quads, e.time, e.quads>> \o [i \in 1 .. e.quads |-> e.data]

Takes(used, e) == used + 3 + e.quads < Words - 1

\* The events that encode_midi_buffer writes before the first that it cannot.
Encoded(events) ==
    LET step(st, e) == IF st.full \/ ~Takes(Len(st.words), e) THEN [st EXCEPT !.full = TRUE]
                       ELSE [words |-> st.words \o WordsOf(e), full |-> FALSE]
    IN  FoldLeft(step, [words |-> <<>>, full |-> FALSE], events).words

encode_midi_buffer(events) ==
    LET w == Append(Encoded(events), 0)
    IN  [i \in 1 .. Words |-> IF i <= Len(w) THEN w[i] ELSE payload[i]]

\* The word at i, from 0 as in C.
Word(i) == payload[i + 1]

\* decode_midi_buffer: from event to event, until one is empty or there is no
\* room for another.
decode_midi_buffer ==
    LET step(st, x) ==
            IF st.i >= Words - 3 \/ Word(st.i) = 0 THEN st
            ELSE [i |-> st.i + 3 + Word(st.i + 2),
                  out |-> Append(st.out, [time |-> Word(st.i + 1),
                                          quads |-> Word(st.i + 2),
                                          data |-> Word(st.i + 3)])]
    IN  FoldLeft(step, [i |-> 0, out |-> <<>>], [k \in 1 .. Words |-> k]).out

\* A cycle of the sender: a port's events go into the words that are there.
EncodesMidi(events) ==
    /\ payload' = encode_midi_buffer(events)
    /\ midi_in' = events
    /\ UNCHANGED <<mtu, packet_size, packet_buf, fragment_array>>

------------------------------------------------------------------------------
PacketInit ==
    /\ mtu \in Mtus
    /\ packet_size \in PacketSizes
    /\ packet_buf = [k \in 0 .. PayloadSize - 1 |-> Old]
    /\ fragment_array = {}
    /\ payload = [i \in 1 .. Words |-> 0]
    /\ midi_in = <<>>

PacketNext ==
    \/ \E nr \in 0 .. FullFragments : AddFragment(nr)
    \/ \E n \in 0 .. MaxEvents : \E events \in [1 .. n -> MidiEvents] : EncodesMidi(events)

PacketSpec == PacketInit /\ [][PacketNext]_packetVars

------------------------------------------------------------------------------
\* netjack_sendto and packet_cache_new count fragments in different ways, and
\* agree: a packet that has all its fragments is byte for byte the one that was
\* sent, for a payload that fills its last datagram too.
WholeWhenComplete ==
    fragment_array = 0 .. fragment_number - 1 =>
        \A k \in DOMAIN packet_buf : packet_buf[k] = k

\* Every datagram of a packet is taken, so that it can become complete.
FragmentsAreTaken ==
    /\ fragment_number = FullFragments + 1
    /\ \A nr \in 1 .. FullFragments : Fits(nr, Piece(nr).len)

\* What is decoded is what was encoded, in order, up to the first event that
\* does not fit: nothing of an earlier cycle that is still in the words.
MidiGoesThrough ==
    /\ IsPrefix(decode_midi_buffer, midi_in)
    /\ Len(Encoded(midi_in)) = FoldLeft(LAMBDA n, e : n + 3 + e.quads, 0, decode_midi_buffer)

\* Packets are taken to pieces and put together, and MIDI events come out as they
\* went in.
PacketInv ==
    /\ WholeWhenComplete
    /\ FragmentsAreTaken
    /\ MidiGoesThrough
==============================================================================
