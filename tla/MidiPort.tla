------------------------------- MODULE MidiPort -------------------------------
(* The buffer of a MIDI port: event headers grow from its start, the data of   *)
(* longer events from its end, and an input port with several connections gets *)
(* their events merged by time (libjack/midiport.c). One process cycle: the    *)
(* sources, whose buffers are clear, write, and the input port's client mixes. *)
EXTENDS Integers, Sequences, FiniteSets, SequencesExt

CONSTANTS
    Sources,        \* connected ports, 1 to their number in connection order
    BufferSize,     \* bytes of a buffer
    EventTimes,     \* frames of a period, from 0
    DataSizes,      \* sizes of an event
    MaxReserves     \* bound: events that are written in a cycle

ASSUME MidiAssumption ==
    /\ BufferSize \in Nat /\ DataSizes \subseteq Nat /\ EventTimes \subseteq Nat
    /\ Sources \subseteq Nat /\ IsFiniteSet(Sources)

VARIABLES
    midi,           \* the buffer of each source
    mix_buffer,     \* the buffer of the input port
    midi_phase,     \* "writing" or "mixed"
    reserves

midiVars == <<midi, mix_buffer, midi_phase, reserves>>

\* sizeof jack_midi_port_info_private_t, of an event header, and of the data
\* that a header holds itself.
InfoSize == 20
HeaderSize == 8
MIDI_INLINE_MAX == 4
Inline == -1

\* jack_midi_buffer_init and jack_midi_clear_buffer
EmptyBuffer == [events |-> <<>>, last_write_loc |-> 0, events_lost |-> 0]

Used(b) == InfoSize + b.last_write_loc + (Len(b.events) + 1) * HeaderSize

jack_midi_max_event_size(b) ==
    IF Used(b) > BufferSize THEN 0
    ELSE IF BufferSize - Used(b) < MIDI_INLINE_MAX THEN MIDI_INLINE_MAX
    ELSE BufferSize - Used(b)

Refused(b, time, size) ==
    \/ b.events # <<>> /\ time < Last(b.events).time
    \/ size = 0
    \/ jack_midi_max_event_size(b) < size

Loc(b, size) == b.last_write_loc + (IF size <= MIDI_INLINE_MAX THEN 0 ELSE size)

\* jack_midi_event_reserve; from is not in the buffer, it tells events apart.
jack_midi_event_reserve(b, time, size, from) ==
    IF Refused(b, time, size) THEN [b EXCEPT !.events_lost = @ + 1]
    ELSE LET loc == Loc(b, size)
             offset == IF size <= MIDI_INLINE_MAX THEN Inline ELSE BufferSize - 1 - loc
         IN  [b EXCEPT !.last_write_loc = loc,
                       !.events = Append(@, [time |-> time, size |-> size,
                                             byte_offset |-> offset, from |-> from])]

------------------------------------------------------------------------------
(* The mix-down.                                                               *)

\* Mutant: a later connection comes first when the times are the same.
Earliest_Last(read) ==
    LET open == {s \in Sources : read[s] < Len(midi[s].events)}
        next == [s \in open |-> midi[s].events[read[s] + 1].time]
    IN  CHOOSE s \in open : \A z \in open : next[s] < next[z] \/ (next[s] = next[z] /\ s >= z)

\* The source of the next event; the first one wins a tie.
Earliest(read) ==
    LET open == {s \in Sources : read[s] < Len(midi[s].events)}
        next == [s \in open |-> midi[s].events[read[s] + 1].time]
    IN  CHOOSE s \in open : \A z \in open : next[s] < next[z] \/ (next[s] = next[z] /\ s <= z)

\* The first count[s] of each source s, as pairs: they are counted by their number.
EachOf(count) == UNION {{<<s, n>> : n \in 1 .. count[s]} : s \in Sources}
AllEvents == EachOf([s \in Sources |-> Len(midi[s].events)])
NumEvents == Cardinality(AllEvents)
LostEvents == Cardinality(EachOf([s \in Sources |-> midi[s].events_lost]))

\* One round of the loop; read is each source's last_write_loc, used again.
MixOne(st, i) ==
    IF st.full THEN st
    ELSE LET s == Earliest(st.read)
             e == midi[s].events[st.read[s] + 1]
             out == jack_midi_event_reserve(st.out, e.time, e.size, e.from)
             fits == Len(out.events) > Len(st.out.events)
         IN  [read |-> [st.read EXCEPT ![s] = @ + 1],
              full |-> ~fits,
              out |-> IF fits THEN out
                      ELSE [out EXCEPT !.events_lost = NumEvents - i + 1]]

jack_midi_port_mixdown ==
    LET mixed[i \in 0 .. NumEvents] ==
          IF i = 0
          THEN [read |-> [s \in Sources |-> 0], full |-> FALSE, out |-> EmptyBuffer]
          ELSE MixOne(mixed[i - 1], i)
        end == mixed[NumEvents]
    IN  [out |-> [end.out EXCEPT !.events_lost = @ + LostEvents], read |-> end.read]

------------------------------------------------------------------------------
\* A cycle begins with cleared buffers.
MidiInit ==
    /\ midi = [s \in Sources |-> EmptyBuffer]
    /\ mix_buffer = EmptyBuffer
    /\ midi_phase = "writing"
    /\ reserves = 0

\* jack_midi_event_write by the client of a source.
WritesEvent(s, time, size) ==
    /\ midi_phase = "writing"
    /\ reserves < MaxReserves
    /\ midi' = [midi EXCEPT ![s] =
                  jack_midi_event_reserve(@, time, size, <<s, Len(@.events) + 1>>)]
    /\ reserves' = reserves + 1
    /\ UNCHANGED <<mix_buffer, midi_phase>>

\* The input port's client asks for the buffer; the sources' last_write_loc is
\* where reading stopped.
Mixes ==
    /\ midi_phase = "writing"
    /\ mix_buffer' = jack_midi_port_mixdown.out
    /\ midi' = [s \in Sources |->
                  [midi[s] EXCEPT !.last_write_loc = jack_midi_port_mixdown.read[s]]]
    /\ midi_phase' = "mixed"
    /\ UNCHANGED reserves

MidiNext ==
    \/ \E s \in Sources, t \in EventTimes, size \in DataSizes : WritesEvent(s, t, size)
    \/ Mixes

MidiSpec == MidiInit /\ [][MidiNext]_midiVars

------------------------------------------------------------------------------
Apart(b) == {i \in DOMAIN b.events : b.events[i].byte_offset # Inline}
DataOf(e) == e.byte_offset .. e.byte_offset + e.size - 1

\* Buffers are well formed.
MidiTypeOK ==
    \A b \in {midi[s] : s \in Sources} \cup {mix_buffer} :
        /\ b.last_write_loc \in Nat /\ b.events_lost \in Nat
        /\ \A i \in DOMAIN b.events :
             b.events[i].time \in EventTimes /\ b.events[i].size \in DataSizes

\* No two events share data, all of it is in the buffer, and so are the
\* headers, up to the last event a port takes.
DataIsApart ==
    midi_phase = "writing" => \A s \in Sources :
        LET b == midi[s]
        IN  /\ InfoSize + HeaderSize * Len(b.events) <= BufferSize
            /\ \A i \in Apart(b) :
                 /\ DataOf(b.events[i]) \subseteq InfoSize .. BufferSize - 1
                 /\ \A j \in Apart(b) \ {i} :
                      DataOf(b.events[i]) \cap DataOf(b.events[j]) = {}

\* midiport.h has clients write events in order and refuses others: so every
\* buffer is sorted, and a mixed one too.
EventsInOrder ==
    \A b \in {midi[s] : s \in Sources} \cup {mix_buffer} :
        \A i, j \in DOMAIN b.events : i < j => b.events[i].time <= b.events[j].time

EventAt(x) == midi[x[1]].events[x[2]]

\* x is mixed before y.
Before(x, y) ==
    \/ EventAt(x).time < EventAt(y).time
    \/ /\ EventAt(x).time = EventAt(y).time
       /\ x[1] < y[1] \/ (x[1] = y[1] /\ x[2] < y[2])

Rank(x) == Cardinality({y \in AllEvents : Before(y, x)}) + 1

\* The mixed buffer has the events of its sources, each once, those of one
\* source in their order and of two at the same time by connection, up to the
\* first one that does not fit; it counts the others as lost.
MixIsMerge ==
    midi_phase = "mixed" =>
        LET mixed == mix_buffer.events
        IN  /\ \A x \in AllEvents :
                 Rank(x) <= Len(mixed) => mixed[Rank(x)].from = EventAt(x).from
            /\ Len(mixed) <= NumEvents
            /\ mix_buffer.events_lost = NumEvents - Len(mixed) + LostEvents

\* midiport.h, of jack_midi_max_event_size: "This function returns the current
\* space available, taking into account events already stored in the port." An
\* event of that size, or a header after one, does not overlap the other end.
EventsKeepTheirHeaders ==
    midi_phase = "writing" => \A s \in Sources : \A i \in Apart(midi[s]) :
        midi[s].events[i].byte_offset >= InfoSize + HeaderSize * Len(midi[s].events)

\* A MIDI buffer holds its events apart and in order, and a mixed one those of
\* its sources.
MidiInv ==
    /\ MidiTypeOK
    /\ DataIsApart
    /\ EventsInOrder
    /\ MixIsMerge
==============================================================================
