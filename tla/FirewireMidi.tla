---------------------------- MODULE FirewireMidi ----------------------------
(* MIDI over FireWire (drivers/firewire, drivers/freebob, drivers/am): the     *)
(* messages of a port are packed into bytes, the bytes are given to the device *)
(* period by period, and the driver at the other end puts messages together    *)
(* from them. Frames are counted in slots of eight, as the device takes a byte *)
(* in every eighth frame. Bytes are numbers, as in a MIDI stream.              *)
EXTENDS Integers, Sequences, FiniteSets, SequencesExt, Folds

CONSTANTS
    MidiPaths,          \* "ffado", "freebob" (built with JACK MIDI), "alsa" (freebob's threads)
    Messages,           \* the messages clients send
    PeriodSlots,              \* slots of a period
    OverflowSize,       \* MIDI_OVERFLOW_BUFFER_SIZE
    UnpackMax,          \* MIDI_UNPACK_MAX_MSG
    MaxMessages         \* bound: messages sent

ASSUME FirewireMidiAssumption ==
    /\ MidiPaths \subseteq {"ffado", "freebob", "alsa"}
    /\ {OverflowSize, UnpackMax, MaxMessages} \subseteq Nat /\ PeriodSlots \in Nat /\ OverflowSize <= PeriodSlots
    /\ UnpackMax >= 3

VARIABLES
    fmPath,             \* fixed
    fmSent,             \* messages given to the output port
    fmStatus,           \* midi_pack_t: running_status
    fmOver,             \* overflow_buffer
    fmMidi,             \* the buffer the playback stream transfers: a byte in each slot, or NoByte
    fmWire,             \* freebob: bytes the streams hold
    fmUnpack,           \* midi_unpack_t
    fmGot,              \* messages given to the capture port
    fmTold              \* an error was printed that tells of a loss, or a null cycle went by

fmVars == <<fmPath, fmSent, fmStatus, fmOver, fmMidi, fmWire, fmUnpack, fmGot, fmTold>>

NoByte == -1
Silent == [s \in 1 .. PeriodSlots |-> NoByte]
EmptyUnpack == [data |-> [i \in 0 .. UnpackMax - 1 |-> 0], pos |-> 0, need |-> UnpackMax]

FirewireMidiInit ==
    /\ fmPath \in MidiPaths /\ fmSent = <<>> /\ fmStatus = 0 /\ fmOver = <<>> /\ fmMidi = Silent
    /\ fmWire = <<>> /\ fmUnpack = EmptyUnpack /\ fmGot = <<>> /\ fmTold = FALSE

------------------------------------------------------------------------------
(* Packing and unpacking.                                                      *)

Voice(b) == b >= 128 /\ b < 240
Realtime(b) == b >= 248
SysexEnd == 247

midi_pack_event(status, message) ==
    IF Voice(message[1]) /\ message[1] = status THEN [status |-> status, bytes |-> Tail(message)]
    ELSE [status |-> IF Voice(message[1]) THEN message[1]
                     ELSE IF Realtime(message[1]) THEN status ELSE 0,
          bytes |-> message]

\* midi_voice_len, midi_system_len; a length of 0 means up to the end of the buffer.
VoiceLength(b) == <<3, 3, 3, 3, 2, 2, 3>>[((b - 128) \div 16) + 1]
SystemLength(b) == <<0, 2, 3, 2, 0, 0, 1, 1>>[(b - 240) + 1]

Put(u, b) == [u EXCEPT !.data[u.pos] = b, !.pos = @ + 1]
Begin(u, b, need) == [u EXCEPT !.data[0] = b, !.pos = 1, !.need = IF need = 0 THEN UnpackMax ELSE need]

\* Where a byte that is not of the realtime kind goes.
Taken(u, b) ==
    IF b < 128 THEN Put(u, b)
    ELSE IF Voice(b) THEN Begin(u, b, VoiceLength(b))
    ELSE IF b = SysexEnd THEN LET v == Put(u, b) IN [v EXCEPT !.need = v.pos]
    ELSE Begin(u, b, SystemLength(b))

\* The message that is complete; Note On with velocity 0 is Note Off, but not
\* to the encoder of ALSA.
Message(u) ==
    IF fmPath # "alsa" /\ u.data[0] \div 16 = 9 /\ u.data[2] = 0
    THEN <<128 + (u.data[0] % 16), u.data[1], 64>>
    ELSE [i \in 1 .. u.pos |-> u.data[i - 1]]

\* One round of midi_unpack_buf.
UnpackByte(st, b) ==
    IF Realtime(b) THEN [st EXCEPT !.out = Append(@, <<b>>)]
    ELSE LET u == Taken(st.unpack, b)
         IN  IF u.pos # u.need THEN [st EXCEPT !.unpack = u]
             ELSE [out |-> IF u.data[0] >= 128 THEN Append(st.out, Message(u)) ELSE st.out,
                   unpack |-> IF Voice(u.data[0]) THEN [u EXCEPT !.pos = 1]
                              ELSE [u EXCEPT !.pos = 0, !.need = UnpackMax]]

midi_unpack_buf(bytes) == FoldLeft(UnpackByte, [unpack |-> fmUnpack, out |-> fmGot], bytes)
midi_unpack_reset(u) == [u EXCEPT !.pos = 0, !.need = UnpackMax]

\* The reader at the other end, with no connection it drops what came.
Receives(bytes, connected) ==
    IF connected THEN /\ fmUnpack' = midi_unpack_buf(bytes).unpack /\ fmGot' = midi_unpack_buf(bytes).out
    ELSE UNCHANGED <<fmUnpack, fmGot>>

------------------------------------------------------------------------------
(* ffado: bytes in the slots of a period.                                      *)

Lower(a, b) == IF a < b THEN a ELSE b
Higher(a, b) == IF a > b THEN a ELSE b

\* A message from a slot on. What does not fit is for the next period; the
\* loop goes on with the next event, whose rest would overwrite this one's.
Placed(st, message, start) ==
    LET packed == midi_pack_event(st.status, message)
        size == Len(packed.bytes)
        fits == Lower(size, PeriodSlots - start)
    IN  [status |-> packed.status,
         midi |-> [s \in 1 .. PeriodSlots |-> IF s > start /\ s <= start + fits THEN packed.bytes[s - start] ELSE st.midi[s]],
         next |-> IF fits > 0 THEN start + fits ELSE st.next,
         over |-> IF fits < size THEN SubSeq(packed.bytes, fits + 1, Lower(size, fits + OverflowSize)) ELSE st.over,
         told |-> st.told \/ (fits < size /\ (size - fits > OverflowSize \/ st.left > 1)),
         left |-> st.left - 1]

\* An event begins in its own slot, or behind the bytes before it.
WriteEvent(st, e) == Placed(st, e.message, Higher(e.slot, st.next))

\* ffado_driver_write for a port that is connected.
Written(events) ==
    FoldLeft(WriteEvent,
             [status |-> fmStatus, next |-> Len(fmOver), over |-> <<>>, told |-> fmTold, left |-> Len(events),
              midi |-> [s \in 1 .. PeriodSlots |-> IF s <= Len(fmOver) THEN fmOver[s] ELSE NoByte]],
             events)

BytesOf(midi) == SelectSeq(midi, LAMBDA b : b # NoByte)

\* The events a port can have in a period: one, or two in the order of their times.
Events ==
    {<<>>} \cup {<<[slot |-> s, message |-> x]>> : s \in 0 .. PeriodSlots - 1, x \in Messages} \cup
    {<<[slot |-> s, message |-> x], [slot |-> z, message |-> y]>> :
        s \in 0 .. PeriodSlots - 1, z \in 0 .. PeriodSlots - 1, x \in Messages, y \in Messages}

InOrder(events) == Len(events) = 2 => events[1].slot <= events[2].slot
MessagesOf(events) == [i \in DOMAIN events |-> events[i].message]

\* A period: the writer's cycle, the cable and the reader's cycle.
FfadoPeriod ==
    /\ fmPath = "ffado"
    /\ \E events \in Events :
        /\ InOrder(events) /\ Len(fmSent) + Len(events) <= MaxMessages
        /\ LET w == Written(events)
           IN  /\ fmStatus' = w.status /\ fmOver' = w.over /\ fmMidi' = w.midi /\ fmTold' = w.told
               /\ fmSent' = fmSent \o MessagesOf(events)
               /\ Receives(BytesOf(w.midi), TRUE)
    /\ UNCHANGED <<fmPath, fmWire>>

\* The output port is not connected: the stream gets the silent buffer, and the
\* bytes that are left over stay.
FfadoUnconnected ==
    /\ fmPath = "ffado" /\ fmMidi' = Silent
    /\ UNCHANGED <<fmPath, fmSent, fmStatus, fmOver, fmWire, fmUnpack, fmGot, fmTold>>

\* A null cycle of the writer points only the audio streams at silence: the
\* bytes of the period before are transferred once more.
FfadoNullCycle ==
    /\ fmPath = "ffado" /\ fmTold' = (fmTold \/ fmMidi # Silent)
    /\ Receives(BytesOf(fmMidi), TRUE)
    /\ UNCHANGED <<fmPath, fmSent, fmStatus, fmOver, fmMidi, fmWire>>

\* The reader runs a null cycle, or no one is connected to its port.
FfadoReaderDrops ==
    /\ fmPath = "ffado" /\ Len(fmSent) < MaxMessages
    /\ \E x \in Messages :
        LET w == Written(<<[slot |-> 0, message |-> x]>>)
        IN  /\ fmStatus' = w.status /\ fmOver' = w.over /\ fmMidi' = w.midi /\ fmSent' = Append(fmSent, x)
    /\ fmTold' = TRUE /\ Receives(<<>>, FALSE) /\ UNCHANGED <<fmPath, fmWire>>

------------------------------------------------------------------------------
(* freebob: streams of bytes.                                                  *)

\* freebob_driver_write: a short write is told of, and ends the port's events.
FreebobWrites ==
    /\ fmPath = "freebob" /\ Len(fmSent) < MaxMessages
    /\ \E x \in Messages :
        LET packed == midi_pack_event(fmStatus, x)
        IN  \E n \in 0 .. Len(packed.bytes) :
            /\ fmStatus' = packed.status /\ fmSent' = Append(fmSent, x)
            /\ fmWire' = fmWire \o SubSeq(packed.bytes, 1, n)
            /\ fmTold' = (fmTold \/ n < Len(packed.bytes))
    /\ UNCHANGED <<fmPath, fmOver, fmMidi, fmUnpack, fmGot>>

\* freebob_driver_read takes what the stream holds, at any place in a message.
FreebobReads ==
    /\ fmPath = "freebob"
    /\ \E n \in 1 .. Len(fmWire) :
        /\ Receives(SubSeq(fmWire, 1, n), TRUE) /\ fmWire' = SubSeq(fmWire, n + 1, Len(fmWire))
    /\ UNCHANGED <<fmPath, fmSent, fmStatus, fmOver, fmMidi, fmTold>>

\* freebob_driver_run_cycle resets the packers and the unpackers after an xrun,
\* which it tells: of the writer's side, and of the reader's.
FreebobWriterReset ==
    /\ fmPath = "freebob" /\ fmStatus' = 0
    /\ UNCHANGED <<fmPath, fmSent, fmOver, fmMidi, fmWire, fmUnpack, fmGot, fmTold>>

FreebobReaderReset ==
    /\ fmPath = "freebob" /\ fmUnpack' = midi_unpack_reset(fmUnpack) /\ fmTold' = TRUE
    /\ UNCHANGED <<fmPath, fmSent, fmStatus, fmOver, fmMidi, fmWire, fmGot>>

------------------------------------------------------------------------------
(* freebob with ALSA: a thread for each direction. The sequencer's decoder     *)
(* writes whole messages; its encoder puts them together as above.             *)

\* The bytes of an event that are not refused. freebob_driver_midi_queue_thread
\* tells of each that is, and goes on with the next one.
Accepted(bytes, refused) ==
    LET kept == {i \in DOMAIN bytes : i \notin refused}
    IN  [k \in 1 .. Cardinality(kept) |-> bytes[CHOOSE i \in kept : Cardinality({j \in kept : j <= i}) = k]]

\* An event of the sequencer itself, or for a port that is not known, is
\* dropped; one that cannot be decoded is as if it were empty, and is told of.
QueueThread ==
    /\ fmPath = "alsa" /\ Len(fmSent) < MaxMessages
    /\ \E x \in Messages : \E refused \in SUBSET DOMAIN x :
        /\ fmSent' = Append(fmSent, x) /\ fmWire' = fmWire \o Accepted(x, refused)
        /\ fmTold' = (fmTold \/ refused # {})
    /\ UNCHANGED <<fmPath, fmStatus, fmOver, fmMidi, fmUnpack, fmGot>>

\* freebob_driver_midi_dequeue_thread: a byte at a time.
DequeueThread ==
    /\ fmPath = "alsa" /\ fmWire # <<>>
    /\ Receives(<<Head(fmWire)>>, TRUE) /\ fmWire' = Tail(fmWire)
    /\ UNCHANGED <<fmPath, fmSent, fmStatus, fmOver, fmMidi, fmTold>>

\* Bound: a behaviour ends where a loss is told of.
FirewireMidiNext ==
    /\ ~fmTold
    /\ \/ FfadoPeriod \/ FfadoUnconnected \/ FfadoNullCycle \/ FfadoReaderDrops
       \/ FreebobWrites \/ FreebobReads \/ FreebobWriterReset \/ FreebobReaderReset
       \/ QueueThread \/ DequeueThread

------------------------------------------------------------------------------
\* What a message is at the other end.
Heard(x) == IF fmPath # "alsa" /\ x[1] \div 16 = 9 /\ x[3] = 0 THEN <<128 + (x[1] % 16), x[2], 64>> ELSE x

AllHeard == [i \in DOMAIN fmSent |-> Heard(fmSent[i])]

\* Unless the driver told of a loss, or a null cycle went by, the other end gets
\* the messages that were sent, whole and in order, and has them all once no
\* bytes are on their way, if they fit the buffer of the reader.
MessagesArriveWhole ==
    (~fmTold /\ \A i \in DOMAIN fmSent : Len(fmSent[i]) <= UnpackMax) =>
        /\ IsPrefix(fmGot, AllHeard)
        /\ fmOver = <<>> /\ fmWire = <<>> => fmGot = AllHeard
==============================================================================
