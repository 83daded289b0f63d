-------------------------- MODULE JackSharedProofs ---------------------------
(* What holds of the data that clients and server share, for any sizes, any *)
(* number of clients and any interleaving: ring buffers (RingInv), metadata *)
(* (MetadataInv), the shared memory registry (RegistryInv), the buffers of  *)
(* MIDI ports (MidiInv) and the latencies of ports (LatencyInv).            *)
EXTENDS RingBuffer, JackMetadata, ShmRegistry, MidiPort, JackLatency,
        SequenceTheorems, FiniteSetTheorems, TLAPS

------------------------------------------------------------------------------
(* Ring buffers. The ring buffer is a queue for every size and any number   *)
(* of bytes: what the pointers say is what is there, nothing that one side  *)
(* has claimed is touched by the other, and bytes come out as they went in  *)
(* (RingInv).                                                               *)
(*                                                                          *)
(* RingInv speaks of remainders and of both sides' claims, and is not       *)
(* inductive: between its copy and its move the writer has bytes in the     *)
(* buffer that the pointers do not count yet. RingIInv says the same        *)
(* without remainders, by the distance of a cell from a pointer, and adds   *)
(* those bytes.                                                             *)

USE RingAssumption

\* The numbers that RingBuffer counts with.
Ranges ==
    /\ write_ptr \in Cells /\ read_ptr \in Cells
    /\ buf \in [Cells -> Nat]
    /\ w_at \in {"idle", "copies", "moves"} /\ w_n \in Nat /\ w_rest \in Nat
    /\ r_at \in {"idle", "copies"} /\ r_n \in Nat /\ r_rest \in Nat
    /\ written \in Nat /\ taken \in Nat

\* The pointers are as far apart as there are bytes, one cell staying free.
Distance == written - taken = Ahead(write_ptr, read_ptr)

\* A side that is idle claims nothing.
IdleClaims ==
    /\ w_at = "idle" => w_n = 0 /\ w_rest = 0
    /\ r_at = "idle" => r_n = 0 /\ r_rest = 0

\* The unread bytes, cell by cell.
Unread == \A i \in Cells : Ahead(i, read_ptr) < written - taken => buf[i] = taken + Ahead(i, read_ptr)

\* The bytes that were copied and are not counted yet.
Copied ==
    w_at = "moves" => \A i \in Cells : Ahead(i, write_ptr) < w_n => buf[i] = written + Ahead(i, write_ptr)

RingIInv == Ranges /\ Distance /\ IdleClaims /\ ClaimsHold /\ Unread /\ Copied

------------------------------------------------------------------------------
(* Arithmetic around the end of the buffer.                                    *)

\* & size_mask, of a pointer that moved by less than the size.
LEMMA MaskWraps ==
    ASSUME NEW p \in Cells, NEW n \in Nat, n < Size
    PROVE  (p + n) % Size = IF p + n >= Size THEN p + n - Size ELSE p + n
<1>1. CASE p + n < Size
  BY <1>1, Z3 DEF Cells
<1>2. CASE p + n >= Size
  BY <1>2, Z3 DEF Cells
<1>. QED
  BY <1>1, <1>2 DEF Cells

LEMMA MaskInCells ==
    ASSUME NEW p \in Cells, NEW n \in Nat, n < Size
    PROVE  (p + n) % Size \in Cells
BY MaskWraps DEF Cells

\* How far a cell is from a pointer.
LEMMA AheadInRange ==
    ASSUME NEW i \in Cells, NEW p \in Cells
    PROVE  Ahead(i, p) \in 0 .. Size - 1
BY DEF Ahead, Cells

\* A pointer that has moved by n is n ahead, and what was further ahead is n nearer.
LEMMA MovedPointer ==
    ASSUME NEW p \in Cells, NEW n \in Nat, n < Size, NEW i \in Cells
    PROVE  Ahead(i, (p + n) % Size) =
             IF Ahead(i, p) >= n THEN Ahead(i, p) - n ELSE Ahead(i, p) - n + Size
<1>. DEFINE q == (p + n) % Size
<1>1. q = IF p + n >= Size THEN p + n - Size ELSE p + n
  BY MaskWraps
<1>2. q \in Cells
  BY MaskInCells
<1>. HIDE DEF q
<1>3. Ahead(i, q) = IF Ahead(i, p) >= n THEN Ahead(i, p) - n ELSE Ahead(i, p) - n + Size
  BY <1>1, <1>2 DEF Ahead, Cells
<1>. QED
  BY <1>3 DEF q

\* Between two pointers the cells are counted from either.
LEMMA TwoPointers ==
    ASSUME NEW i \in Cells, NEW r \in Cells, NEW w \in Cells
    PROVE  Ahead(i, r) < Ahead(w, r) => Ahead(i, w) = Ahead(i, r) - Ahead(w, r) + Size
BY DEF Ahead, Cells

\* And beyond the second they are further from the first.
LEMMA BeyondPointer ==
    ASSUME NEW i \in Cells, NEW r \in Cells, NEW w \in Cells
    PROVE  Ahead(i, r) >= Ahead(w, r) => Ahead(i, w) = Ahead(i, r) - Ahead(w, r)
BY DEF Ahead, Cells

\* The spaces of the two pointers are the distance between them.
LEMMA SpaceIsDistance ==
    ASSUME NEW w \in Cells, NEW r \in Cells
    PROVE  /\ jack_ringbuffer_read_space(w, r) = Ahead(w, r)
           /\ jack_ringbuffer_write_space(w, r) = Size - 1 - Ahead(w, r)
<1>1. CASE w = r
  <2>1. (w - r + Size) % Size = 0
    BY <1>1, Z3 DEF Cells
  <2>. QED
    BY <1>1, <2>1 DEF Cells, Ahead, jack_ringbuffer_read_space, jack_ringbuffer_write_space
<1>2. CASE w > r
  <2>1. (r - w + Size) % Size = r - w + Size
    BY <1>2, Z3 DEF Cells
  <2>. QED
    BY <1>2, <2>1 DEF Cells, Ahead, jack_ringbuffer_read_space, jack_ringbuffer_write_space
<1>3. CASE w < r
  <2>1. (w - r + Size) % Size = w - r + Size
    BY <1>3, Z3 DEF Cells
  <2>. QED
    BY <1>3, <2>1 DEF Cells, Ahead, jack_ringbuffer_read_space, jack_ringbuffer_write_space
<1>. QED
  BY <1>1, <1>2, <1>3 DEF Cells

\* Two parts are what was asked for.
LEMMA PartsAddUp ==
    ASSUME NEW p \in Cells, NEW n \in Nat, n < Size
    PROVE  /\ FirstPart(p, n) \in Nat /\ SecondPart(p, n) \in Nat
           /\ FirstPart(p, n) + SecondPart(p, n) = n
<1>1. p + n > Size => (p + n) % Size = p + n - Size
  BY MaskWraps DEF Cells
<1>. QED
  BY <1>1 DEF FirstPart, SecondPart, Cells

------------------------------------------------------------------------------
(* The invariant.                                                              *)

\* It holds of a new buffer.
LEMMA InitEstablishesIInv == RingInit => RingIInv
<1>. SUFFICES ASSUME RingInit PROVE RingIInv
  OBVIOUS
<1>1. Ranges
  BY DEF RingInit, Ranges, Cells
<1>2. Distance /\ IdleClaims /\ ClaimsHold /\ Unread /\ Copied
  <2>1. 0 \in Cells /\ Ahead(0, 0) = 0
    BY DEF Cells, Ahead
  <2>2. \A i \in Cells : ~(Ahead(i, 0) < 0)
    BY <2>1, AheadInRange
  <2>. QED
    BY <2>1, <2>2 DEF RingInit, Distance, IdleClaims, ClaimsHold, Unread, Copied, Cells
<1>. QED
  BY <1>1, <1>2 DEF RingIInv

\* What a side claims when it begins: no more than the space it saw.
LEMMA ClaimsFit ==
    ASSUME RingIInv, NEW cnt \in 1 .. Size
    PROVE  /\ jack_ringbuffer_read_space(write_ptr, read_ptr) = written - taken
           /\ jack_ringbuffer_write_space(write_ptr, read_ptr) = Size - 1 - (written - taken)
           /\ written - taken \in 0 .. Size - 1
<1>1. write_ptr \in Cells /\ read_ptr \in Cells /\ written - taken = Ahead(write_ptr, read_ptr)
  BY DEF RingIInv, Ranges, Distance
<1>. QED
  BY <1>1, SpaceIsDistance, AheadInRange

LEMMA BeginsWriteKeeps ==
    ASSUME RingIInv, NEW cnt \in 1 .. Size, BeginsWrite(cnt) \/ BeginsWriteVector(cnt)
    PROVE  RingIInv'
<1>. DEFINE free == jack_ringbuffer_write_space(write_ptr, read_ptr)
<1>1. free = Size - 1 - (written - taken) /\ free \in 0 .. Size - 1
  BY ClaimsFit
<1>2. write_ptr \in Cells
  BY DEF RingIInv, Ranges
<1>3. w_at' = "copies" /\ w_n' \in Nat /\ w_rest' \in Nat /\ w_n' + w_rest' <= free
  <2>1. CASE BeginsWrite(cnt)
    <3>. DEFINE n == Least(cnt, free)
    <3>1. n \in Nat /\ n < Size /\ n <= free
      BY <1>1 DEF Least
    <3>2. w_n' = FirstPart(write_ptr, n) /\ w_rest' = SecondPart(write_ptr, n) /\ w_at' = "copies"
      BY <2>1 DEF BeginsWrite
    <3>. HIDE DEF n, free
    <3>. QED
      BY <1>2, <3>1, <3>2, PartsAddUp
  <2>2. CASE BeginsWriteVector(cnt)
    <3>1. FirstPart(write_ptr, free) + SecondPart(write_ptr, free) = free
      BY <1>1, <1>2, PartsAddUp
    <3>2. w_at' = "copies" /\ w_n' = cnt /\ w_rest' = 0 /\ cnt <= free
      BY <1>1, <2>2, <3>1 DEF BeginsWriteVector
    <3>. QED
      BY <1>1, <3>2
  <2>. QED
    BY <2>1, <2>2
<1>4. UNCHANGED <<write_ptr, read_ptr, buf, r_at, r_n, r_rest, written, taken>>
  BY DEF BeginsWrite, BeginsWriteVector
<1>. HIDE DEF free
<1>5. Ranges'
  BY <1>3, <1>4 DEF RingIInv, Ranges
<1>6. Distance' /\ Unread'
  BY <1>4 DEF RingIInv, Distance, Unread
<1>7. IdleClaims' /\ Copied'
  BY <1>3, <1>4 DEF RingIInv, IdleClaims, Copied
<1>8. ClaimsHold'
  BY <1>1, <1>3, <1>4 DEF RingIInv, ClaimsHold
<1>. QED
  BY <1>5, <1>6, <1>7, <1>8 DEF RingIInv

LEMMA BeginsReadKeeps ==
    ASSUME RingIInv, NEW cnt \in 1 .. Size, BeginsRead(cnt) \/ BeginsReadVector(cnt)
    PROVE  RingIInv'
<1>. DEFINE full == jack_ringbuffer_read_space(write_ptr, read_ptr)
<1>1. full = written - taken /\ full \in 0 .. Size - 1
  BY ClaimsFit
<1>2. read_ptr \in Cells
  BY DEF RingIInv, Ranges
<1>3. r_at' = "copies" /\ r_n' \in Nat /\ r_rest' \in Nat /\ r_n' + r_rest' <= full
  <2>1. CASE BeginsRead(cnt)
    <3>. DEFINE n == Least(cnt, full)
    <3>1. n \in Nat /\ n < Size /\ n <= full
      BY <1>1 DEF Least
    <3>2. r_n' = FirstPart(read_ptr, n) /\ r_rest' = SecondPart(read_ptr, n) /\ r_at' = "copies"
      BY <2>1 DEF BeginsRead
    <3>. HIDE DEF n, full
    <3>. QED
      BY <1>2, <3>1, <3>2, PartsAddUp
  <2>2. CASE BeginsReadVector(cnt)
    <3>1. FirstPart(read_ptr, full) + SecondPart(read_ptr, full) = full
      BY <1>1, <1>2, PartsAddUp
    <3>2. r_at' = "copies" /\ r_n' = cnt /\ r_rest' = 0 /\ cnt <= full
      BY <1>1, <2>2, <3>1 DEF BeginsReadVector
    <3>. QED
      BY <1>1, <3>2
  <2>. QED
    BY <2>1, <2>2
<1>4. UNCHANGED <<write_ptr, read_ptr, buf, w_at, w_n, w_rest, written, taken>>
  BY DEF BeginsRead, BeginsReadVector
<1>. HIDE DEF full
<1>5. Ranges'
  BY <1>3, <1>4 DEF RingIInv, Ranges
<1>6. Distance' /\ Unread' /\ Copied'
  BY <1>4 DEF RingIInv, Distance, Unread, Copied
<1>7. IdleClaims'
  BY <1>3, <1>4 DEF RingIInv, IdleClaims
<1>8. ClaimsHold'
  BY <1>1, <1>3, <1>4 DEF RingIInv, ClaimsHold
<1>. QED
  BY <1>5, <1>6, <1>7, <1>8 DEF RingIInv

\* The writer copies into cells that the reader does not count: those ahead of
\* write_ptr by less than w_n are no unread ones.
LEMMA WriterCopiesKeeps ==
    ASSUME RingIInv, WriterCopies
    PROVE  RingIInv'
<1>. USE DEF RingIInv, WriterCopies
<1>1. Ranges'
  <2>1. \A i \in Cells : Ahead(i, write_ptr) \in Nat /\ buf[i] \in Nat /\ written \in Nat
    BY AheadInRange DEF Ranges
  <2>2. buf' \in [Cells -> Nat]
    BY <2>1
  <2>. QED
    BY <2>2 DEF Ranges
<1>2. Distance' /\ IdleClaims' /\ ClaimsHold'
  BY DEF Distance, IdleClaims, ClaimsHold
<1>3. Unread'
  <2>. SUFFICES ASSUME NEW i \in Cells, Ahead(i, read_ptr) < written - taken
                PROVE  buf'[i] = taken + Ahead(i, read_ptr)
    BY DEF Unread
  <2>1. Ahead(i, write_ptr) = Ahead(i, read_ptr) - (written - taken) + Size
    BY TwoPointers DEF Ranges, Distance
  <2>2. ~(Ahead(i, write_ptr) < w_n)
    BY <2>1, AheadInRange DEF Ranges, ClaimsHold
  <2>. QED
    BY <2>2 DEF Unread
<1>4. Copied'
  BY DEF Copied
<1>. QED
  BY <1>1, <1>2, <1>3, <1>4

\* The writer's pointer moves past what it has copied: a cell is either unread
\* already or one of those.
LEMMA WriterMovesKeeps ==
    ASSUME RingIInv, WriterMoves
    PROVE  RingIInv'
<1>. USE DEF RingIInv
<1>0. /\ write_ptr \in Cells /\ read_ptr \in Cells /\ w_n \in Nat /\ w_rest \in Nat
      /\ written \in Nat /\ taken \in Nat /\ r_n \in Nat /\ r_rest \in Nat
  BY DEF Ranges
<1>1. w_n + w_rest <= Size - 1 - (written - taken) /\ r_n + r_rest <= written - taken
  BY DEF ClaimsHold
<1>2. w_n < Size
  BY <1>0, <1>1
<1>3. /\ w_at = "moves" /\ write_ptr' = (write_ptr + w_n) % Size /\ written' = written + w_n
      /\ w_at' = (IF w_rest = 0 THEN "idle" ELSE "copies") /\ w_n' = w_rest /\ w_rest' = 0
      /\ UNCHANGED <<read_ptr, buf, r_at, r_n, r_rest, taken>>
  BY DEF WriterMoves
<1>4. write_ptr' \in Cells
  BY <1>0, <1>2, <1>3, MaskInCells
<1>5. Ranges'
  BY <1>0, <1>3, <1>4 DEF Ranges
<1>6. Distance'
  <2>1. Ahead(write_ptr', read_ptr) = Ahead(write_ptr, read_ptr) + w_n
    <3>1. Ahead(write_ptr, read_ptr) + w_n < Size
      BY <1>0, <1>1 DEF Distance
    <3>2. write_ptr' = IF write_ptr + w_n >= Size THEN write_ptr + w_n - Size ELSE write_ptr + w_n
      BY <1>0, <1>2, <1>3, MaskWraps
    <3>. QED
      BY <1>0, <1>2, <3>1, <3>2 DEF Ahead, Cells
  <2>. QED
    BY <1>0, <1>3, <2>1 DEF Distance
<1>7. IdleClaims' /\ Copied'
  BY <1>0, <1>3 DEF IdleClaims, Copied
<1>8. ClaimsHold'
  BY <1>0, <1>1, <1>3 DEF ClaimsHold
<1>9. Unread'
  <2>0. written' = written + w_n /\ taken' = taken /\ read_ptr' = read_ptr /\ buf' = buf
    BY <1>3
  <2>. SUFFICES ASSUME NEW i \in Cells, Ahead(i, read_ptr) < (written + w_n) - taken
                PROVE  buf[i] = taken + Ahead(i, read_ptr)
    BY <2>0 DEF Unread
  <2>1. CASE Ahead(i, read_ptr) < written - taken
    BY <2>1 DEF Unread
  <2>2. CASE Ahead(i, read_ptr) >= written - taken
    <3>1. Ahead(i, write_ptr) = Ahead(i, read_ptr) - (written - taken)
      BY <1>0, <2>2, BeyondPointer DEF Distance
    <3>2. Ahead(i, write_ptr) < w_n
      BY <1>0, <3>1, AheadInRange
    <3>3. buf[i] = written + Ahead(i, write_ptr)
      BY <1>3, <3>2 DEF Copied
    <3>. QED
      BY <1>0, <3>1, <3>3, AheadInRange
  <2>. QED
    BY <1>0, <2>1, <2>2, AheadInRange
<1>. QED
  BY <1>5, <1>6, <1>7, <1>8, <1>9

\* The reader's pointer moves past what it has taken: what is left is nearer by that.
LEMMA ReaderMovesKeeps ==
    ASSUME RingIInv, ReaderMoves
    PROVE  RingIInv'
<1>. USE DEF RingIInv
<1>0. /\ write_ptr \in Cells /\ read_ptr \in Cells /\ w_n \in Nat /\ w_rest \in Nat
      /\ written \in Nat /\ taken \in Nat /\ r_n \in Nat /\ r_rest \in Nat
  BY DEF Ranges
<1>1. w_n + w_rest <= Size - 1 - (written - taken) /\ r_n + r_rest <= written - taken
  BY DEF ClaimsHold
<1>2. r_n < Size
  BY <1>0, <1>1
<1>3. /\ read_ptr' = (read_ptr + r_n) % Size /\ taken' = taken + r_n
      /\ r_at' = (IF r_rest = 0 THEN "idle" ELSE "copies") /\ r_n' = r_rest /\ r_rest' = 0
      /\ UNCHANGED <<write_ptr, buf, w_at, w_n, w_rest, written>>
  BY DEF ReaderMoves
<1>4. read_ptr' \in Cells
  BY <1>0, <1>2, <1>3, MaskInCells
<1>5. Ranges'
  BY <1>0, <1>3, <1>4 DEF Ranges
<1>6. \A i \in Cells : Ahead(i, read_ptr') =
          IF Ahead(i, read_ptr) >= r_n THEN Ahead(i, read_ptr) - r_n ELSE Ahead(i, read_ptr) - r_n + Size
  BY <1>0, <1>2, <1>3, MovedPointer
<1>7. Distance'
  <2>1. Ahead(write_ptr, read_ptr) >= r_n
    BY <1>0, <1>1 DEF Distance
  <2>2. Ahead(write_ptr, read_ptr') = Ahead(write_ptr, read_ptr) - r_n
    BY <1>0, <1>6, <2>1
  <2>. QED
    BY <1>0, <1>3, <2>2 DEF Distance
<1>8. IdleClaims' /\ Copied'
  BY <1>0, <1>3 DEF IdleClaims, Copied
<1>9. ClaimsHold'
  BY <1>0, <1>1, <1>3 DEF ClaimsHold
<1>10. Unread'
  <2>. SUFFICES ASSUME NEW i \in Cells, Ahead(i, read_ptr') < written - (taken + r_n)
                PROVE  buf[i] = taken + r_n + Ahead(i, read_ptr')
    BY <1>3 DEF Unread
  <2>1. Ahead(i, read_ptr) \in 0 .. Size - 1 /\ written - taken \in 0 .. Size - 1
    BY <1>0, AheadInRange DEF Distance
  <2>2. Ahead(i, read_ptr) >= r_n /\ Ahead(i, read_ptr') = Ahead(i, read_ptr) - r_n
    BY <1>0, <1>6, <2>1
  <2>3. buf[i] = taken + Ahead(i, read_ptr)
    BY <1>0, <2>1, <2>2 DEF Unread
  <2>. QED
    BY <1>0, <2>1, <2>2, <2>3
<1>. QED
  BY <1>5, <1>7, <1>8, <1>9, <1>10

LEMMA PeekedKeeps ==
    ASSUME RingIInv, Peeked
    PROVE  RingIInv'
BY DEF RingIInv, Peeked, Ranges, Distance, IdleClaims, ClaimsHold, Unread, Copied

LEMMA StepKeepsIInv == RingIInv /\ [RingNext]_ringVars => RingIInv'
<1>. SUFFICES ASSUME RingIInv, [RingNext]_ringVars PROVE RingIInv'
  OBVIOUS
<1>1. ASSUME NEW cnt \in 1 .. Size, BeginsWrite(cnt) \/ BeginsWriteVector(cnt) PROVE RingIInv'
  BY <1>1, BeginsWriteKeeps
<1>2. ASSUME NEW cnt \in 1 .. Size, BeginsRead(cnt) \/ BeginsReadVector(cnt) PROVE RingIInv'
  BY <1>2, BeginsReadKeeps
<1>3. CASE WriterCopies
  BY <1>3, WriterCopiesKeeps
<1>4. CASE WriterMoves
  BY <1>4, WriterMovesKeeps
<1>5. CASE ReaderMoves
  BY <1>5, ReaderMovesKeeps
<1>6. CASE Peeked
  BY <1>6, PeekedKeeps
<1>7. CASE UNCHANGED ringVars
  BY <1>7 DEF ringVars, RingIInv, Ranges, Distance, IdleClaims, ClaimsHold, Unread, Copied
<1>. QED
  BY <1>1, <1>2, <1>3, <1>4, <1>5, <1>6, <1>7 DEF RingNext

\* What it says is what RingInv says.
LEMMA IInvImpliesInv == RingIInv => RingInv
<1>. SUFFICES ASSUME RingIInv PROVE RingInv
  OBVIOUS
<1>. USE DEF RingIInv
<1>1. /\ write_ptr \in Cells /\ read_ptr \in Cells /\ w_n \in Nat /\ w_rest \in Nat
      /\ written \in Nat /\ taken \in Nat /\ r_n \in Nat /\ r_rest \in Nat
  BY DEF Ranges
<1>2. written - taken \in 0 .. Size - 1 /\ SpaceIsCount
  BY <1>1, SpaceIsDistance, AheadInRange DEF Distance, SpaceIsCount
<1>3. RingTypeOK
  BY <1>1, <1>2 DEF Ranges, RingTypeOK, ClaimsHold
<1>4. UnreadStay
  <2>. SUFFICES ASSUME NEW k \in Cells, k < written - taken
                PROVE  buf[(read_ptr + k) % Size] = taken + k
    BY DEF UnreadStay
  <2>. DEFINE i == (read_ptr + k) % Size
  <2>1. k \in Nat /\ k < Size
    BY DEF Cells
  <2>2. i \in Cells /\ (i = IF read_ptr + k >= Size THEN read_ptr + k - Size ELSE read_ptr + k)
    BY <1>1, <2>1, MaskWraps, MaskInCells
  <2>. HIDE DEF i
  <2>3. Ahead(i, read_ptr) = k
    BY <1>1, <2>1, <2>2 DEF Ahead, Cells
  <2>4. buf[i] = taken + k
    BY <2>2, <2>3 DEF Unread
  <2>. QED
    BY <2>4 DEF i
<1>. QED
  BY <1>2, <1>3, <1>4 DEF RingInv

------------------------------------------------------------------------------
\* The ring buffer of any size is a queue, with a reader and a writer that run
\* beside each other without a lock (jack_ringbuffer_read, _write, and the
\* vectors): RingInv, which the run JackLibrary checks.
THEOREM RingBufferIsQueue == RingSpec => []RingInv
<1>1. RingInit => RingIInv
  BY InitEstablishesIInv
<1>2. RingIInv /\ [RingNext]_ringVars => RingIInv'
  BY StepKeepsIInv
<1>3. RingIInv => RingInv
  BY IInvImpliesInv
<1>. QED
  BY <1>1, <1>2, <1>3, PTL DEF RingSpec

HIDE RingAssumption

------------------------------------------------------------------------------
(***************************************************************************)
(* Metadata.  What the listener will believe of a property once it has     *)
(* taken the first i notices: what the last of them about it says, or what *)
(* it believes now if none is about it.                                    *)
(***************************************************************************)
About(r, n) ==
    IF n.change # "Deleted" THEN r = <<n.subject, n.key>>
    ELSE /\ n.subject = NoSubject \/ r[1] = n.subject
         /\ n.key = NoKey \/ r[2] = n.key

WillBelieve(r, i) ==
    \/ r \in known /\ \A j \in 1 .. i : ~About(r, notices[j])
    \/ \E j \in 1 .. i : /\ About(r, notices[j]) /\ notices[j].change # "Deleted"
                         /\ \A k \in j + 1 .. i : ~About(r, notices[k])
Believed(r) == WillBelieve(r, Len(notices))

OnlyOwnersDescribe == \A pair \in MaySet : pair[1] = OwnerOf[pair[2]]
Owns(c, r) == OwnerOf[r[1]] = c

RealNotices ==
    {n \in Notices : n.change # "Deleted" => n.subject \in Subjects /\ n.key \in Keys}
Calls ==
    {NoCall} \cup [pc : {"put"}, at : Pairs, size : Sizes, change : {"Created", "Changed"}]
    \cup [pc : {"notify"}, notice : RealNotices]
    \cup [pc : {"cursor"}, left : SUBSET Pairs, subject : Subjects, count : Nat]

MetadataShape ==
    /\ db \in [Pairs -> Sizes \cup {0}] /\ subjects \subseteq Subjects /\ known \subseteq Pairs
    /\ handle \in [Setters -> {"none", "open", "broken", "dead"}]
    /\ call \in [Setters -> Calls] /\ notices \in Seq(RealNotices)

\* Only who opened the database is in a call, and only about what it owns.
CallsOK ==
    \A c \in Setters :
        /\ call[c] # NoCall => handle[c] = "open"
        /\ call[c].pc = "put" => Owns(c, call[c].at) /\ call[c].at[1] \in subjects
        /\ call[c].pc = "cursor" => OwnerOf[call[c].subject] = c /\ call[c].left \subseteq Of(call[c].subject)
        /\ call[c].pc = "notify" =>
               /\ \A r \in Pairs : About(r, call[c].notice) => Owns(c, r)
               /\ call[c].notice.change # "Deleted" => call[c].notice.subject \in subjects

\* Every notice on its way says "created" of what is not known by then.
NoticesOK ==
    \A i \in DOMAIN notices : notices[i].change # "Deleted" =>
        (notices[i].change = "Created" <=> ~WillBelieve(<<notices[i].subject, notices[i].key>>, i - 1))

Agree(r) == Believed(r) <=> db[r] # 0

Mine(c) == {r \in Pairs : Owns(c, r) /\ r[1] \in subjects}

\* How far the listener is behind a client that lives and its call.
Follows(c) ==
    /\ call[c].pc \in {"none", "put"} => \A r \in Mine(c) : Agree(r)
    /\ call[c].pc = "put" => call[c].change = Change(call[c].at)
    /\ call[c].pc = "notify" =>
           LET n == call[c].notice IN
           /\ \A r \in Mine(c) : IF About(r, n) THEN n.change # "Deleted" <=> db[r] # 0 ELSE Agree(r)
           /\ n.change # "Deleted" => (n.change = "Created" <=> ~Believed(<<n.subject, n.key>>))
    /\ call[c].pc = "cursor" =>
           /\ \A r \in Mine(c) \ Of(call[c].subject) : Agree(r)
           /\ \A r \in Of(call[c].subject) : db[r] # 0 <=> r \in call[c].left
           /\ \A r \in Mine(c) : db[r] # 0 => Believed(r)
           /\ call[c].count = 0 => \A r \in Mine(c) : Agree(r)

MetadataIInv ==
    /\ MetadataShape /\ CallsOK /\ NoticesOK /\ GoneAreForgotten
    /\ \A c \in Setters : handle[c] # "dead" => Follows(c)

LEMMA NoticeAppended ==
    ASSUME MetadataShape, NEW n \in RealNotices, notices' = Append(notices, n), known' = known
    PROVE  /\ \A r : \A i \in 0 .. Len(notices) : WillBelieve(r, i)' <=> WillBelieve(r, i)
           /\ \A r : Believed(r)' <=> IF About(r, n) THEN n.change # "Deleted" ELSE Believed(r)
<1>0. PICK l \in Nat : l = Len(notices)
  BY DEF MetadataShape
<1>1. /\ Len(notices) = l /\ Len(notices') = l + 1
      /\ notices'[l + 1] = n
      /\ \A j \in 1 .. l : notices'[j] = notices[j]
  BY <1>0 DEF MetadataShape
<1>2. ASSUME NEW r, NEW i \in 0 .. Len(notices) PROVE WillBelieve(r, i)' <=> WillBelieve(r, i)
  <2>1. \A j \in 1 .. i : notices'[j] = notices[j]
    BY <1>1
  <2>2. \A j \in 1 .. i : \A k \in j + 1 .. i : notices'[k] = notices[k]
    BY <1>1
  <2>3. QED
    BY <2>1, <2>2 DEF WillBelieve
<1>3. ASSUME NEW r
      PROVE  Believed(r)' <=> IF About(r, n) THEN n.change # "Deleted" ELSE Believed(r)
  <2> DEFINE m == l + 1
  <2>0. Believed(r)' <=> WillBelieve(r, m)'
    BY <1>1 DEF Believed
  <2>1. CASE About(r, n)
    <3>1. n.change # "Deleted" => WillBelieve(r, m)'
      <4>1. m \in 1 .. m /\ About(r, notices'[m]) /\ \A k \in m + 1 .. m : FALSE
        BY <2>1, <1>1
      <4>2. QED
        BY <4>1, <1>1 DEF WillBelieve
    <3>2. WillBelieve(r, m)' => n.change # "Deleted"
      <4>1. SUFFICES ASSUME WillBelieve(r, m)' PROVE n.change # "Deleted"
        OBVIOUS
      <4>2. PICK j \in 1 .. m : /\ About(r, notices'[j]) /\ notices'[j].change # "Deleted"
                                /\ \A k \in j + 1 .. m : ~About(r, notices'[k])
        BY <4>1, <2>1, <1>1 DEF WillBelieve
      <4>3. j = m
        BY <4>2, <2>1, <1>1
      <4>4. QED
        BY <4>2, <4>3, <1>1
    <3>3. QED
      BY <3>1, <3>2, <2>0, <2>1
  <2>2. CASE ~About(r, n)
    <3>1. WillBelieve(r, m)' => WillBelieve(r, l)'
      <4>1. SUFFICES ASSUME WillBelieve(r, m)' PROVE WillBelieve(r, l)'
        OBVIOUS
      <4>2. CASE r \in known' /\ \A j \in 1 .. m : ~About(r, notices'[j])
        BY <4>2, <1>1 DEF WillBelieve
      <4>3. ASSUME NEW j \in 1 .. m, About(r, notices'[j]), notices'[j].change # "Deleted",
                   \A k \in j + 1 .. m : ~About(r, notices'[k])
            PROVE  WillBelieve(r, l)'
        <5>1. j \in 1 .. l
          BY <4>3, <2>2, <1>1
        <5>2. \A k \in j + 1 .. l : ~About(r, notices'[k])
          BY <4>3, <1>1
        <5>3. \E i \in 1 .. l :
                 /\ About(r, notices'[i]) /\ notices'[i].change # "Deleted"
                 /\ \A k \in i + 1 .. l : ~About(r, notices'[k])
          BY <5>1, <5>2, <4>3
        <5>4. QED
          BY <5>1, <5>2, <4>3, <1>1, <1>2 DEF WillBelieve
      <4>4. QED
        BY <4>1, <4>2, <4>3 DEF WillBelieve
    <3>2. WillBelieve(r, l)' => WillBelieve(r, m)'
      BY <2>2, <1>1 DEF WillBelieve
    <3>3. QED
      BY <3>1, <3>2, <2>0, <2>2, <1>1, <1>2 DEF Believed
  <2>3. QED
    BY <2>1, <2>2
<1>4. QED
  BY <1>2, <1>3
LEMMA NoticeTaken ==
    ASSUME MetadataShape, notices # <<>>, notices' = Tail(notices), known' = Told(known, Head(notices))
    PROVE  /\ \A r \in Pairs : \A i \in 0 .. Len(notices) - 1 : WillBelieve(r, i)' <=> WillBelieve(r, i + 1)
           /\ \A r \in Pairs : Believed(r)' <=> Believed(r)
           /\ known' \subseteq Pairs
<1> DEFINE n == notices[1]
<1>0. PICK l \in Nat : l = Len(notices) /\ l > 0
  BY DEF MetadataShape
<1>1. /\ Len(notices') = l - 1 /\ \A j \in 1 .. l - 1 : notices'[j] = notices[j + 1]
      /\ Head(notices) = n /\ n \in RealNotices
  BY <1>0 DEF MetadataShape
<1>2. n.change # "Deleted" => <<n.subject, n.key>> \in Pairs
  BY <1>1 DEF RealNotices, Pairs
<1>3. \A r : r \in known' <=> IF About(r, n) THEN n.change # "Deleted" ELSE r \in known
  BY <1>1 DEF Told, About
<1>4. known' \subseteq Pairs
  BY <1>1, <1>2 DEF Told, MetadataShape
<1> HIDE DEF n
<1>5. ASSUME NEW r \in Pairs, NEW i \in 0 .. l - 1 PROVE WillBelieve(r, i)' <=> WillBelieve(r, i + 1)
  <2>1. ASSUME WillBelieve(r, i)' PROVE WillBelieve(r, i + 1)
    <3>1. CASE r \in known' /\ \A j \in 1 .. i : ~About(r, notices'[j])
      <4>1. \A j \in 2 .. i + 1 : ~About(r, notices[j])
        <5> SUFFICES ASSUME NEW j \in 2 .. i + 1 PROVE ~About(r, notices[j])
          OBVIOUS
        <5>1. j - 1 \in 1 .. i /\ notices'[j - 1] = notices[(j - 1) + 1] /\ (j - 1) + 1 = j
          BY <1>1
        <5>2. QED
          BY <5>1, <3>1
      <4>2. CASE About(r, n)
        <5>1. 1 \in 1 .. i + 1 /\ About(r, notices[1]) /\ notices[1].change # "Deleted"
              /\ \A k \in 1 + 1 .. i + 1 : ~About(r, notices[k])
          BY <4>1, <4>2, <3>1, <1>3 DEF n
        <5>2. QED
          BY <5>1 DEF WillBelieve
      <4>3. CASE ~About(r, n)
        <5>1. \A j \in 1 .. i + 1 : j = 1 \/ j \in 2 .. i + 1
          OBVIOUS
        <5>2. QED
          BY <5>1, <4>1, <4>3, <3>1, <1>3 DEF WillBelieve, n
      <4>4. QED
        BY <4>2, <4>3
    <3>2. ASSUME NEW j \in 1 .. i, About(r, notices'[j]), notices'[j].change # "Deleted",
                 \A k \in j + 1 .. i : ~About(r, notices'[k])
          PROVE  WillBelieve(r, i + 1)
      <4>1. j + 1 \in 1 .. i + 1 /\ notices'[j] = notices[j + 1]
        BY <1>1
      <4>2. ASSUME NEW k \in (j + 1) + 1 .. i + 1 PROVE ~About(r, notices[k])
        <5>1. k - 1 \in j + 1 .. i /\ notices'[k - 1] = notices[(k - 1) + 1] /\ (k - 1) + 1 = k
          BY <1>1
        <5>2. QED
          BY <5>1, <3>2
      <4>3. QED
        BY <4>1, <4>2, <3>2 DEF WillBelieve
    <3>3. QED
      BY <2>1, <3>1, <3>2 DEF WillBelieve
  <2>2. ASSUME WillBelieve(r, i + 1) PROVE WillBelieve(r, i)'
    <3>0. \A j \in 1 .. i : j + 1 \in 1 .. i + 1 /\ notices'[j] = notices[j + 1]
      BY <1>1
    <3>1. CASE r \in known /\ \A j \in 1 .. i + 1 : ~About(r, notices[j])
      <4>1. ~About(r, n)
        BY <3>1 DEF n
      <4>2. \A j \in 1 .. i : ~About(r, notices'[j])
        BY <3>0, <3>1
      <4>3. QED
        BY <4>1, <4>2, <3>1, <1>3 DEF WillBelieve
    <3>2. ASSUME NEW j \in 1 .. i + 1, About(r, notices[j]), notices[j].change # "Deleted",
                 \A k \in j + 1 .. i + 1 : ~About(r, notices[k])
          PROVE  WillBelieve(r, i)'
      <4>1. CASE j = 1
        <5>1. \A k \in 1 .. i : k + 1 \in j + 1 .. i + 1
          BY <4>1
        <5>2. \A k \in 1 .. i : ~About(r, notices'[k])
          BY <5>1, <3>0, <3>2
        <5>3. r \in known'
          BY <4>1, <3>2, <1>3 DEF n
        <5>4. QED
          BY <5>2, <5>3 DEF WillBelieve
      <4>2. CASE j # 1
        <5>1. j - 1 \in 1 .. i /\ notices'[j - 1] = notices[(j - 1) + 1] /\ (j - 1) + 1 = j
          BY <4>2, <1>1
        <5>2. \A k \in (j - 1) + 1 .. i : k + 1 \in j + 1 .. i + 1 /\ k \in 1 .. i
          BY <5>1
        <5>3. \A k \in (j - 1) + 1 .. i : ~About(r, notices'[k])
          BY <5>2, <3>0, <3>2
        <5>4. \E jj \in 1 .. i : /\ About(r, notices'[jj]) /\ notices'[jj].change # "Deleted"
                                 /\ \A k \in jj + 1 .. i : ~About(r, notices'[k])
          BY <5>1, <5>3, <3>2
        <5>5. QED
          BY <5>4 DEF WillBelieve
      <4>3. QED
        BY <4>1, <4>2
    <3>3. QED
      BY <2>2, <3>1, <3>2 DEF WillBelieve
  <2>3. QED
    BY <2>1, <2>2
<1>6. ASSUME NEW r \in Pairs PROVE Believed(r)' <=> Believed(r)
  <2>1. Believed(r)' <=> WillBelieve(r, l - 1)'
    BY <1>0, <1>1 DEF Believed
  <2>2. WillBelieve(r, l - 1)' <=> WillBelieve(r, (l - 1) + 1)
    BY <1>0, <1>5
  <2>3. (l - 1) + 1 = l
    BY <1>0
  <2>4. QED
    BY <2>1, <2>2, <2>3, <1>0 DEF Believed
<1>7. QED
  BY <1>0, <1>4, <1>5, <1>6
------------------------------------------------------------------------------
(* The steps of metadata.                                                    *)

LEMMA CallKinds ==
    ASSUME MetadataShape, NEW c \in Setters
    PROVE  /\ call[c] = NoCall <=> call[c].pc = "none"
           /\ call[c].pc \in {"none", "put", "notify", "cursor"}
           /\ call[c].pc = "put" => call[c] \in [pc : {"put"}, at : Pairs, size : Sizes, change : {"Created", "Changed"}]
           /\ call[c].pc = "notify" => call[c] \in [pc : {"notify"}, notice : RealNotices]
           /\ call[c].pc = "cursor" =>
                  call[c] \in [pc : {"cursor"}, left : SUBSET Pairs, subject : Subjects, count : Nat]
<1>1. call[c] \in Calls
  BY DEF MetadataShape
<1>2. QED
  BY <1>1 DEF Calls, NoCall

LEMMA PairOfCall ==
    ASSUME MetadataShape, CallsOK, NEW c \in Setters
    PROVE  /\ call[c].pc = "put" => call[c].at \in Pairs /\ Owns(c, call[c].at)
           /\ call[c].pc = "notify" /\ call[c].notice.change # "Deleted" =>
                  LET r == <<call[c].notice.subject, call[c].notice.key>> IN r \in Pairs /\ Owns(c, r)
           /\ call[c].pc = "cursor" => \A r \in Of(call[c].subject) : r \in Pairs /\ Owns(c, r)
<1>1. CASE call[c].pc = "put"
  BY <1>1, CallKinds DEF CallsOK
<1>2. CASE call[c].pc = "notify" /\ call[c].notice.change # "Deleted"
  <2> DEFINE n == call[c].notice
             r == <<n.subject, n.key>>
  <2>1. n \in RealNotices
    BY <1>2, CallKinds
  <2> HIDE DEF n
  <2>2. n.change # "Deleted"
    BY <1>2 DEF n
  <2>3. r \in Pairs /\ About(r, n)
    BY <2>1, <2>2 DEF RealNotices, About, Pairs
  <2>4. Owns(c, r)
    <3> HIDE DEF r
    <3>1. QED
      BY <1>2, <2>3 DEF CallsOK, n
  <2>5. QED
    BY <1>2, <2>3, <2>4 DEF n
<1>3. CASE call[c].pc = "cursor"
  BY <1>3 DEF CallsOK, Of, Owns
<1>4. QED
  BY <1>1, <1>2, <1>3

\* What the listener lacks of a client depends on its own properties only.
LEMMA FollowsKeeps ==
    ASSUME MetadataShape, CallsOK, NEW c \in Setters, Follows(c), call'[c] = call[c],
           subjects' \subseteq subjects,
           \A r \in Pairs : Owns(c, r) /\ (r[1] \in subjects' \/ call[c] # NoCall)
                            => db'[r] = db[r] /\ (Believed(r)' <=> Believed(r))
    PROVE  Follows(c)'
<1> DEFINE p == call[c].pc
<1>1. /\ \A r \in Mine(c)' : r \in Mine(c) /\ db'[r] = db[r] /\ (Believed(r)' <=> Believed(r))
      /\ \A r \in Mine(c)' : Agree(r)' <=> Agree(r)
  BY DEF Mine, Agree, Owns
<1>2. p # "none" => call[c] # NoCall
  BY DEF NoCall
<1>3. p \in {"none", "put"} => \A r \in Mine(c)' : Agree(r)'
  BY <1>1 DEF Follows
<1>4. p = "put" => call[c].change = Change(call[c].at)'
  <2> SUFFICES ASSUME p = "put" PROVE call[c].change = Change(call[c].at)'
    OBVIOUS
  <2>1. call[c].at \in Pairs /\ Owns(c, call[c].at)
    BY PairOfCall
  <2>2. db'[call[c].at] = db[call[c].at]
    BY <2>1, <1>2
  <2>3. QED
    BY <2>2 DEF Follows, Change
<1>5. p = "notify" =>
          LET n == call[c].notice IN
          /\ \A r \in Mine(c)' : IF About(r, n) THEN n.change # "Deleted" <=> db'[r] # 0 ELSE Agree(r)'
          /\ n.change # "Deleted" => (n.change = "Created" <=> ~Believed(<<n.subject, n.key>>)')
  <2> SUFFICES ASSUME p = "notify"
               PROVE  LET n == call[c].notice IN
          /\ \A r \in Mine(c)' : IF About(r, n) THEN n.change # "Deleted" <=> db'[r] # 0 ELSE Agree(r)'
          /\ n.change # "Deleted" => (n.change = "Created" <=> ~Believed(<<n.subject, n.key>>)')
    OBVIOUS
  <2> DEFINE n == call[c].notice
             q == <<n.subject, n.key>>
  <2>1. \A r \in Mine(c)' : IF About(r, n) THEN n.change # "Deleted" <=> db'[r] # 0 ELSE Agree(r)'
    BY <1>1 DEF Follows
  <2>2. ASSUME n.change # "Deleted" PROVE n.change = "Created" <=> ~Believed(q)'
    <3>1. q \in Pairs /\ Owns(c, q)
      BY <2>2, PairOfCall
    <3>2. n.change = "Created" <=> ~Believed(q)
      BY <2>2 DEF Follows
    <3>3. q' = q
      OBVIOUS
    <3> HIDE DEF q
    <3>4. PICK x : x = q
      OBVIOUS
    <3>5. Believed(x)' <=> Believed(x)
      BY <3>1, <3>4, <1>2
    <3>6. QED
      BY <3>2, <3>3, <3>4, <3>5
  <2>3. QED
    BY <2>1, <2>2
<1>6. p = "cursor" =>
          /\ \A r \in Mine(c)' \ Of(call[c].subject) : Agree(r)'
          /\ \A r \in Of(call[c].subject) : db'[r] # 0 <=> r \in call[c].left
          /\ \A r \in Mine(c)' : db'[r] # 0 => Believed(r)'
          /\ call[c].count = 0 => \A r \in Mine(c)' : Agree(r)'
  <2> SUFFICES ASSUME p = "cursor"
               PROVE  /\ \A r \in Mine(c)' \ Of(call[c].subject) : Agree(r)'
                      /\ \A r \in Of(call[c].subject) : db'[r] # 0 <=> r \in call[c].left
                      /\ \A r \in Mine(c)' : db'[r] # 0 => Believed(r)'
                      /\ call[c].count = 0 => \A r \in Mine(c)' : Agree(r)'
    OBVIOUS
  <2>1. \A r \in Of(call[c].subject) : db'[r] = db[r]
    BY PairOfCall, <1>2
  <2>2. QED
    BY <2>1, <1>1 DEF Follows
<1>7. QED
  BY <1>3, <1>4, <1>5, <1>6 DEF Follows
LEMMA OthersKeep ==
    ASSUME MetadataIInv, NEW c \in Setters, subjects' = subjects,
           \A d \in Setters \ {c} : call'[d] = call[d] /\ handle'[d] = handle[d],
           \A r \in Pairs : ~Owns(c, r) => db'[r] = db[r] /\ (Believed(r)' <=> Believed(r))
    PROVE  /\ \A d \in Setters \ {c} : handle'[d] # "dead" => Follows(d)'
           /\ \A d \in Setters \ {c} :
                 /\ call'[d] # NoCall => handle'[d] = "open"
                 /\ call'[d].pc = "put" => Owns(d, call'[d].at) /\ call'[d].at[1] \in subjects'
                 /\ call'[d].pc = "cursor" => /\ OwnerOf[call'[d].subject] = d
                                              /\ call'[d].left \subseteq Of(call'[d].subject)
                 /\ call'[d].pc = "notify" =>
                        /\ \A r \in Pairs : About(r, call'[d].notice) => Owns(d, r)
                        /\ call'[d].notice.change # "Deleted" => call'[d].notice.subject \in subjects'
<1>1. MetadataShape /\ CallsOK
  BY DEF MetadataIInv
<1>2. ASSUME NEW d \in Setters \ {c}, handle'[d] # "dead" PROVE Follows(d)'
  <2>1. Follows(d) /\ call'[d] = call[d]
    BY <1>2 DEF MetadataIInv
  <2>2. \A r \in Pairs : Owns(d, r) => ~Owns(c, r)
    BY DEF Owns
  <2>3. QED
    BY <1>1, <2>1, <2>2, FollowsKeeps
<1>3. QED
  BY <1>1, <1>2 DEF CallsOK

\* Nothing is told, and what is stored does not change either.
LEMMA NothingTold ==
    ASSUME notices' = notices, known' = known
    PROVE  /\ \A r, i : WillBelieve(r, i)' <=> WillBelieve(r, i)
           /\ \A r : Believed(r)' <=> Believed(r)
           /\ NoticesOK => NoticesOK'
<1>1. \A r, i : WillBelieve(r, i)' <=> WillBelieve(r, i)
  BY DEF WillBelieve
<1>2. \A r : Believed(r)' <=> Believed(r)
  BY DEF WillBelieve, Believed
<1>3. NoticesOK => NoticesOK'
  BY DEF NoticesOK, WillBelieve
<1>4. QED
  BY <1>1, <1>2, <1>3

\* A step of one client that tells nobody.
LEMMA QuietMetadataKeeps ==
    ASSUME MetadataIInv, NEW c \in Setters, notices' = notices, known' = known, subjects' = subjects,
           NEW newCall \in Calls, call' = [call EXCEPT ![c] = newCall],
           NEW newHandle \in {"none", "open", "broken", "dead"}, handle' = [handle EXCEPT ![c] = newHandle],
           db' \in [Pairs -> Sizes \cup {0}],
           \A r \in Pairs : ~Owns(c, r) => db'[r] = db[r],
           \A r \in Pairs : db'[r] # 0 => r[1] \in subjects,
           newCall # NoCall => newHandle = "open",
           newCall.pc = "put" => Owns(c, newCall.at) /\ newCall.at[1] \in subjects,
           newCall.pc = "cursor" => OwnerOf[newCall.subject] = c /\ newCall.left \subseteq Of(newCall.subject),
           newCall.pc = "notify" =>
               /\ \A r \in Pairs : About(r, newCall.notice) => Owns(c, r)
               /\ newCall.notice.change # "Deleted" => newCall.notice.subject \in subjects,
           newHandle # "dead" => Follows(c)'
    PROVE  MetadataIInv'
<1>1. /\ call'[c] = newCall /\ handle'[c] = newHandle
      /\ \A d \in Setters \ {c} : call'[d] = call[d] /\ handle'[d] = handle[d]
  BY DEF MetadataIInv, MetadataShape
<1>2. \A r : Believed(r)' <=> Believed(r)
  BY NothingTold
<1>3. MetadataShape'
  BY DEF MetadataIInv, MetadataShape
<1>4. NoticesOK'
  BY NothingTold DEF MetadataIInv
<1>5. CallsOK'
  BY <1>1, <1>2, OthersKeep DEF CallsOK
<1>6. \A d \in Setters : handle'[d] # "dead" => Follows(d)'
  BY <1>1, <1>2, OthersKeep
<1>7. GoneAreForgotten'
  BY DEF GoneAreForgotten, Of, Stored
<1>8. QED
  BY <1>3, <1>4, <1>5, <1>6, <1>7 DEF MetadataIInv
LEMMA StoredIsThere ==
    ASSUME MetadataShape, GoneAreForgotten, NEW r \in Pairs, db[r] # 0
    PROVE  r[1] \in subjects
BY DEF GoneAreForgotten, Of, Stored, Pairs

LEMMA IdleAgrees ==
    ASSUME MetadataIInv, NEW c \in Setters, handle[c] # "dead", call[c] = NoCall
    PROVE  \A r \in Mine(c) : Agree(r)
<1>1. call[c].pc = "none" /\ Follows(c)
  BY DEF MetadataIInv, NoCall
<1>2. QED
  BY <1>1 DEF Follows

LEMMA HandlesKeep ==
    ASSUME MetadataIInv, NEW c \in Setters,
           jack_property_init(c) \/ UsesBrokenDatabase(c) \/ SetterDies(c)
    PROVE  MetadataIInv'
<1> USE DEF MetadataIInv
<1>1. /\ notices' = notices /\ known' = known /\ subjects' = subjects /\ db' = db
      /\ \A r : Believed(r)' <=> Believed(r)
      /\ \A r \in Pairs : db[r] # 0 => r[1] \in subjects
      /\ db' \in [Pairs -> Sizes \cup {0}]
  BY NothingTold, StoredIsThere DEF jack_property_init, UsesBrokenDatabase, SetterDies,
     MetadataShape
<1>2. CASE jack_property_init(c)
  <2>1. PICK h \in {"open", "broken"} : handle' = [handle EXCEPT ![c] = h]
    BY <1>2 DEF jack_property_init
  <2>2. call[c] = NoCall /\ call' = [call EXCEPT ![c] = NoCall] /\ Follows(c)
    BY <1>2 DEF jack_property_init, CallsOK, MetadataShape
  <2>3. call'[c] = call[c] /\ NoCall \in Calls /\ NoCall.pc = "none"
    BY <2>2 DEF MetadataShape, Calls, NoCall
  <2>4. Follows(c)'
    BY <1>1, <2>2, <2>3, FollowsKeeps
  <2>5. QED
    BY <1>1, <2>1, <2>2, <2>3, <2>4, QuietMetadataKeeps
<1>3. CASE UsesBrokenDatabase(c) \/ SetterDies(c)
  <2>1. handle' = [handle EXCEPT ![c] = "dead"] /\ NoCall \in Calls /\ NoCall.pc = "none"
    BY <1>3 DEF UsesBrokenDatabase, SetterDies, Calls, NoCall
  <2>2. call' = [call EXCEPT ![c] = NoCall]
    BY <1>3 DEF UsesBrokenDatabase, SetterDies, CallsOK, MetadataShape
  <2>3. QED
    BY <1>1, <2>1, <2>2, QuietMetadataKeeps
<1>4. QED
  BY <1>2, <1>3

LEMMA SetPropertyKeeps ==
    ASSUME MetadataIInv, OnlyOwnersDescribe, NEW c \in Setters, NEW r \in Pairs, NEW size \in Sizes,
           jack_set_property(c, r, size)
    PROVE  MetadataIInv'
<1> USE DEF MetadataIInv
<1> DEFINE new == [pc |-> "put", at |-> r, size |-> size, change |-> Change(r)]
<1>1. /\ notices' = notices /\ known' = known /\ subjects' = subjects /\ db' = db
      /\ \A q : Believed(q)' <=> Believed(q)
      /\ \A q \in Pairs : db[q] # 0 => q[1] \in subjects
      /\ db' \in [Pairs -> Sizes \cup {0}]
  BY NothingTold, StoredIsThere DEF jack_set_property, MetadataShape
<1>2. /\ handle[c] = "open" /\ handle' = [handle EXCEPT ![c] = "open"] /\ call[c] = NoCall
      /\ r[1] \in subjects /\ Owns(c, r) /\ call' = [call EXCEPT ![c] = new]
  BY DEF jack_set_property, Usable, OnlyOwnersDescribe, Owns, MetadataShape
<1>3. new \in Calls /\ new # NoCall /\ call'[c] = new
  BY <1>2 DEF Calls, NoCall, Change, MetadataShape
<1>4. new.pc = "put" /\ new.at = r /\ new.change = Change(r)
  OBVIOUS
<1>5. \A q \in Mine(c)' : Agree(q)'
  <2>1. \A q \in Mine(c) : Agree(q)
    BY <1>2, IdleAgrees
  <2>2. QED
    BY <1>1, <2>1 DEF Mine, Agree, Owns
<1>6. Change(r)' = Change(r)
  BY <1>1 DEF Change
<1> HIDE DEF new
<1>7. Follows(c)'
  BY <1>3, <1>4, <1>5, <1>6 DEF Follows
<1>8. QED
  BY <1>1, <1>2, <1>3, <1>4, <1>7, QuietMetadataKeeps

LEMMA PropertyPutKeeps ==
    ASSUME MetadataIInv, NEW c \in Setters, PropertyPut(c)
    PROVE  MetadataIInv'
<1> USE DEF MetadataIInv
<1> DEFINE r == call[c].at
           n == Notice(call[c].change, r[1], r[2])
           new == [pc |-> "notify", notice |-> n]
<1>1. /\ call[c].pc = "put" /\ r \in Pairs /\ call[c].size \in Sizes
      /\ call[c].change \in {"Created", "Changed"} /\ call[c] # NoCall
  BY CallKinds DEF PropertyPut, NoCall
<1>2. /\ notices' = notices /\ known' = known /\ subjects' = subjects
      /\ \A q : Believed(q)' <=> Believed(q)
      /\ db' = [db EXCEPT ![r] = call[c].size] /\ call' = [call EXCEPT ![c] = new]
  BY NothingTold DEF PropertyPut
<1>3. /\ db' \in [Pairs -> Sizes \cup {0}] /\ db'[r] # 0
      /\ \A q \in Pairs \ {r} : db'[q] = db[q]
  BY <1>1, <1>2, MetadataAssumption DEF MetadataShape
<1>4. handle[c] = "open" /\ handle' = [handle EXCEPT ![c] = "open"] /\ Owns(c, r) /\ r[1] \in subjects
  BY <1>1 DEF PropertyPut, CallsOK, MetadataShape
<1>5. r = <<r[1], r[2]>> /\ r[1] \in Subjects /\ r[2] \in Keys
  BY <1>1 DEF Pairs
<1>6. n \in RealNotices /\ n.change = call[c].change /\ n.subject = r[1] /\ n.key = r[2]
  BY <1>1, <1>5 DEF Notice, RealNotices, Notices
<1>7. new \in Calls /\ new # NoCall /\ call'[c] = new /\ new.pc = "notify" /\ new.notice = n
  BY <1>2, <1>6 DEF Calls, NoCall, MetadataShape
<1>8. \A q : About(q, n) <=> q = r
  BY <1>1, <1>5, <1>6 DEF About
<1>9. \A q \in Pairs : db'[q] # 0 => q[1] \in subjects
  BY <1>3, <1>4, StoredIsThere
<1>10. /\ \A q \in Mine(c) : Agree(q)
       /\ call[c].change = Change(r)
  BY <1>1, <1>4 DEF Follows
<1>11. r \in Mine(c)
  BY <1>1, <1>4 DEF Mine
<1>12. n.change = "Created" <=> ~Believed(r)
  BY <1>6, <1>10, <1>11 DEF Agree, Change
<1> HIDE DEF r, n, new
<1>13. Follows(c)'
  <2>1. PICK x : x = r
    OBVIOUS
  <2>2. <<new.notice.subject, new.notice.key>> = x
    BY <2>1, <1>5, <1>6, <1>7
  <2>3. new.notice.change = "Created" <=> ~Believed(x)'
    BY <2>1, <1>2, <1>7, <1>12
  <2>4. \A q \in Mine(c)' : IF About(q, n) THEN n.change # "Deleted" <=> db'[q] # 0 ELSE Agree(q)'
    <3> SUFFICES ASSUME NEW q \in Mine(c)'
                 PROVE  IF About(q, n) THEN n.change # "Deleted" <=> db'[q] # 0 ELSE Agree(q)'
      OBVIOUS
    <3>1. q \in Mine(c)
      BY <1>2 DEF Mine, Owns
    <3>2. CASE q = r
      BY <3>2, <1>1, <1>3, <1>6, <1>8
    <3>3. CASE q # r
      BY <3>1, <3>3, <1>2, <1>3, <1>8, <1>10 DEF Agree, Mine
    <3>4. QED
      BY <3>2, <3>3
  <2>5. QED
    BY <2>2, <2>3, <2>4, <1>7 DEF Follows
<1>14. \A q \in Pairs : ~Owns(c, q) => db'[q] = db[q]
  BY <1>3, <1>4
<1>15. /\ \A q \in Pairs : About(q, new.notice) => Owns(c, q)
       /\ new.notice.change # "Deleted" => new.notice.subject \in subjects
  BY <1>4, <1>6, <1>7, <1>8
<1>16. db' \in [Pairs -> Sizes \cup {0}] /\ "open" \in {"none", "open", "broken", "dead"}
  BY <1>3
<1>17. QED
  BY <1>2, <1>4, <1>7, <1>9, <1>13, <1>14, <1>15, <1>16, QuietMetadataKeeps

LEMMA RemovePropertyKeeps ==
    ASSUME MetadataIInv, OnlyOwnersDescribe, NEW c \in Setters, NEW r \in Pairs, jack_remove_property(c, r)
    PROVE  MetadataIInv'
<1> USE DEF MetadataIInv
<1> DEFINE n == Notice("Deleted", r[1], r[2])
           new == [pc |-> "notify", notice |-> n]
<1>1. /\ notices' = notices /\ known' = known /\ subjects' = subjects
      /\ \A q : Believed(q)' <=> Believed(q)
      /\ db' = [db EXCEPT ![r] = 0] /\ call' = [call EXCEPT ![c] = new]
  BY NothingTold DEF jack_remove_property
<1>2. /\ db' \in [Pairs -> Sizes \cup {0}] /\ db'[r] = 0
      /\ \A q \in Pairs \ {r} : db'[q] = db[q]
  BY <1>1 DEF MetadataShape
<1>3. /\ handle[c] = "open" /\ handle' = [handle EXCEPT ![c] = "open"] /\ call[c] = NoCall
      /\ Owns(c, r)
  BY DEF jack_remove_property, Usable, OnlyOwnersDescribe, Owns, MetadataShape
<1>4. r = <<r[1], r[2]>> /\ r[1] \in Subjects /\ r[2] \in Keys
  BY DEF Pairs
<1>5. n \in RealNotices /\ n.change = "Deleted" /\ n.subject = r[1] /\ n.key = r[2]
  BY <1>4 DEF Notice, RealNotices, Notices
<1>6. new \in Calls /\ new # NoCall /\ call'[c] = new /\ new.pc = "notify" /\ new.notice = n
  BY <1>1, <1>5 DEF Calls, NoCall, MetadataShape
<1>7. \A q \in Pairs : About(q, n) <=> q = r
  BY <1>4, <1>5, MetadataAssumption DEF About, Pairs
<1>8. \A q \in Pairs : db'[q] # 0 => q[1] \in subjects
  BY <1>2, StoredIsThere
<1>9. \A q \in Mine(c) : Agree(q)
  BY <1>3, IdleAgrees
<1> HIDE DEF n, new
<1>10. Follows(c)'
  <2>1. \A q \in Mine(c)' : IF About(q, n) THEN n.change # "Deleted" <=> db'[q] # 0 ELSE Agree(q)'
    <3> SUFFICES ASSUME NEW q \in Mine(c)'
                 PROVE  IF About(q, n) THEN n.change # "Deleted" <=> db'[q] # 0 ELSE Agree(q)'
      OBVIOUS
    <3>1. q \in Mine(c) /\ q \in Pairs
      BY <1>1 DEF Mine, Owns
    <3>2. CASE q = r
      BY <3>1, <3>2, <1>2, <1>5, <1>7
    <3>3. CASE q # r
      BY <3>1, <3>3, <1>1, <1>2, <1>7, <1>9 DEF Agree
    <3>4. QED
      BY <3>2, <3>3
  <2>2. QED
    BY <2>1, <1>5, <1>6 DEF Follows
<1>11. \A q \in Pairs : ~Owns(c, q) => db'[q] = db[q]
  BY <1>2, <1>3
<1>12. QED
  BY <1>1, <1>2, <1>3, <1>5, <1>6, <1>7, <1>8, <1>10, <1>11, QuietMetadataKeeps
LEMMA RemovePropertiesKeeps ==
    ASSUME MetadataIInv, OnlyOwnersDescribe, NEW c \in Setters, NEW s \in Subjects,
           jack_remove_properties(c, s)
    PROVE  MetadataIInv'
<1> USE DEF MetadataIInv
<1>1. /\ notices' = notices /\ known' = known /\ subjects' = subjects /\ handle' = handle
      /\ \A q : Believed(q)' <=> Believed(q)
      /\ \A q \in Pairs : db[q] # 0 => q[1] \in subjects
      /\ \A q \in Mine(c)' : q \in Mine(c) /\ q \in Pairs
  BY NothingTold, StoredIsThere DEF jack_remove_properties, Mine, Owns
<1>2. CASE /\ Usable(c) /\ <<c, s>> \in MaySet /\ db' = db
           /\ call' = [call EXCEPT ![c] = [pc |-> "cursor", left |-> Of(s) \cap Stored, subject |-> s, count |-> 0]]
  <2> DEFINE new == [pc |-> "cursor", left |-> Of(s) \cap Stored, subject |-> s, count |-> 0]
  <2>1. /\ handle[c] = "open" /\ handle' = [handle EXCEPT ![c] = "open"] /\ OwnerOf[s] = c
        /\ \A q \in Mine(c) : Agree(q)
    BY <1>1, <1>2, IdleAgrees DEF Usable, OnlyOwnersDescribe, MetadataShape
  <2>2. /\ new \in Calls /\ new # NoCall /\ call'[c] = new /\ call' = [call EXCEPT ![c] = new]
        /\ new.pc = "cursor" /\ new.subject = s /\ new.count = 0 /\ new.left = Of(s) \cap Stored
    BY <1>2 DEF Calls, NoCall, Of, MetadataShape
  <2> HIDE DEF new
  <2>3. \A q \in Mine(c)' : Agree(q)'
    BY <1>1, <1>2, <2>1 DEF Agree
  <2>4. \A q \in Of(s) : db'[q] # 0 <=> q \in new.left
    BY <1>2, <2>2 DEF Of, Stored
  <2>5. Follows(c)'
    BY <2>2, <2>3, <2>4 DEF Follows, Agree
  <2>6. db' \in [Pairs -> Sizes \cup {0}]
    BY <1>2 DEF MetadataShape
  <2>7. QED
    BY <1>1, <1>2, <2>1, <2>2, <2>5, <2>6, QuietMetadataKeeps
<1>3. ASSUME call[c].pc = "cursor", call[c].subject = s, NEW r \in call[c].left, db' = [db EXCEPT ![r] = 0],
             call' = [call EXCEPT ![c].left = @ \ {r}, ![c].count = @ + 1]
      PROVE  MetadataIInv'
  <2> DEFINE new == [call[c] EXCEPT !.left = @ \ {r}, !.count = @ + 1]
  <2>0. /\ call[c] \in [pc : {"cursor"}, left : SUBSET Pairs, subject : Subjects, count : Nat]
        /\ call[c] # NoCall
    BY <1>3, CallKinds DEF NoCall
  <2>1. /\ handle[c] = "open" /\ handle' = [handle EXCEPT ![c] = "open"] /\ OwnerOf[s] = c
        /\ call[c].left \subseteq Of(s) /\ Follows(c)
    BY <1>1, <1>3, <2>0 DEF CallsOK, MetadataShape
  <2>2. call' = [call EXCEPT ![c] = new]
    BY <1>3 DEF MetadataShape
  <2>3. /\ new \in [pc : {"cursor"}, left : SUBSET Pairs, subject : Subjects, count : Nat]
        /\ new.pc = "cursor" /\ new.subject = s /\ new.count # 0 /\ new.left = call[c].left \ {r}
    <3>1. new = [pc |-> "cursor", left |-> call[c].left \ {r}, subject |-> s, count |-> call[c].count + 1]
      <4>1. PICK l, k : /\ call[c] = [pc |-> "cursor", left |-> l, subject |-> s, count |-> k]
                        /\ l = call[c].left /\ k = call[c].count
        BY <1>3, <2>0
      <4>2. new = [[pc |-> "cursor", left |-> l, subject |-> s, count |-> k] EXCEPT !.left = l \ {r}, !.count = k + 1]
        BY <4>1
      <4>3. new = [pc |-> "cursor", left |-> l \ {r}, subject |-> s, count |-> k + 1]
        <5> HIDE DEF new
        <5>1. QED
          BY <4>2
      <4> HIDE DEF new
      <4>4. QED
        BY <4>1, <4>3
    <3>2. call[c].left \ {r} \in SUBSET Pairs /\ call[c].count + 1 \in Nat /\ call[c].count + 1 # 0
      BY <2>0
    <3> HIDE DEF new
    <3>3. QED
      BY <3>1, <3>2
  <2>4. new \in Calls /\ new # NoCall /\ call'[c] = new
    BY <2>2, <2>3 DEF Calls, NoCall, MetadataShape
  <2> HIDE DEF new
  <2>5. r \in Pairs /\ Owns(c, r) /\ r \in Of(s)
    BY <1>3, <2>1 DEF Of, Owns
  <2>6. /\ db' \in [Pairs -> Sizes \cup {0}] /\ db'[r] = 0
        /\ \A q \in Pairs \ {r} : db'[q] = db[q]
    BY <1>3, <2>5 DEF MetadataShape
  <2>7. /\ \A q \in Mine(c) \ Of(s) : Agree(q)
        /\ \A q \in Of(s) : db[q] # 0 <=> q \in call[c].left
        /\ \A q \in Mine(c) : db[q] # 0 => Believed(q)
    BY <1>3, <2>1 DEF Follows
  <2>8. \A q \in Mine(c)' \ Of(s) : Agree(q)'
    BY <1>1, <2>5, <2>6, <2>7 DEF Agree
  <2>9. \A q \in Of(s) : db'[q] # 0 <=> q \in new.left
    BY <2>3, <2>5, <2>6, <2>7 DEF Of
  <2>10. \A q \in Mine(c)' : db'[q] # 0 => Believed(q)'
    BY <1>1, <2>5, <2>6, <2>7
  <2>11. Follows(c)'
    BY <2>3, <2>4, <2>8, <2>9, <2>10 DEF Follows
  <2>12. \A q \in Pairs : ~Owns(c, q) => db'[q] = db[q]
    BY <2>5, <2>6
  <2>13. \A q \in Pairs : db'[q] # 0 => q[1] \in subjects
    BY <1>1, <2>6
  <2>14. new.left \subseteq Of(s)
    BY <2>1, <2>3
  <2>15. QED
    BY <1>1, <2>1, <2>2, <2>3, <2>4, <2>6, <2>11, <2>12, <2>13, <2>14, QuietMetadataKeeps
<1>4. CASE /\ call[c].pc = "cursor" /\ call[c].subject = s /\ call[c].left = {} /\ db' = db
           /\ call' = [call EXCEPT ![c] = IF Counted(call[c].count)
                                          THEN [pc |-> "notify", notice |-> Notice("Deleted", s, NoKey)]
                                          ELSE NoCall]
  <2> DEFINE n == Notice("Deleted", s, NoKey)
             told == [pc |-> "notify", notice |-> n]
             new == IF Counted(call[c].count) THEN told ELSE NoCall
  <2>0. call[c].count \in Nat /\ call[c] # NoCall
    BY <1>4, CallKinds DEF NoCall
  <2>1. /\ handle[c] = "open" /\ handle' = [handle EXCEPT ![c] = "open"] /\ OwnerOf[s] = c
        /\ Follows(c)
    BY <1>1, <1>4, <2>0 DEF CallsOK, MetadataShape
  <2>2. n \in RealNotices /\ n.change = "Deleted" /\ n.subject = s /\ n.key = NoKey
    BY DEF Notice, RealNotices, Notices
  <2>3. \A q \in Pairs : About(q, n) <=> q \in Of(s)
    BY <2>2, MetadataAssumption DEF About, Of
  <2>4. /\ \A q \in Mine(c) \ Of(s) : Agree(q)
        /\ \A q \in Of(s) : db[q] = 0
        /\ call[c].count = 0 => \A q \in Mine(c) : Agree(q)
    BY <1>4, <2>1 DEF Follows
  <2>5. told \in Calls /\ told # NoCall /\ told.pc = "notify" /\ told.notice = n /\ NoCall \in Calls /\ NoCall.pc = "none"
    BY <2>2 DEF Calls, NoCall
  <2>6. call' = [call EXCEPT ![c] = new] /\ call'[c] = new /\ new \in Calls
    BY <1>4, <2>5 DEF MetadataShape
  <2> HIDE DEF n, told
  <2>7. CASE Counted(call[c].count)
    <3>1. new = told
      BY <2>7
    <3> HIDE DEF new
    <3>2. \A q \in Mine(c)' : IF About(q, n) THEN n.change # "Deleted" <=> db'[q] # 0 ELSE Agree(q)'
      BY <1>1, <1>4, <2>2, <2>3, <2>4 DEF Agree
    <3>3. Follows(c)'
      BY <3>1, <3>2, <2>2, <2>5, <2>6 DEF Follows
    <3>4. \A q \in Pairs : About(q, n) => Owns(c, q)
      BY <2>1, <2>3 DEF Of, Owns
    <3>5. db' \in [Pairs -> Sizes \cup {0}]
      BY <1>4 DEF MetadataShape
    <3>6. QED
      BY <1>1, <1>4, <2>1, <2>2, <2>5, <2>6, <3>1, <3>3, <3>4, <3>5, QuietMetadataKeeps
  <2>8. CASE ~Counted(call[c].count)
    <3>1. new = NoCall /\ call[c].count = 0
      BY <2>0, <2>8 DEF Counted
    <3> HIDE DEF new
    <3>2. \A q \in Mine(c)' : Agree(q)'
      BY <1>1, <1>4, <2>4, <3>1 DEF Agree
    <3>3. Follows(c)'
      BY <3>1, <3>2, <2>5, <2>6 DEF Follows
    <3>4. db' \in [Pairs -> Sizes \cup {0}]
      BY <1>4 DEF MetadataShape
    <3>5. QED
      BY <1>1, <1>4, <2>1, <2>5, <2>6, <3>1, <3>3, <3>4, QuietMetadataKeeps
  <2>9. QED
    BY <2>7, <2>8
<1>5. QED
  BY <1>2, <1>3, <1>4 DEF jack_remove_properties

LEMMA RemoveAllKeeps ==
    ASSUME MetadataIInv, OnlyOwnersDescribe, NEW c \in Setters, jack_remove_all_properties(c)
    PROVE  MetadataIInv'
<1> USE DEF MetadataIInv
<1> DEFINE n == Notice("Deleted", NoSubject, NoKey)
           new == [pc |-> "notify", notice |-> n]
<1>1. /\ notices' = notices /\ known' = known /\ subjects' = subjects
      /\ db' = [q \in Pairs |-> 0] /\ call' = [call EXCEPT ![c] = new]
  BY DEF jack_remove_all_properties
<1>2. /\ handle[c] = "open" /\ handle' = [handle EXCEPT ![c] = "open"]
      /\ \A q \in Pairs : Owns(c, q)
  <2>1. handle[c] = "open" /\ handle' = handle
    BY DEF jack_remove_all_properties, Usable
  <2>2. handle' = [handle EXCEPT ![c] = "open"]
    BY <2>1 DEF MetadataShape
  <2>3. ASSUME NEW q \in Pairs PROVE Owns(c, q)
    <3>1. q[1] \in Subjects
      BY DEF Pairs
    <3>2. <<c, q[1]>> \in MaySet
      BY <3>1 DEF jack_remove_all_properties
    <3>3. QED
      BY <3>2 DEF OnlyOwnersDescribe, Owns
  <2>4. QED
    BY <2>1, <2>2, <2>3
<1>3. n \in RealNotices /\ n.change = "Deleted" /\ n.subject = NoSubject /\ n.key = NoKey
  BY DEF Notice, RealNotices, Notices
<1>4. new \in Calls /\ new # NoCall /\ call'[c] = new /\ new.pc = "notify" /\ new.notice = n
  BY <1>1, <1>3 DEF Calls, NoCall, MetadataShape
<1>5. \A q \in Pairs : About(q, n) /\ db'[q] = 0
  BY <1>1, <1>3 DEF About
<1> HIDE DEF n, new
<1>6. Follows(c)'
  BY <1>3, <1>4, <1>5 DEF Follows, Mine
<1>7. db' \in [Pairs -> Sizes \cup {0}]
  BY <1>1
<1>8. QED
  BY <1>1, <1>2, <1>3, <1>4, <1>5, <1>6, <1>7, QuietMetadataKeeps
LEMMA NextNoticeOK ==
    ASSUME MetadataShape, NoticesOK, NEW n \in RealNotices, notices' = Append(notices, n), known' = known,
           n.change # "Deleted" => (n.change = "Created" <=> ~Believed(<<n.subject, n.key>>))
    PROVE  NoticesOK' /\ notices' \in Seq(RealNotices)
<1>0. PICK l \in Nat : l = Len(notices)
  BY DEF MetadataShape
<1>1. /\ notices' \in Seq(RealNotices) /\ DOMAIN notices' = 1 .. l + 1 /\ DOMAIN notices = 1 .. l
      /\ notices'[l + 1] = n
      /\ \A j \in 1 .. l : notices'[j] = notices[j]
  BY <1>0 DEF MetadataShape
<1>2. \A r : \A i \in 0 .. l : WillBelieve(r, i)' <=> WillBelieve(r, i)
  BY <1>0, NoticeAppended
<1>3. ASSUME NEW i \in 1 .. l + 1, notices'[i].change # "Deleted", NEW r,
             r = <<notices'[i].subject, notices'[i].key>>
      PROVE  notices'[i].change = "Created" <=> ~WillBelieve(r, i - 1)'
  <2>1. i - 1 \in 0 .. l /\ (WillBelieve(r, i - 1)' <=> WillBelieve(r, i - 1))
    BY <1>2
  <2>2. CASE i \in 1 .. l
    BY <2>1, <2>2, <1>1, <1>3 DEF NoticesOK
  <2>3. CASE i = l + 1
    <3>1. WillBelieve(r, i - 1) <=> Believed(r)
      BY <2>3, <1>0 DEF Believed
    <3>2. n.change # "Deleted" /\ r = <<n.subject, n.key>> /\ notices'[i] = n
      BY <2>3, <1>1, <1>3
    <3>3. QED
      BY <3>1, <3>2, <2>1
  <2>4. i \in 1 .. l \/ i = l + 1
    BY <1>0
  <2>5. QED
    BY <2>2, <2>3, <2>4
<1>4. NoticesOK'
  BY <1>1, <1>3 DEF NoticesOK
<1>5. QED
  BY <1>1, <1>4

LEMMA ChangeNotifyKeeps ==
    ASSUME MetadataIInv, NEW c \in Setters, jack_property_change_notify(c)
    PROVE  MetadataIInv'
<1> USE DEF MetadataIInv
<1> DEFINE n == call[c].notice
<1>1. /\ call[c].pc = "notify" /\ n \in RealNotices /\ call[c] # NoCall /\ Follows(c)
      /\ handle[c] = "open"
  BY CallKinds DEF jack_property_change_notify, NoCall, CallsOK
<1>2. /\ notices' = Append(notices, n) /\ known' = known /\ subjects' = subjects /\ db' = db
      /\ handle' = handle /\ call' = [call EXCEPT ![c] = NoCall]
  BY DEF jack_property_change_notify, Tells
<1>3. /\ n.change # "Deleted" => (n.change = "Created" <=> ~Believed(<<n.subject, n.key>>))
      /\ \A r \in Mine(c) : IF About(r, n) THEN n.change # "Deleted" <=> db[r] # 0 ELSE Agree(r)
      /\ \A r \in Pairs : About(r, n) => Owns(c, r)
  BY <1>1 DEF Follows, CallsOK
<1>4. PICK x : x = n
  OBVIOUS
<1> HIDE DEF n
<1>5. \A r : Believed(r)' <=> IF About(r, x) THEN x.change # "Deleted" ELSE Believed(r)
  BY <1>1, <1>2, <1>4, NoticeAppended
<1>6. NoticesOK' /\ notices' \in Seq(RealNotices)
  BY <1>1, <1>2, <1>3, NextNoticeOK
<1>7. NoCall \in Calls /\ NoCall.pc = "none" /\ call'[c] = NoCall
  BY <1>2 DEF Calls, NoCall, MetadataShape
<1>8. MetadataShape'
  BY <1>2, <1>6, <1>7 DEF MetadataShape
<1>9. \A r \in Pairs : ~Owns(c, r) => (Believed(r)' <=> Believed(r))
  BY <1>3, <1>4, <1>5
<1>10. \A d \in Setters \ {c} : call'[d] = call[d] /\ handle'[d] = handle[d]
  BY <1>2 DEF MetadataShape
<1>11. CallsOK'
  BY <1>2, <1>7, <1>9, <1>10, OthersKeep DEF CallsOK
<1>12. Follows(c)'
  <2>1. \A r \in Mine(c)' : Agree(r)'
    BY <1>2, <1>3, <1>4, <1>5 DEF Mine, Agree, Owns
  <2>2. QED
    BY <2>1, <1>7 DEF Follows
<1>13. \A d \in Setters : handle'[d] # "dead" => Follows(d)'
  BY <1>2, <1>9, <1>10, <1>12, OthersKeep
<1>14. GoneAreForgotten'
  BY <1>2 DEF GoneAreForgotten, Of, Stored
<1>15. QED
  BY <1>6, <1>8, <1>11, <1>13, <1>14

LEMMA ReleaseKeeps ==
    ASSUME MetadataIInv, NEW s \in Subjects, jack_port_release(s)
    PROVE  MetadataIInv'
<1> USE DEF MetadataIInv
<1> DEFINE n == Notice("Deleted", s, NoKey)
<1>1. /\ subjects' = subjects \ {s} /\ handle' = handle /\ call' = call /\ known' = known
      /\ db' = [r \in Pairs |-> IF r \in Of(s) THEN 0 ELSE db[r]]
      /\ notices' = Append(notices, n) \/ notices' = notices
      /\ call[OwnerOf[s]] = NoCall
  BY DEF jack_port_release, Forgotten, Tells
<1>2. n \in RealNotices /\ n.change = "Deleted" /\ n.subject = s /\ n.key = NoKey
  BY DEF Notice, RealNotices, Notices
<1>3. \A r \in Pairs : About(r, n) <=> r[1] = s
  BY <1>2, MetadataAssumption DEF About
<1> HIDE DEF n
<1>4. \A r \in Pairs : r[1] # s => (Believed(r)' <=> Believed(r))
  <2>1. CASE notices' = Append(notices, n)
    BY <2>1, <1>1, <1>2, <1>3, NoticeAppended
  <2>2. CASE notices' = notices
    BY <2>2, <1>1, NothingTold
  <2>3. QED
    BY <2>1, <2>2, <1>1
<1>5. NoticesOK' /\ notices' \in Seq(RealNotices)
  <2>1. CASE notices' = Append(notices, n)
    BY <2>1, <1>1, <1>2, NextNoticeOK
  <2>2. CASE notices' = notices
    BY <2>2, <1>1, NothingTold DEF MetadataShape
  <2>3. QED
    BY <2>1, <2>2, <1>1
<1>6. db' \in [Pairs -> Sizes \cup {0}] /\ \A r \in Pairs : db'[r] = IF r[1] = s THEN 0 ELSE db[r]
  BY <1>1 DEF MetadataShape, Of
<1>7. MetadataShape'
  BY <1>1, <1>5, <1>6 DEF MetadataShape
<1>8. CallsOK'
  <2>1. ASSUME NEW c \in Setters, call[c].pc = "put" PROVE call[c].at[1] # s
    BY <2>1, <1>1, CallKinds DEF CallsOK, Owns, NoCall
  <2>2. ASSUME NEW c \in Setters, call[c].pc = "notify", call[c].notice.change # "Deleted"
        PROVE  call[c].notice.subject # s
    <3>1. OwnerOf[call[c].notice.subject] = c
      BY <2>2, PairOfCall DEF Owns
    <3>2. call[c] # NoCall
      BY <2>2 DEF NoCall
    <3>3. QED
      BY <3>1, <3>2, <1>1
  <2>3. QED
    BY <2>1, <2>2, <1>1 DEF CallsOK, Owns, Of
<1>9. ASSUME NEW c \in Setters, handle'[c] # "dead" PROVE Follows(c)'
  <2>1. \A r \in Pairs : Owns(c, r) /\ (r[1] \in subjects' \/ call[c] # NoCall) => r[1] # s
    BY <1>1 DEF Owns
  <2>2. Follows(c) /\ call'[c] = call[c] /\ subjects' \subseteq subjects
    BY <1>1, <1>9
  <2>3. QED
    BY <2>1, <2>2, <1>4, <1>6, FollowsKeeps
<1>10. GoneAreForgotten'
  BY <1>1, <1>6 DEF GoneAreForgotten, Of, Stored
<1>11. QED
  BY <1>5, <1>7, <1>8, <1>9, <1>10

LEMMA CallbackKeeps ==
    ASSUME MetadataIInv, PropertyCallback
    PROVE  MetadataIInv'
<1> USE DEF MetadataIInv
<1>1. /\ notices # <<>> /\ notices' = Tail(notices) /\ known' = Told(known, Head(notices))
      /\ UNCHANGED <<db, subjects, handle, call>>
  BY DEF PropertyCallback
<1>2. PICK l \in Nat : l = Len(notices) /\ l > 0
  BY <1>1 DEF MetadataShape
<1>3. /\ \A r \in Pairs : \A i \in 0 .. l - 1 : WillBelieve(r, i)' <=> WillBelieve(r, i + 1)
      /\ \A r \in Pairs : Believed(r)' <=> Believed(r)
      /\ known' \subseteq Pairs
  BY <1>1, <1>2, NoticeTaken
<1>4. /\ notices' \in Seq(RealNotices) /\ DOMAIN notices' = 1 .. l - 1 /\ DOMAIN notices = 1 .. l
      /\ \A j \in 1 .. l - 1 : notices'[j] = notices[j + 1]
  BY <1>1, <1>2 DEF MetadataShape
<1>5. MetadataShape'
  BY <1>1, <1>3, <1>4 DEF MetadataShape
<1>6. ASSUME NEW i \in 1 .. l - 1, notices'[i].change # "Deleted", NEW r,
             r = <<notices'[i].subject, notices'[i].key>>
      PROVE  notices'[i].change = "Created" <=> ~WillBelieve(r, i - 1)'
  <2>1. i + 1 \in 1 .. l /\ notices'[i] = notices[i + 1] /\ notices[i + 1] \in RealNotices
    BY <1>4, <1>2 DEF MetadataShape
  <2>2. r \in Pairs
    BY <2>1, <1>6 DEF RealNotices, Pairs
  <2>3. i - 1 \in 0 .. l - 1 /\ (i - 1) + 1 = (i + 1) - 1
    OBVIOUS
  <2>4. WillBelieve(r, i - 1)' <=> WillBelieve(r, (i + 1) - 1)
    BY <2>2, <2>3, <1>3
  <2>5. notices[i + 1].change = "Created" <=> ~WillBelieve(r, (i + 1) - 1)
    BY <2>1, <1>4, <1>6 DEF NoticesOK
  <2>6. QED
    BY <2>1, <2>4, <2>5
<1>7. NoticesOK'
  BY <1>4, <1>6 DEF NoticesOK
<1>8. CallsOK' /\ GoneAreForgotten'
  BY <1>1 DEF CallsOK, Owns, Of, GoneAreForgotten, Stored
<1>9. ASSUME NEW c \in Setters, handle'[c] # "dead" PROVE Follows(c)'
  <2>1. Follows(c) /\ call'[c] = call[c] /\ subjects' \subseteq subjects
    BY <1>1, <1>9
  <2>2. QED
    BY <2>1, <1>1, <1>3, FollowsKeeps
<1>10. QED
  BY <1>5, <1>7, <1>8, <1>9

LEMMA MetadataInitial == MetadataInit => MetadataIInv
<1> SUFFICES ASSUME MetadataInit PROVE MetadataIInv
  OBVIOUS
<1>1. notices = <<>> /\ known = {} /\ Len(notices) = 0
  BY DEF MetadataInit
<1>2. MetadataShape
  <2>1. notices \in Seq(RealNotices)
    BY <1>1
  <2>2. call \in [Setters -> Calls]
    BY DEF MetadataInit, Calls
  <2>3. QED
    BY <2>1, <2>2 DEF MetadataInit, MetadataShape
<1>3. CallsOK /\ NoticesOK
  BY <1>1 DEF MetadataInit, CallsOK, NoCall, NoticesOK
<1>4. \A r : ~Believed(r)
  BY <1>1 DEF Believed, WillBelieve
<1>5. \A c \in Setters : Follows(c)
  BY <1>4 DEF MetadataInit, Follows, Agree, Mine, NoCall
<1>6. GoneAreForgotten
  BY DEF MetadataInit, GoneAreForgotten, Of, Stored
<1>7. QED
  BY <1>2, <1>3, <1>5, <1>6 DEF MetadataIInv

LEMMA MetadataStep ==
    ASSUME OnlyOwnersDescribe, MetadataIInv, [MetadataNext]_metadataVars
    PROVE  MetadataIInv'
<1>1. CASE UNCHANGED metadataVars
  <2>1. UNCHANGED <<db, subjects, handle, call, notices, known>>
    BY <1>1 DEF metadataVars
  <2>2. \A r : Believed(r)' <=> Believed(r)
    BY <2>1, NothingTold
  <2>3. NoticesOK'
    BY <2>1, NothingTold DEF MetadataIInv
  <2>4. MetadataShape' /\ CallsOK' /\ GoneAreForgotten'
    BY <2>1 DEF MetadataIInv, MetadataShape, CallsOK, Owns, Of, GoneAreForgotten, Stored
  <2>5. ASSUME NEW c \in Setters, handle'[c] # "dead" PROVE Follows(c)'
    BY <2>1, <2>2, <2>5, FollowsKeeps DEF MetadataIInv
  <2>6. QED
    BY <2>3, <2>4, <2>5 DEF MetadataIInv
<1>2. CASE MetadataNext
  BY <1>2, HandlesKeep, SetPropertyKeeps, PropertyPutKeeps, ChangeNotifyKeeps,
     RemovePropertyKeeps,
     RemovePropertiesKeeps, RemoveAllKeeps, ReleaseKeeps, CallbackKeeps DEF MetadataNext
<1>3. QED
  BY <1>1, <1>2

LEMMA MetadataFollows == MetadataIInv => MetadataInv
<1> SUFFICES ASSUME MetadataIInv PROVE MetadataInv
  OBVIOUS
<1> USE DEF MetadataIInv
<1>1. MetadataTypeOK
  <2>1. \A n \in RealNotices : n \in Notices
    BY DEF RealNotices
  <2>2. notices \in Seq(Notices)
    BY <2>1, SeqMonotonic DEF MetadataShape
  <2>3. QED
    BY <2>2, CallKinds DEF MetadataShape, MetadataTypeOK
<1>2. ListenerKnowsAll
  <2> SUFFICES ASSUME notices = <<>>, \A c \in Setters : call[c] = NoCall,
                      \A s \in subjects : handle[OwnerOf[s]] # "dead"
               PROVE  {r \in known : r[1] \in subjects} = Stored
    BY DEF ListenerKnowsAll
  <2>1. \A r : Believed(r) <=> r \in known
    BY DEF Believed, WillBelieve
  <2>2. ASSUME NEW r \in Pairs, r[1] \in subjects PROVE r \in known <=> db[r] # 0
    <3>1. OwnerOf[r[1]] \in Setters
      BY MetadataAssumption DEF Pairs
    <3>2. r \in Mine(OwnerOf[r[1]])
      BY <2>2 DEF Mine, Owns
    <3>3. Agree(r)
      BY <3>1, <3>2, <2>2, IdleAgrees
    <3>4. QED
      BY <3>3, <2>1 DEF Agree
  <2>3. known \subseteq Pairs /\ \A r \in Pairs : db[r] # 0 => r[1] \in subjects
    BY StoredIsThere DEF MetadataShape
  <2>4. QED
    BY <2>2, <2>3 DEF Stored
<1>3. CreatedIsNew
  <2> SUFFICES ASSUME notices # <<>>, Head(notices).change # "Deleted"
               PROVE  Head(notices).change = "Created" <=>
                          <<Head(notices).subject, Head(notices).key>> \notin known
    BY DEF CreatedIsNew
  <2>1. 1 \in DOMAIN notices /\ Head(notices) = notices[1]
    BY DEF MetadataShape
  <2>2. \A r : WillBelieve(r, 1 - 1) <=> r \in known
    BY DEF WillBelieve
  <2>3. QED
    BY <2>1, <2>2 DEF NoticesOK
<1>4. QED
  BY <1>1, <1>2, <1>3 DEF MetadataInv

\* As long as only its owner describes a port, whatever calls end or are cut short by a
\* death, and however the notices are delayed: once all is quiet the listener believes in
\* exactly the properties there are, no notice calls "created" what the listener knows, and
\* a port that is gone leaves nothing behind (libjack/metadata.c and the engine's
\* jack_property_change_notify).
THEOREM ListenerIsTold == ASSUME OnlyOwnersDescribe PROVE MetadataSpec => []MetadataInv
<1>1. MetadataIInv /\ [MetadataNext]_metadataVars => MetadataIInv'
  BY MetadataStep
<1>2. MetadataSpec => []MetadataIInv
  BY <1>1, MetadataInitial, PTL DEF MetadataSpec
<1>3. QED
  BY <1>2, MetadataFollows, PTL

------------------------------------------------------------------------------
(* The shared memory registry. RegistryInv is not inductive: that no two    *)
(* live servers have one name follows from the slots, of which everybody    *)
(* past its registration has one (SlotsAreClaimed); that a sweep leaves the *)
(* living alone follows from what a process that holds the lock still knows *)
(* of the entry it is at (WorkIsRight) and from the names, which open one   *)
(* object each (MappedIsNamed); and that the semaphore comes back from the  *)
(* fact that its holder is where it guards (LockIsHeld). After a server was *)
(* started with --replace-registry while others ran, or twice by one        *)
(* process, only types, sweeps and the semaphore are promised (Clean).      *)

Count == Cardinality(DOMAIN registries)
Slot == [pid : Procs \cup {Nobody}, name : ServerNames \cup {Nobody}]
Registry == [stage : {"empty", "sized", "valid"}, slot : [Slots -> Slot],
             entry : [Indexes -> Procs \cup {Nobody}]]
Process == [pc : Stages, name : ServerNames \cup {Nobody}, reg : 0 .. MaxRegistries,
            replace : BOOLEAN, closing : BOOLEAN, at : 0 .. LastIndex + 1,
            mine : [Indexes -> 0 .. MaxObjects], due : SUBSET (Indexes \X Procs)]

\* Where a process has no registry yet, and where it has a place in it.
Early == {"off", "semaphore", "raising", "initialize", "accessing"}
Registered == {"cleanup", "sweeping", "releasing", "files", "creating", "running", "malloc",
               "opening", "claiming", "attaching", "freeing", "freed", "unregister", "unregistering"}
ServingAt == {"running", "malloc", "opening", "claiming", "attaching", "freeing", "freed"}
Closing == {"cleanup", "sweeping", "releasing", "files", "unregister", "unregistering", "gone", "dead"}
Over == {"gone", "dead"}

ShmTyped ==
    /\ semaphore \in {-1, 0, 1} /\ holder \in Procs \cup {Nobody}
    /\ Count \in 0 .. MaxRegistries /\ DOMAIN registries = 1 .. Count
    /\ registries \in [DOMAIN registries -> Registry]
    /\ current \in 0 .. Count
    /\ names \in [Indexes -> 0 .. MaxObjects] /\ objects \in 0 .. MaxObjects
    /\ files \in [ServerNames -> Procs \cup {Nobody}]
    /\ proc \in [Procs -> Process]

\* What a process has depends on how far it is.
StagesOK ==
    \A p \in Procs :
        /\ proc[p].reg \in 0 .. Count
        /\ proc[p].pc \in Early => proc[p].reg = 0
        /\ proc[p].pc \notin Early \cup Over => proc[p].reg # 0
        /\ proc[p].pc # "off" => proc[p].name \in ServerNames
        /\ proc[p].pc \in {"releasing", "claiming", "attaching"} => proc[p].at \in Indexes
        /\ proc[p].closing => proc[p].pc \in Closing

\* One process at a time is where the semaphore guards it.
LockIsHeld ==
    /\ \A p \in Procs : holder = p <=> proc[p].pc \in Guarded
    /\ holder # Nobody => semaphore = 0
    /\ \A p \in Procs : proc[p].pc = "raising" => semaphore = 0 /\ holder = Nobody
    /\ \A p, q \in Procs : proc[p].pc = "raising" /\ proc[q].pc = "raising" => p = q
    /\ semaphore = -1 => \A p \in Procs : proc[p].pc \in {"off", "semaphore", "dead"}

\* What was due when the lock was taken is dead, and freed up to where the sweep is.
SweptSoFar ==
    \A p \in Procs : proc[p].pc \in {"sweeping", "releasing", "files"} =>
        \A e \in proc[p].due :
            /\ proc[e[2]].pc \in Over
            /\ proc[p].pc = "files" \/ e[1] < proc[p].at => MyRegistry(p).entry[e[1]] # e[2]

Clean == mishaps \cap {"replace", "twice"} = {}

RegistryIsOne == \A p \in Procs : alive(p) /\ proc[p].reg # 0 => proc[p].reg = current

\* A server that got through its registration has a slot, and the living have no other.
SlotsAreClaimed ==
    /\ \A p \in Procs : proc[p].pc \in Registered =>
          \E s \in Slots : MyRegistry(p).slot[s] = [pid |-> p, name |-> proc[p].name]
    /\ current # 0 => \A s \in Slots, p \in Procs :
          registries[current].slot[s].pid = p => proc[p].pc \in Registered \cup Over

NamesApart ==
    \A p, q \in Procs :
        p # q /\ proc[p].pc \in Registered /\ proc[q].pc \in Registered => proc[p].name # proc[q].name

EntriesAreLaunched ==
    current # 0 => \A i \in Indexes, p \in Procs :
        registries[current].entry[i] = p => proc[p].pc # "off"

\* A name opens one object, and an object that is mapped is opened by no name but
\* that of an entry of its process, and as long as that serves by this one.
MappedIsNamed ==
    /\ \A i, j \in Indexes : names[i] <= objects /\ (names[i] = names[j] /\ names[i] # 0 => i = j)
    /\ \A p \in Procs, i \in Indexes : proc[p].mine[i] # 0 =>
          /\ proc[p].pc \in ServingAt \/ (proc[p].closing /\ proc[p].pc \notin Over)
          /\ proc[p].mine[i] <= objects
          /\ \A j \in Indexes : names[j] = proc[p].mine[i] => j = i /\ MyRegistry(p).entry[i] = p
          /\ proc[p].pc \in ServingAt => names[i] = proc[p].mine[i]

MappedIsApart ==
    \A p, q \in Procs, i, j \in Indexes :
        p # q /\ proc[p].mine[i] # 0 => proc[p].mine[i] # proc[q].mine[j]

\* What a process is about to do to an entry is still right when it does it.
WorkIsRight ==
    \A p \in Procs : LET i == proc[p].at IN
        /\ proc[p].pc = "claiming" => names[i] # 0 /\ MyRegistry(p).entry[i] = Nobody
        /\ proc[p].pc = "attaching" => names[i] # 0 /\ MyRegistry(p).entry[i] = p
        /\ proc[p].pc = "releasing" =>
              /\ names[i] = 0
              /\ \A q \in Procs : MyRegistry(p).entry[i] = q => q = p \/ proc[q].pc \in Over

CleanInv ==
    /\ RegistryIsOne /\ SlotsAreClaimed /\ NamesApart /\ EntriesAreLaunched /\ MappedIsNamed
    /\ MappedIsApart /\ WorkIsRight

RegistryIInv ==
    /\ ShmTyped /\ StagesOK /\ LockIsHeld /\ JackCanStart /\ SweptSoFar
    /\ Clean => CleanInv

------------------------------------------------------------------------------
(* Who may hold the semaphore, and whether it comes back.                      *)

SemaphoreReturns ==
    semaphore = 0 => \E p \in Procs : proc[p].pc = "raising" \/ (alive(p) /\ holder = p)

RegistryIsMade ==
    current # 0 /\ registries[current].stage = "empty" => \E p \in Procs : At(p, "sizing")

LEMMA NobodyIsNone == \A p \in Procs \cup ServerNames : p # Nobody
BY ShmAssumption DEF Nobody

LEMMA CanStartInTwo == JackCanStart <=> ("kill" \notin mishaps => SemaphoreReturns /\ RegistryIsMade)
BY DEF JackCanStart, CanBeStarted, SemaphoreReturns, RegistryIsMade

LEMMA GuardedLive ==
    /\ \A x \in Guarded : x \notin {"off", "gone", "dead", "raising", "semaphore"}
    /\ Guarded \subseteq Stages
BY DEF Guarded, Stages

\* p moves and leaves the semaphore alone.
LEMMA LockKept ==
    ASSUME ShmTyped, LockIsHeld, NEW p \in Procs, NEW r \in Process, proc' = [proc EXCEPT ![p] = r],
           UNCHANGED <<semaphore, holder>>,
           r.pc \in Guarded <=> proc[p].pc \in Guarded,
           r.pc # "raising", proc[p].pc # "raising",
           semaphore = -1 => r.pc \in {"off", "semaphore", "dead"}
    PROVE  LockIsHeld' /\ (SemaphoreReturns => SemaphoreReturns')
<1>1. \A q \in Procs : proc'[q] = IF q = p THEN r ELSE proc[q]
  BY DEF ShmTyped
<1>2. LockIsHeld'
  BY <1>1 DEF LockIsHeld
<1>3. SemaphoreReturns => SemaphoreReturns'
  BY <1>1, GuardedLive DEF SemaphoreReturns, alive, LockIsHeld
<1> QED
  BY <1>2, <1>3

\* p takes it.
LEMMA LockTaken ==
    ASSUME ShmTyped, LockIsHeld, NEW p \in Procs, NEW r \in Process, proc' = [proc EXCEPT ![p] = r],
           semaphore > 0, semaphore' = semaphore - 1, holder' = p,
           proc[p].pc \notin Guarded, proc[p].pc # "raising", r.pc \in Guarded
    PROVE  LockIsHeld' /\ SemaphoreReturns' /\ semaphore' \in {-1, 0, 1}
<1>1. \A q \in Procs : proc'[q] = IF q = p THEN r ELSE proc[q]
  BY DEF ShmTyped
<1>2. semaphore = 1 /\ semaphore' = 0 /\ holder = Nobody /\ p # Nobody
  BY NobodyIsNone DEF ShmTyped, LockIsHeld
<1>3. \A q \in Procs : proc[q].pc \notin Guarded /\ proc[q].pc # "raising"
  BY <1>2, NobodyIsNone DEF LockIsHeld
<1>4. LockIsHeld'
  BY <1>1, <1>2, <1>3, GuardedLive DEF LockIsHeld
<1>5. SemaphoreReturns'
  BY <1>1, GuardedLive DEF SemaphoreReturns, alive
<1> QED
  BY <1>2, <1>4, <1>5

\* p gives it back, or SEM_UNDO does.
LEMMA LockGiven ==
    ASSUME ShmTyped, LockIsHeld, NEW p \in Procs, NEW r \in Process, proc' = [proc EXCEPT ![p] = r],
           semaphore' = semaphore + 1, holder' = Nobody,
           proc[p].pc \in Guarded, r.pc \notin Guarded, r.pc # "raising"
    PROVE  LockIsHeld' /\ SemaphoreReturns' /\ semaphore' \in {-1, 0, 1}
<1>1. \A q \in Procs : proc'[q] = IF q = p THEN r ELSE proc[q]
  BY DEF ShmTyped
<1>2. semaphore = 0 /\ semaphore' = 1 /\ holder = p /\ p # Nobody
  BY NobodyIsNone DEF ShmTyped, LockIsHeld
<1>3. \A q \in Procs : q # p => proc[q].pc \notin Guarded /\ proc[q].pc # "raising"
  BY <1>2 DEF LockIsHeld
<1>4. LockIsHeld'
  BY <1>1, <1>2, <1>3, NobodyIsNone DEF LockIsHeld
<1>5. SemaphoreReturns'
  BY <1>2 DEF SemaphoreReturns
<1> QED
  BY <1>2, <1>4, <1>5

\* A registry that is made is sized by the process that makes it.
LEMMA MakingKept ==
    ASSUME ShmTyped, NEW p \in Procs, NEW r \in Process, proc' = [proc EXCEPT ![p] = r],
           RegistryIsMade, proc[p].pc = "sizing" => r.pc = "sizing",
           current' = current,
           current # 0 => registries'[current].stage = registries[current].stage
    PROVE  RegistryIsMade'
<1>1. \A q \in Procs : proc'[q] = IF q = p THEN r ELSE proc[q]
  BY DEF ShmTyped
<1> QED
  BY <1>1 DEF RegistryIsMade, At

------------------------------------------------------------------------------
(* A process moves; the entries, the names and the objects stay.               *)

LEMMA MovesButSlots ==
    ASSUME RegistryIInv, Clean, NEW p \in Procs, NEW r \in Process, proc' = [proc EXCEPT ![p] = r],
           DOMAIN registries' = DOMAIN registries,
           \A g \in DOMAIN registries : registries'[g].entry = registries[g].entry,
           UNCHANGED <<current, names, objects>>,
           r.reg \in 0 .. Count, r.pc \in Early => r.reg = 0, r.pc \notin Early \cup Over => r.reg # 0,
           r.pc # "off", r.name \in ServerNames, r.closing => r.pc \in Closing,
           r.pc \notin {"releasing", "claiming", "attaching"},
           proc[p].pc \notin Over,
           r.pc \in {"sweeping", "files"} =>
               \A e \in r.due : /\ proc[e[2]].pc \in Over
                                /\ r.pc = "files" \/ e[1] < r.at => registries[r.reg].entry[e[1]] # e[2],
           Clean' =>
               /\ r.pc \notin Over /\ r.reg # 0 => r.reg = current
               /\ \A i \in Indexes : r.mine[i] # 0 =>
                     /\ r.mine[i] = proc[p].mine[i] /\ r.reg = proc[p].reg
                     /\ r.pc \in ServingAt \/ (r.closing /\ r.pc \notin Over)
                     /\ r.pc \in ServingAt => proc[p].pc \in ServingAt
    PROVE  /\ StagesOK' /\ SweptSoFar'
           /\ Clean' => RegistryIsOne' /\ EntriesAreLaunched' /\ MappedIsNamed' /\ MappedIsApart' /\ WorkIsRight'
<1>1. \A q \in Procs : proc'[q] = IF q = p THEN r ELSE proc[q]
  BY DEF RegistryIInv, ShmTyped
<1>2. Count' = Count
  BY DEF Count
<1>3. StagesOK'
  BY <1>1, <1>2 DEF StagesOK, RegistryIInv
<1>8. \A q \in Procs : proc[q].pc \notin Early \cup Over => proc[q].reg \in DOMAIN registries
  BY DEF RegistryIInv, ShmTyped, StagesOK
<1>9. r.pc \notin Early \cup Over => r.reg \in DOMAIN registries
  BY DEF RegistryIInv, ShmTyped
<1>0. /\ Registered \cap (Early \cup Over) = {} /\ ServingAt \subseteq Registered
      /\ Closing \cap Early = {} /\ {"sweeping", "releasing", "files", "claiming", "attaching"} \subseteq Registered
      /\ current # 0 => current \in DOMAIN registries
  BY DEF Registered, Early, Over, Closing, ServingAt, RegistryIInv, ShmTyped
<1>4. \A q \in Procs : proc[q].pc \in Over => proc'[q].pc \in Over
  BY <1>1
<1>5. \A q \in Procs : \A e \in proc'[q].due : e[2] \in Procs
  BY <1>1 DEF RegistryIInv, ShmTyped, Process
<1>6. SweptSoFar'
  BY <1>1, <1>4, <1>5, <1>8, <1>9, <1>0 DEF SweptSoFar, RegistryIInv, MyRegistry
<1>7. ASSUME Clean'
      PROVE  RegistryIsOne' /\ EntriesAreLaunched' /\ MappedIsNamed' /\ MappedIsApart' /\ WorkIsRight'
  <2>1. RegistryIsOne'
    BY <1>1, <1>7 DEF RegistryIsOne, RegistryIInv, CleanInv, alive, Over, Early
  <2>4. EntriesAreLaunched'
    BY <1>1, <1>0 DEF EntriesAreLaunched, RegistryIInv, CleanInv
  <2>5. MappedIsNamed'
    <3>1. ASSUME NEW q \in Procs, NEW i \in Indexes, proc'[q].mine[i] # 0
          PROVE  /\ proc'[q].mine[i] = proc[q].mine[i] /\ proc'[q].reg = proc[q].reg
                 /\ proc'[q].pc \in ServingAt \/ (proc'[q].closing /\ proc'[q].pc \notin Over)
                 /\ proc'[q].pc \in ServingAt => proc[q].pc \in ServingAt
      BY <1>1, <1>7, <3>1 DEF MappedIsNamed, RegistryIInv, CleanInv
    <3>2. ASSUME NEW q \in Procs, NEW i \in Indexes, proc[q].mine[i] # 0
          PROVE  proc[q].reg \in DOMAIN registries
      BY <1>8, <1>0, <3>2 DEF MappedIsNamed, RegistryIInv, CleanInv, StagesOK
    <3>3. ASSUME NEW q \in Procs, NEW i \in Indexes, proc'[q].mine[i] # 0
          PROVE  MyRegistry(q)'.entry = MyRegistry(q).entry
      BY <3>1, <3>2, <3>3 DEF MyRegistry
    <3> QED
      BY <3>1, <3>3 DEF MappedIsNamed, RegistryIInv, CleanInv
  <2>6. MappedIsApart'
    <3>1. \A q \in Procs, i \in Indexes : proc'[q].mine[i] # 0 => proc'[q].mine[i] = proc[q].mine[i]
      BY <1>1, <1>7
    <3> QED
      BY <3>1 DEF MappedIsApart, RegistryIInv, CleanInv
  <2>7. WorkIsRight'
    BY <1>1, <1>4, <1>8, <1>0 DEF WorkIsRight, RegistryIInv, CleanInv, MyRegistry
  <2> QED
    BY <2>1, <2>4, <2>5, <2>6, <2>7
<1> QED
  BY <1>3, <1>6, <1>7

LEMMA ProcessMoves ==
    ASSUME RegistryIInv, Clean, NEW p \in Procs, NEW r \in Process, proc' = [proc EXCEPT ![p] = r],
           DOMAIN registries' = DOMAIN registries,
           \A g \in DOMAIN registries :
               registries'[g].slot = registries[g].slot /\ registries'[g].entry = registries[g].entry,
           UNCHANGED <<current, names, objects>>,
           r.reg \in 0 .. Count, r.pc \in Early => r.reg = 0, r.pc \notin Early \cup Over => r.reg # 0,
           r.pc # "off", r.name \in ServerNames, r.closing => r.pc \in Closing,
           r.pc \notin {"releasing", "claiming", "attaching"},
           proc[p].pc \notin Over,
           r.pc \in {"sweeping", "files"} =>
               \A e \in r.due : /\ proc[e[2]].pc \in Over
                                /\ r.pc = "files" \/ e[1] < r.at => registries[r.reg].entry[e[1]] # e[2],
           Clean' =>
               /\ r.pc \notin Over /\ r.reg # 0 => r.reg = current
               /\ r.pc \in Registered =>
                     proc[p].pc \in Registered /\ r.name = proc[p].name /\ r.reg = proc[p].reg
               /\ proc[p].pc \in Registered => r.pc \in Registered \cup Over
               /\ \A i \in Indexes : r.mine[i] # 0 =>
                     /\ r.mine[i] = proc[p].mine[i] /\ r.reg = proc[p].reg
                     /\ r.pc \in ServingAt \/ (r.closing /\ r.pc \notin Over)
                     /\ r.pc \in ServingAt => proc[p].pc \in ServingAt
    PROVE  StagesOK' /\ SweptSoFar' /\ (Clean' => CleanInv')
<1>1. \A q \in Procs : proc'[q] = IF q = p THEN r ELSE proc[q]
  BY DEF RegistryIInv, ShmTyped
<1>8. \A q \in Procs : proc[q].pc \notin Early \cup Over => proc[q].reg \in DOMAIN registries
  BY DEF RegistryIInv, ShmTyped, StagesOK
<1>0. /\ Registered \cap (Early \cup Over) = {}
      /\ current # 0 => current \in DOMAIN registries
  BY DEF Registered, Early, Over, RegistryIInv, ShmTyped
<1>2. /\ StagesOK' /\ SweptSoFar'
      /\ Clean' => RegistryIsOne' /\ EntriesAreLaunched' /\ MappedIsNamed' /\ MappedIsApart' /\ WorkIsRight'
  BY MovesButSlots
<1>7. ASSUME Clean' PROVE SlotsAreClaimed' /\ NamesApart'
  <2>2. SlotsAreClaimed'
    <3>1. ASSUME NEW q \in Procs, proc'[q].pc \in Registered
          PROVE  \E s \in Slots : MyRegistry(q)'.slot[s] = [pid |-> q, name |-> proc'[q].name]
      BY <1>1, <1>7, <1>8, <1>0, <3>1 DEF SlotsAreClaimed, RegistryIInv, CleanInv, MyRegistry
    <3>2. ASSUME current # 0, NEW s \in Slots, NEW q \in Procs, registries'[current].slot[s].pid = q
          PROVE  proc'[q].pc \in Registered \cup Over
      BY <1>1, <1>7, <1>0, <3>2 DEF SlotsAreClaimed, RegistryIInv, CleanInv
    <3> QED
      BY <3>1, <3>2 DEF SlotsAreClaimed
  <2>3. NamesApart'
    BY <1>1, <1>7 DEF NamesApart, RegistryIInv, CleanInv
  <2> QED
    BY <2>2, <2>3
<1> QED
  BY <1>2, <1>7 DEF CleanInv


LEMMA RegistryIInvPrimed ==
    ASSUME ShmTyped', StagesOK', LockIsHeld', SweptSoFar', Clean' => CleanInv',
           "kill" \notin mishaps' => SemaphoreReturns' /\ RegistryIsMade'
    PROVE  RegistryIInv'
BY DEF RegistryIInv, JackCanStart, CanBeStarted, SemaphoreReturns, RegistryIsMade

\* What is known of a process that is at some place.
LEMMA AtIsKnown ==
    ASSUME RegistryIInv, NEW p \in Procs
    PROVE  /\ proc[p] \in Process /\ proc[p].reg \in 0 .. Count
           /\ proc[p].pc \in Early => proc[p].reg = 0
           /\ proc[p].pc \notin Early \cup Over =>
                 proc[p].reg # 0 /\ proc[p].reg \in DOMAIN registries /\ MyRegistry(p) \in Registry
           /\ proc[p].pc # "off" => proc[p].name \in ServerNames
           /\ proc[p].closing => proc[p].pc \in Closing
           /\ Clean => \A i \in Indexes : proc[p].mine[i] # 0 =>
                 proc[p].pc \in ServingAt \/ (proc[p].closing /\ proc[p].pc \notin Over)
           /\ Clean /\ proc[p].pc \notin {"off"} \cup Over /\ proc[p].reg # 0 => proc[p].reg = current
BY DEF RegistryIInv, ShmTyped, StagesOK, CleanInv, MappedIsNamed, RegistryIsOne, alive, MyRegistry,
       Early, Over

LEMMA ServerLaunchedKeeps ==
    ASSUME RegistryIInv, Clean, NEW p \in Procs, NEW n \in ServerNames, NEW replace \in BOOLEAN,
           ServerLaunched(p, n, replace)
    PROVE  RegistryIInv'
<1> DEFINE r == [proc[p] EXCEPT !.pc = "semaphore", !.name = n, !.replace = replace]
<1>1. proc[p] \in Process /\ proc[p].pc = "off" /\ ~proc[p].closing /\ proc[p].reg = 0
      /\ \A i \in Indexes : proc[p].mine[i] = 0
  BY AtIsKnown DEF ServerLaunched, At, Early, Closing, ServingAt
<1>2. r \in Process
  BY <1>1 DEF Process, Stages
<1>3. proc' = [proc EXCEPT ![p] = r]
  BY DEF ServerLaunched, RegistryIInv, ShmTyped
<1>4. r.pc = "semaphore" /\ r.name = n /\ r.reg = 0 /\ ~r.closing /\ \A i \in Indexes : r.mine[i] = 0
  BY <1>1 DEF Process
<1> HIDE DEF r
<1>5. LockIsHeld' /\ (SemaphoreReturns => SemaphoreReturns')
  BY <1>1, <1>2, <1>3, <1>4, LockKept DEF ServerLaunched, RegistryIInv, Guarded
<1>6. RegistryIsMade => RegistryIsMade'
  BY <1>1, <1>2, <1>3, MakingKept DEF ServerLaunched, RegistryIInv
<1>7. StagesOK' /\ SweptSoFar' /\ (Clean' => CleanInv')
  <2>1. r.pc \in Early /\ r.pc \notin Over /\ r.pc \notin Registered
        /\ proc[p].pc \notin Over /\ proc[p].pc \notin Registered
        /\ r.pc \notin {"off", "releasing", "claiming", "attaching", "sweeping", "files"}
    BY <1>1, <1>4 DEF Early, Over, Registered
  <2>2. r.reg \in 0 .. Count
    BY <1>1, <1>4, AtIsKnown
  <2>3. UNCHANGED <<registries, current, names, objects>>
    BY DEF ServerLaunched
  <2> QED
    BY <1>2, <1>3, <1>4, <2>1, <2>2, <2>3, ProcessMoves
<1>8. ShmTyped'
  BY <1>2, <1>3 DEF ServerLaunched, RegistryIInv, ShmTyped, Count
<1> QED
  BY <1>5, <1>6, <1>7, <1>8, CanStartInTwo, RegistryIInvPrimed DEF ServerLaunched, RegistryIInv

\* The same process starts a server again: only types and the semaphore are promised then.
LEMMA StartsTwiceKeeps ==
    ASSUME RegistryIInv, Clean, NEW p \in Procs, NEW n \in ServerNames, jackctl_server_start(p, n)
    PROVE  RegistryIInv'
<1> DEFINE r == [proc[p] EXCEPT !.pc = "register", !.name = n]
<1>1. proc[p] \in Process /\ proc[p].pc = "running" /\ ~proc[p].closing /\ proc[p].reg # 0
      /\ proc[p].reg \in 0 .. Count
  BY AtIsKnown DEF jackctl_server_start, At, Early, Closing, Over
<1>2. r \in Process
  BY <1>1 DEF Process, Stages
<1>3. proc' = [proc EXCEPT ![p] = r]
  BY DEF jackctl_server_start, RegistryIInv, ShmTyped
<1>4. r.pc = "register" /\ r.name = n /\ r.reg = proc[p].reg /\ ~r.closing
  BY <1>1 DEF Process
<1> HIDE DEF r
<1>5. LockIsHeld' /\ (SemaphoreReturns => SemaphoreReturns')
  <2>1. semaphore # -1
    BY <1>1 DEF RegistryIInv, LockIsHeld
  <2> QED
    BY <1>1, <1>2, <1>3, <1>4, <2>1, LockKept DEF jackctl_server_start, RegistryIInv, Guarded
<1>6. RegistryIsMade => RegistryIsMade'
  BY <1>1, <1>2, <1>3, MakingKept DEF jackctl_server_start, RegistryIInv
<1>7. ~Clean'
  BY DEF Clean, jackctl_server_start
<1>8. StagesOK' /\ SweptSoFar'
  BY <1>1, <1>2, <1>3, <1>4, <1>7, ProcessMoves DEF jackctl_server_start, Early, Over
<1>9. ShmTyped'
  BY <1>2, <1>3 DEF jackctl_server_start, RegistryIInv, ShmTyped, Count
<1> QED
  BY <1>5, <1>6, <1>7, <1>8, <1>9, CanStartInTwo, RegistryIInvPrimed
     DEF jackctl_server_start, RegistryIInv

\* What only moves p on, without the semaphore, the registry, the names and the objects.
LEMMA GoesOn ==
    ASSUME RegistryIInv, Clean, NEW p \in Procs, NEW r \in Process, proc' = [proc EXCEPT ![p] = r],
           UNCHANGED <<semaphore, holder, registries, current, names, objects, mishaps>>,
           files' \in [ServerNames -> Procs \cup {Nobody}],
           r.reg = proc[p].reg, r.name = proc[p].name, r.mine = proc[p].mine,
           proc[p].pc \in Stages \ (Early \cup Over \cup {"sizing"}),
           r.pc \in Stages \ (Early \cup Over \cup {"releasing", "claiming", "attaching"}),
           r.pc \in Guarded <=> proc[p].pc \in Guarded,
           r.closing => r.pc \in Closing,
           r.pc \in Registered <=> proc[p].pc \in Registered,
           \A i \in Indexes : proc[p].mine[i] # 0 =>
               /\ r.pc \in ServingAt \/ r.closing
               /\ r.pc \in ServingAt => proc[p].pc \in ServingAt,
           r.pc \in {"sweeping", "files"} =>
               \A e \in r.due : /\ proc[e[2]].pc \in Over
                                /\ r.pc = "files" \/ e[1] < r.at => registries[r.reg].entry[e[1]] # e[2]
    PROVE  RegistryIInv'
<1>1. proc[p].reg # 0 /\ proc[p].reg \in 0 .. Count /\ proc[p].name \in ServerNames
      /\ (Clean => proc[p].reg = current) /\ semaphore # -1 /\ proc[p].pc # "raising"
  BY AtIsKnown DEF Early, Over, RegistryIInv, LockIsHeld
<1>2. r.pc # "raising" /\ r.pc # "off"
  BY DEF Early
<1>3. LockIsHeld' /\ (SemaphoreReturns => SemaphoreReturns')
  BY <1>1, <1>2, LockKept DEF RegistryIInv
<1>4. RegistryIsMade => RegistryIsMade'
  BY MakingKept DEF RegistryIInv
<1>5. StagesOK' /\ SweptSoFar' /\ (Clean' => CleanInv')
  BY <1>1, <1>2, ProcessMoves
<1>6. ShmTyped'
  BY DEF RegistryIInv, ShmTyped, Count
<1> QED
  BY <1>3, <1>4, <1>5, <1>6, CanStartInTwo, RegistryIInvPrimed DEF RegistryIInv

\* The registry is read and written by a process that is on its way.
LEMMA SemaphoreInitKeeps ==
    ASSUME RegistryIInv, Clean, NEW p \in Procs, semaphore_init(p)
    PROVE  RegistryIInv'
<1>1. proc[p] \in Process /\ proc[p].pc \in {"semaphore", "raising"} /\ proc[p].reg = 0
      /\ proc[p].name \in ServerNames /\ ~proc[p].closing /\ 0 \in 0 .. Count
      /\ \A i \in Indexes : proc[p].mine[i] = 0
  BY AtIsKnown DEF semaphore_init, At, Early, Closing, ServingAt, Over
<1>2. PICK there \in {"raising", "initialize"} :
        /\ proc' = [proc EXCEPT ![p].pc = there]
        /\ \/ semaphore = -1 /\ semaphore' = 0 /\ there = "raising"
           \/ semaphore # -1 /\ semaphore' = semaphore /\ there = "initialize" /\ proc[p].pc = "semaphore"
           \/ proc[p].pc = "raising" /\ semaphore' = semaphore + 1 /\ there = "initialize"
  BY DEF semaphore_init, At, Goes
<1> DEFINE r == [proc[p] EXCEPT !.pc = there]
<1>3. proc' = [proc EXCEPT ![p] = r] /\ r \in Process
  BY <1>1, <1>2 DEF RegistryIInv, ShmTyped, Process, Stages
<1>4. r.pc = there /\ r.name = proc[p].name /\ r.reg = 0 /\ ~r.closing /\ \A i \in Indexes : r.mine[i] = 0
  BY <1>1 DEF Process
<1> HIDE DEF r
<1>5. \A q \in Procs : proc'[q] = IF q = p THEN r ELSE proc[q]
  BY <1>3 DEF RegistryIInv, ShmTyped
<1>6. LockIsHeld' /\ (SemaphoreReturns => SemaphoreReturns') /\ semaphore' \in {-1, 0, 1}
  <2>1. CASE semaphore = -1 /\ semaphore' = 0 /\ there = "raising"
    <3>1. \A q \in Procs : proc[q].pc \in {"off", "semaphore", "dead"}
      BY <2>1 DEF RegistryIInv, LockIsHeld
    <3>2. holder' = holder /\ holder = Nobody
      BY <3>1, GuardedLive DEF RegistryIInv, LockIsHeld, ShmTyped, semaphore_init
    <3>3. LockIsHeld'
      BY <1>4, <1>5, <2>1, <3>1, <3>2, NobodyIsNone, GuardedLive DEF LockIsHeld
    <3> QED
      BY <1>4, <1>5, <2>1, <3>3 DEF SemaphoreReturns
  <2>2. CASE semaphore # -1 /\ semaphore' = semaphore /\ there = "initialize" /\ proc[p].pc = "semaphore"
    BY <1>3, <1>4, <2>2, LockKept DEF RegistryIInv, semaphore_init, Guarded, ShmTyped
  <2>3. CASE proc[p].pc = "raising" /\ semaphore' = semaphore + 1 /\ there = "initialize"
    <3>1. semaphore = 0 /\ holder = Nobody /\ holder' = Nobody
          /\ \A q \in Procs : q # p => proc[q].pc # "raising"
      BY <2>3 DEF RegistryIInv, LockIsHeld, semaphore_init
    <3>2. \A q \in Procs : proc'[q].pc \notin Guarded /\ proc'[q].pc # "raising"
      BY <1>4, <1>5, <2>3, <3>1, NobodyIsNone DEF LockIsHeld, RegistryIInv, Guarded
    <3>3. LockIsHeld'
      BY <2>3, <3>1, <3>2, NobodyIsNone DEF LockIsHeld
    <3> QED
      BY <2>3, <3>1, <3>3 DEF SemaphoreReturns
  <2> QED
    BY <1>2, <2>1, <2>2, <2>3
<1>7. UNCHANGED <<registries, current, names, objects, files, mishaps>>
  BY DEF semaphore_init
<1>8. RegistryIsMade => RegistryIsMade'
  BY <1>1, <1>3, <1>7, MakingKept DEF RegistryIInv
<1>9. StagesOK' /\ SweptSoFar' /\ (Clean' => CleanInv')
  <2>1. r.pc \in Early /\ r.pc \notin Over /\ r.pc \notin Registered
        /\ proc[p].pc \notin Over /\ proc[p].pc \notin Registered
        /\ r.pc \notin {"off", "releasing", "claiming", "attaching", "sweeping", "files"}
    BY <1>1, <1>4 DEF Early, Over, Registered
  <2> QED
    BY <1>1, <1>3, <1>4, <1>7, <2>1, ProcessMoves
<1>10. ShmTyped'
  BY <1>3, <1>6, <1>7 DEF semaphore_init, RegistryIInv, ShmTyped, Count
<1> QED
  BY <1>6, <1>7, <1>8, <1>9, <1>10, CanStartInTwo, RegistryIInvPrimed DEF RegistryIInv

LEMMA LockRegistryKeeps ==
    ASSUME RegistryIInv, Clean, NEW p \in Procs, jack_shm_lock_registry(p)
    PROVE  RegistryIInv'
<1>1. proc[p] \in Process /\ proc[p].reg \in 0 .. Count /\ proc[p].name \in ServerNames
      /\ proc[p].pc \in {"initialize", "register", "cleanup", "malloc", "freeing", "unregister"}
      /\ (proc[p].pc = "initialize" => proc[p].reg = 0)
      /\ (proc[p].pc # "initialize" => proc[p].reg # 0 /\ proc[p].reg = current)
      /\ (proc[p].closing => proc[p].pc \in Closing)
      /\ \A i \in Indexes : proc[p].mine[i] # 0 => proc[p].pc \in ServingAt \/ proc[p].closing
  BY AtIsKnown DEF jack_shm_lock_registry, LockedStage, Early, Over
<1> DEFINE there == LockedStage[proc[p].pc]
           due == IF At(p, "cleanup") THEN DeadEntries(p) ELSE {}
           r == [proc[p] EXCEPT !.pc = there, !.at = 0, !.due = due]
<1>2. /\ there \in Guarded /\ there \in {"accessing", "registering", "sweeping", "opening", "freed", "unregistering"}
      /\ there = "accessing" <=> proc[p].pc = "initialize"
      /\ there = "registering" <=> proc[p].pc = "register"
      /\ there = "sweeping" <=> proc[p].pc = "cleanup"
      /\ there = "opening" <=> proc[p].pc = "malloc"
      /\ there = "freed" <=> proc[p].pc = "freeing"
      /\ there = "unregistering" <=> proc[p].pc = "unregister"
  BY <1>1 DEF LockedStage, Guarded
<1>3. due \in SUBSET (Indexes \X Procs)
  BY DEF DeadEntries
<1>4. proc' = [proc EXCEPT ![p] = r]
  BY DEF jack_shm_lock_registry, RegistryIInv, ShmTyped, At
<1>5. r \in Process /\ r.pc = there /\ r.due = due /\ r.at = 0
      /\ r.name = proc[p].name /\ r.reg = proc[p].reg /\ r.closing = proc[p].closing /\ r.mine = proc[p].mine
  <2>1. 0 \in 0 .. LastIndex + 1
    BY ShmAssumption
  <2>2. there \in Stages
    BY <1>2, GuardedLive
  <2> HIDE DEF there, due
  <2> QED
    BY <1>1, <1>3, <2>1, <2>2 DEF Process
<1>6. \A e \in due : proc[e[2]].pc \in Over /\ e[1] \in Indexes /\ proc[p].pc = "cleanup"
  <2>1. ASSUME NEW e \in due PROVE proc[e[2]].pc \in Over /\ e[1] \in Indexes /\ proc[p].pc = "cleanup"
    <3>1. proc[p].pc = "cleanup" /\ e \in Indexes \X Procs /\ MyRegistry(p).entry[e[1]] = e[2] /\ ~alive(e[2])
      BY <2>1 DEF DeadEntries, At
    <3>2. registries[current].entry[e[1]] = e[2] /\ current # 0 /\ e[1] \in Indexes /\ e[2] \in Procs
      BY <1>1, <3>1 DEF MyRegistry
    <3>3. proc[e[2]].pc # "off"
      BY <3>2 DEF EntriesAreLaunched, RegistryIInv, CleanInv
    <3> QED
      BY <3>1, <3>2, <3>3 DEF alive, Over
  <2> QED
    BY <2>1
<1> HIDE DEF there, due, r
<1>7. LockIsHeld' /\ SemaphoreReturns' /\ semaphore' \in {-1, 0, 1}
  BY <1>1, <1>2, <1>4, <1>5, LockTaken DEF jack_shm_lock_registry, RegistryIInv, Guarded
<1>8. UNCHANGED <<registries, current, names, objects, files, mishaps>>
  BY DEF jack_shm_lock_registry
<1>9. RegistryIsMade => RegistryIsMade'
  BY <1>1, <1>4, <1>5, <1>8, MakingKept DEF RegistryIInv
<1>10. StagesOK' /\ SweptSoFar' /\ (Clean' => CleanInv')
  <2>1. /\ r.pc \in Early <=> proc[p].pc \in Early
        /\ r.pc \in Registered <=> proc[p].pc \in Registered
        /\ r.pc \in ServingAt <=> proc[p].pc \in ServingAt
        /\ r.closing => r.pc \in Closing
        /\ r.pc \notin Over /\ proc[p].pc \notin Over
        /\ r.pc \notin {"off", "releasing", "claiming", "attaching", "files"}
    BY <1>1, <1>2, <1>5 DEF Early, Over, Registered, ServingAt, Closing
  <2>2. r.reg = 0 <=> r.pc \in Early
    BY <1>1, <1>2, <1>5 DEF Early
  <2>3. \A e \in r.due : proc[e[2]].pc \in Over /\ ~(e[1] < r.at)
    BY <1>5, <1>6, ShmAssumption DEF Indexes
  <2> QED
    BY <1>1, <1>4, <1>5, <1>8, <2>1, <2>2, <2>3, ProcessMoves
<1>11. ShmTyped'
  BY <1>4, <1>5, <1>7, <1>8 DEF jack_shm_lock_registry, RegistryIInv, ShmTyped, Count
<1> QED
  BY <1>7, <1>8, <1>9, <1>10, <1>11, CanStartInTwo, RegistryIInvPrimed DEF RegistryIInv

\* A registry that is valid is used; one that cannot be read kills its reader.
LEMMA InitializeUses ==
    ASSUME RegistryIInv, Clean, NEW p \in Procs, jack_server_initialize_shm(p), UNCHANGED registries
    PROVE  RegistryIInv'
<1>1. proc[p] \in Process /\ proc[p].pc = "accessing" /\ proc[p].reg = 0
      /\ proc[p].name \in ServerNames /\ ~proc[p].closing /\ 0 \in 0 .. Count
      /\ \A i \in Indexes : proc[p].mine[i] = 0
  BY AtIsKnown DEF jack_server_initialize_shm, At, Early, Closing, ServingAt, Over
<1>2. holder = p /\ Count \in Nat /\ DOMAIN registries = 1 .. Count /\ current \in 0 .. MaxRegistries
  BY <1>1, ShmAssumption DEF RegistryIInv, LockIsHeld, Guarded, ShmTyped
<1>3. PICK there \in {"register", "dead"}, reg \in 0 .. Count :
        /\ proc' = [proc EXCEPT ![p] = [proc[p] EXCEPT !.pc = there, !.reg = reg]]
        /\ there = "register" => reg = current /\ reg # 0
        /\ there = "dead" => reg = 0
        /\ semaphore' = semaphore + 1 /\ holder' = Nobody
        /\ UNCHANGED <<mishaps, current, names, objects, files>>
  <2>1. CASE At(p, "accessing") /\ UsesRegistry(current, proc[p].replace)
    <3>1. proc' = [proc EXCEPT ![p] = [proc[p] EXCEPT !.pc = "register", !.reg = current]]
          /\ Unlocked /\ UNCHANGED <<mishaps, registries, current, names, objects, files>>
      <4>1. proc' = [proc EXCEPT ![p].pc = "register", ![p].reg = current]
            /\ Unlocked /\ UNCHANGED <<mishaps, registries, current, names, objects, files>>
        BY <2>1 DEF jack_server_initialize_shm, UsesRegistry, MakesRegistry
      <4> QED
        BY <4>1 DEF RegistryIInv, ShmTyped
    <3> QED
      BY <2>1, <3>1 DEF UsesRegistry, Unlocked, RegistryIInv, ShmTyped
  <2>2. CASE Goes(p, "dead") /\ semaphore' = semaphore_add(p) /\ holder' = Nobody
             /\ UNCHANGED <<mishaps, registries, current, names, objects, files>>
    BY <1>1, <1>2, <2>2 DEF Goes, semaphore_add, RegistryIInv, ShmTyped, Process
  <2>3. CASE Count < MaxRegistries
             /\ registries' = [g \in 1 .. Count + 1 |->
                                 IF g \in DOMAIN registries THEN registries[g] ELSE EmptyRegistry]
    <3>1. DOMAIN registries' = 1 .. Count + 1
      BY <2>3
    <3>2. Count + 1 \in DOMAIN registries' /\ Count + 1 \notin DOMAIN registries
      BY <1>2, <3>1
    <3> QED
      BY <3>2
  <2> QED
    BY <2>1, <2>2, <2>3 DEF jack_server_initialize_shm, Count
<1> DEFINE r == [proc[p] EXCEPT !.pc = there, !.reg = reg]
<1>4. r \in Process /\ r.pc = there /\ r.reg = reg /\ r.name = proc[p].name /\ ~r.closing
      /\ \A i \in Indexes : r.mine[i] = 0
  BY <1>1, <1>2, <1>3 DEF Process, Stages, RegistryIInv, ShmTyped
<1>5. proc' = [proc EXCEPT ![p] = r]
  BY <1>3
<1> HIDE DEF r
<1>6. LockIsHeld' /\ SemaphoreReturns' /\ semaphore' \in {-1, 0, 1}
  BY <1>1, <1>3, <1>4, <1>5, LockGiven DEF RegistryIInv, Guarded
<1>7. RegistryIsMade => RegistryIsMade'
  BY <1>1, <1>3, <1>4, <1>5, MakingKept DEF RegistryIInv
<1>8. StagesOK' /\ SweptSoFar' /\ (Clean' => CleanInv')
  <2>1. /\ r.pc \notin Early /\ r.pc \notin Registered /\ proc[p].pc \notin Over
        /\ r.pc \notin {"off", "releasing", "claiming", "attaching", "sweeping", "files"}
        /\ r.pc \notin Over => r.reg # 0 /\ r.reg = current
        /\ proc[p].pc \notin Registered
    BY <1>1, <1>3, <1>4 DEF Early, Over, Registered
  <2> QED
    BY <1>1, <1>3, <1>4, <1>5, <2>1, ProcessMoves
<1>9. ShmTyped'
  BY <1>3, <1>4, <1>5, <1>6 DEF RegistryIInv, ShmTyped, Count
<1> QED
  BY <1>3, <1>6, <1>7, <1>8, <1>9, CanStartInTwo, RegistryIInvPrimed DEF RegistryIInv

\* A registry is made anew, where no server that is alive uses one.
LEMMA InitializeMakes ==
    ASSUME RegistryIInv, Clean, NEW p \in Procs, jack_server_initialize_shm(p), registries' # registries
    PROVE  RegistryIInv'
<1>1. proc[p] \in Process /\ proc[p].pc = "accessing" /\ proc[p].reg = 0
      /\ proc[p].name \in ServerNames /\ ~proc[p].closing
      /\ \A i \in Indexes : proc[p].mine[i] = 0
  BY AtIsKnown DEF jack_server_initialize_shm, At, Early, Closing, ServingAt, Over
<1>2. holder = p /\ Count \in Nat /\ DOMAIN registries = 1 .. Count /\ current \in 0 .. Count
      /\ Count + 1 \in Nat
  BY <1>1, ShmAssumption DEF RegistryIInv, LockIsHeld, Guarded, ShmTyped
<1> DEFINE new == Count + 1
<1>3. /\ Count < MaxRegistries
      /\ registries' = [g \in 1 .. new |-> IF g \in DOMAIN registries THEN registries[g] ELSE EmptyRegistry]
      /\ current' = new
      /\ proc' = [proc EXCEPT ![p].pc = "sizing", ![p].reg = current']
      /\ mishaps' = mishaps \cup (IF \E q \in Procs \ {p} : alive(q) /\ proc[q].reg # 0 THEN {"replace"} ELSE {})
      /\ UNCHANGED <<semaphore, holder, names, objects, files>>
  BY DEF jack_server_initialize_shm, Count
<1> DEFINE r == [proc[p] EXCEPT !.pc = "sizing", !.reg = new]
<1>4. proc' = [proc EXCEPT ![p] = r]
  BY <1>3 DEF RegistryIInv, ShmTyped
<1>5. r \in Process /\ r.pc = "sizing" /\ r.reg = new /\ r.name = proc[p].name /\ ~r.closing
      /\ \A i \in Indexes : r.mine[i] = 0
  <2>1. new \in 0 .. MaxRegistries
    BY <1>2, <1>3, ShmAssumption
  <2>2. "sizing" \in Stages
    BY DEF Stages, Guarded
  <2> HIDE DEF new
  <2> QED
    BY <1>1, <2>1, <2>2 DEF Process
<1>6. Count' = new
  <2>1. DOMAIN registries' = 1 .. new
    BY <1>3
  <2>2. Cardinality(1 .. new) = IF 1 > new THEN 0 ELSE new - 1 + 1
    BY <1>2, FS_Interval
  <2> QED
    BY <1>2, <2>1, <2>2 DEF Count
<1> HIDE DEF r
<1>7. \A q \in Procs : proc'[q] = IF q = p THEN r ELSE proc[q]
  BY <1>4 DEF RegistryIInv, ShmTyped
<1>8. /\ \A g \in DOMAIN registries : registries'[g] = registries[g]
      /\ registries'[new] = EmptyRegistry /\ new # 0 /\ DOMAIN registries \subseteq 1 .. new
      /\ DOMAIN registries' = 1 .. new
  BY <1>2, <1>3
<1>9. EmptyRegistry \in Registry /\ EmptyRegistry.stage = "empty"
      /\ (\A s \in Slots : EmptyRegistry.slot[s].pid = Nobody)
      /\ (\A i \in Indexes : EmptyRegistry.entry[i] = Nobody)
  BY DEF EmptyRegistry, Registry, Slot, FreeSlot
<1>17. current' = new /\ UNCHANGED <<semaphore, holder, names, objects, files>>
  BY <1>3
<1>18. new \in Nat /\ new \in 0 .. MaxRegistries /\ Count \in 0 .. new
  BY <1>2, <1>3, ShmAssumption
<1> HIDE DEF new
<1>10. LockIsHeld' /\ (SemaphoreReturns => SemaphoreReturns')
  BY <1>1, <1>3, <1>4, <1>5, LockKept DEF RegistryIInv, Guarded, LockIsHeld
<1>11. RegistryIsMade'
  BY <1>5, <1>7 DEF RegistryIsMade, At
<1>12. StagesOK'
  <2>1. r.reg \in 0 .. new /\ r.pc \notin Early /\ r.pc \notin Over /\ r.reg # 0 /\ r.name \in ServerNames
        /\ r.pc \notin {"releasing", "claiming", "attaching"} /\ ~r.closing
    BY <1>1, <1>5, <1>8, <1>18 DEF Early, Over
  <2>2. \A q \in Procs : proc[q].reg \in 0 .. new
    BY <1>18 DEF StagesOK, RegistryIInv
  <2> QED
    BY <1>6, <1>7, <2>1, <2>2 DEF StagesOK, RegistryIInv
<1>13. SweptSoFar'
  <2>1. \A q \in Procs : proc[q].pc \in {"sweeping", "releasing", "files"} => proc[q].reg \in DOMAIN registries
    BY <1>2 DEF StagesOK, RegistryIInv, Early, Over
  <2>2. \A q \in Procs : proc[q].pc \in Over => proc'[q].pc \in Over
    BY <1>1, <1>7 DEF Over
  <2>3. \A q \in Procs : \A e \in proc'[q].due : e[2] \in Procs
    <3>1. \A q \in Procs : proc'[q] \in Process
      BY <1>5, <1>7 DEF RegistryIInv, ShmTyped
    <3> QED
      BY <3>1 DEF Process
  <2> QED
    BY <1>5, <1>7, <1>8, <2>1, <2>2, <2>3 DEF SweptSoFar, RegistryIInv, MyRegistry
<1>14. ASSUME Clean' PROVE CleanInv'
  <2>1. \A q \in Procs : q # p => ~alive(q) \/ proc[q].reg = 0
    BY <1>3, <1>14 DEF Clean
  <2>2. \A q \in Procs : proc'[q].pc \notin Registered /\ proc'[q].pc \notin {"claiming", "attaching", "releasing"}
    BY <2>1, <1>5, <1>7 DEF StagesOK, RegistryIInv, Early, Over, Registered, alive
  <2>3. \A q \in Procs, i \in Indexes : proc'[q].mine[i] = 0
    <3>1. ASSUME NEW q \in Procs, q # p, NEW i \in Indexes, proc[q].mine[i] # 0 PROVE FALSE
      <4>1. proc[q].pc \in ServingAt \/ (proc[q].closing /\ proc[q].pc \notin Over)
        BY <3>1 DEF RegistryIInv, CleanInv, MappedIsNamed
      <4>2. proc[q].pc \in ServingAt \/ (proc[q].pc \in Closing /\ proc[q].pc \notin Over)
        BY <4>1 DEF StagesOK, RegistryIInv
      <4> QED
        BY <2>1, <3>1, <4>2 DEF StagesOK, RegistryIInv, Early, Over, ServingAt, Closing, alive
    <3> QED
      BY <1>5, <1>7, <3>1
  <2>4. RegistryIsOne'
    BY <2>1, <1>3, <1>5, <1>7 DEF RegistryIsOne, alive
  <2>5. SlotsAreClaimed'
    BY <1>17, <1>8, <1>9, <2>2, NobodyIsNone DEF SlotsAreClaimed
  <2>6. NamesApart'
    BY <2>2 DEF NamesApart
  <2>7. EntriesAreLaunched'
    BY <1>17, <1>8, <1>9, NobodyIsNone DEF EntriesAreLaunched
  <2>8. MappedIsNamed'
    BY <1>17, <2>3 DEF MappedIsNamed, RegistryIInv, CleanInv
  <2>9. MappedIsApart'
    BY <2>3 DEF MappedIsApart
  <2>10. WorkIsRight'
    BY <2>2 DEF WorkIsRight
  <2> QED
    BY <2>4, <2>5, <2>6, <2>7, <2>8, <2>9, <2>10 DEF CleanInv
<1>15. ShmTyped'
  <2>1. registries' \in [1 .. new -> Registry]
    BY <1>2, <1>3, <1>9 DEF RegistryIInv, ShmTyped
  <2> QED
    BY <1>4, <1>5, <1>6, <1>8, <1>17, <1>18, <2>1 DEF RegistryIInv, ShmTyped
<1>16. "kill" \notin mishaps' => "kill" \notin mishaps
  BY <1>3
<1> QED
  BY <1>10, <1>11, <1>12, <1>13, <1>14, <1>15, <1>16, CanStartInTwo, RegistryIInvPrimed DEF RegistryIInv

\* What a step that keeps to the registries' number does to their types.
LEMMA RegistriesTyped ==
    ASSUME ShmTyped, NEW g \in DOMAIN registries, NEW R \in Registry,
           registries' = [registries EXCEPT ![g] = R]
    PROVE  /\ Count' = Count /\ DOMAIN registries' = DOMAIN registries
           /\ registries' \in [DOMAIN registries' -> Registry]
           /\ registries'[g] = R
           /\ \A h \in DOMAIN registries : h # g => registries'[h] = registries[h]
<1>1. DOMAIN registries' = DOMAIN registries
  OBVIOUS
<1> QED
  BY <1>1 DEF ShmTyped, Count

\* The registry is given its size, then filled in.
LEMMA CreateRegistryKeeps ==
    ASSUME RegistryIInv, Clean, NEW p \in Procs, jack_create_registry(p)
    PROVE  RegistryIInv'
<1>1. /\ proc[p] \in Process /\ proc[p].pc \in {"sizing", "filling"} /\ proc[p].reg # 0
      /\ proc[p].reg \in DOMAIN registries /\ proc[p].reg \in 0 .. Count /\ proc[p].reg = current
      /\ proc[p].name \in ServerNames /\ ~proc[p].closing /\ MyRegistry(p) \in Registry
      /\ \A i \in Indexes : proc[p].mine[i] = 0
  BY AtIsKnown DEF jack_create_registry, At, Early, Closing, ServingAt, Over
<1>2. PICK there \in {"filling", "register"}, stage \in {"sized", "valid"} :
        /\ proc' = [proc EXCEPT ![p].pc = there]
        /\ registries' = [registries EXCEPT ![proc[p].reg].stage = stage]
        /\ \/ proc[p].pc = "sizing" /\ there = "filling" /\ UNCHANGED <<semaphore, holder>>
           \/ /\ proc[p].pc = "filling" /\ there = "register"
              /\ semaphore' = semaphore + 1 /\ holder' = Nobody
        /\ UNCHANGED <<mishaps, current, names, objects, files>>
  BY DEF jack_create_registry, At, Goes, Unlocked
<1> DEFINE r == [proc[p] EXCEPT !.pc = there]
           R == [MyRegistry(p) EXCEPT !.stage = stage]
<1>3. proc' = [proc EXCEPT ![p] = r] /\ r \in Process
  BY <1>1, <1>2 DEF RegistryIInv, ShmTyped, Process, Stages, Guarded
<1>4. r.pc = there /\ r.name = proc[p].name /\ r.reg = proc[p].reg /\ ~r.closing
      /\ \A i \in Indexes : r.mine[i] = 0
  BY <1>1 DEF Process
<1>5. R \in Registry /\ R.stage = stage /\ R.slot = MyRegistry(p).slot /\ R.entry = MyRegistry(p).entry
  BY <1>1 DEF Registry
<1>6. registries' = [registries EXCEPT ![proc[p].reg] = R]
  BY <1>1, <1>2 DEF MyRegistry
<1> HIDE DEF r, R
<1>7. /\ Count' = Count /\ DOMAIN registries' = DOMAIN registries
      /\ registries' \in [DOMAIN registries' -> Registry]
      /\ registries'[proc[p].reg] = R
      /\ \A g \in DOMAIN registries : g # proc[p].reg => registries'[g] = registries[g]
  BY <1>1, <1>5, <1>6, RegistriesTyped DEF RegistryIInv
<1>8. LockIsHeld' /\ (SemaphoreReturns => SemaphoreReturns') /\ semaphore' \in {-1, 0, 1}
  <2>1. CASE there = "filling"
    <3>1. /\ r.pc \in Guarded /\ proc[p].pc \in Guarded /\ r.pc # "raising" /\ proc[p].pc # "raising"
          /\ UNCHANGED <<semaphore, holder>>
      BY <1>1, <1>2, <1>4, <2>1 DEF Guarded
    <3>2. semaphore # -1 /\ semaphore \in {-1, 0, 1}
      BY <3>1, GuardedLive DEF RegistryIInv, LockIsHeld, ShmTyped
    <3> QED
      BY <1>3, <3>1, <3>2, LockKept DEF RegistryIInv
  <2>2. CASE there = "register"
    BY <1>1, <1>2, <1>3, <1>4, <2>2, LockGiven DEF RegistryIInv, Guarded
  <2> QED
    BY <1>2, <2>1, <2>2
<1>9. RegistryIsMade'
  BY <1>1, <1>2, <1>5, <1>7 DEF RegistryIsMade
<1>10. StagesOK' /\ SweptSoFar' /\ (Clean' => CleanInv')
  <2>1. /\ r.pc \notin Early /\ r.pc \notin Registered /\ proc[p].pc \notin Over
        /\ r.pc \notin {"off", "releasing", "claiming", "attaching", "sweeping", "files"}
        /\ r.pc \notin Over /\ proc[p].pc \notin Registered
    BY <1>1, <1>4 DEF Early, Over, Registered
  <2>2. \A g \in DOMAIN registries :
           registries'[g].slot = registries[g].slot /\ registries'[g].entry = registries[g].entry
    BY <1>5, <1>7 DEF MyRegistry
  <2>3. UNCHANGED <<current, names, objects>>
    BY <1>2
  <2> QED
    BY <1>1, <1>3, <1>4, <1>7, <2>1, <2>2, <2>3, ProcessMoves
<1>11. ShmTyped'
  BY <1>2, <1>3, <1>7, <1>8 DEF RegistryIInv, ShmTyped
<1> QED
  BY <1>2, <1>8, <1>9, <1>10, <1>11, CanStartInTwo, RegistryIInvPrimed DEF RegistryIInv

\* p registers: under a name no living process has, or not at all.
LEMMA RegisterServerKeeps ==
    ASSUME RegistryIInv, Clean, NEW p \in Procs, jack_register_server(p)
    PROVE  RegistryIInv'
<1>1. /\ proc[p] \in Process /\ proc[p].pc = "registering" /\ proc[p].reg # 0
      /\ proc[p].reg \in DOMAIN registries /\ proc[p].reg \in 0 .. Count /\ proc[p].reg = current
      /\ proc[p].name \in ServerNames /\ ~proc[p].closing /\ MyRegistry(p) \in Registry
      /\ \A i \in Indexes : proc[p].mine[i] = 0
  BY AtIsKnown DEF jack_register_server, At, Early, Closing, ServingAt, Over
<1> DEFINE slot == MyRegistry(p).slot
           own == {s \in Slots : slot[s].pid = p /\ slot[s].name = proc[p].name}
           mine == [pid |-> p, name |-> proc[p].name]
\* No slot is p's yet: p is not registered.
<1>2. own = {}
  <2>1. \A s \in Slots : slot[s].pid # p
    BY <1>1 DEF MyRegistry, RegistryIInv, CleanInv, SlotsAreClaimed, Registered, Over
  <2> QED
    BY <2>1
<1>3. slot \in [Slots -> Slot] /\ Reclaimed(p, slot) \in [Slots -> Slot] /\ mine \in Slot
  BY <1>1 DEF Registry, Reclaimed, FreeSlot, Slot
\* The slots become these; a server that goes on has one.
<1>4. PICK there \in {"gone", "cleanup"}, new \in [Slots -> Slot] :
        /\ proc' = [proc EXCEPT ![p].pc = there]
        /\ registries' = [registries EXCEPT ![proc[p].reg].slot = new]
        /\ \A s \in Slots : \/ new[s] = slot[s] \/ new[s] = FreeSlot
                            \/ there = "cleanup" /\ new[s] = mine
        /\ \A s \in Slots : new[s] # slot[s] =>
              \/ Claimed(p, slot) = {} /\ slot[s].name = proc[p].name
              \/ slot[s] = FreeSlot
        /\ there = "cleanup" => Claimed(p, slot) = {} /\ \E s \in Slots : new[s] = mine
  <2> DEFINE freed == Reclaimed(p, slot)
             free == {s \in Slots : freed[s] = FreeSlot}
  <2>1. \A s \in Slots : \/ freed[s] = slot[s]
                         \/ freed[s] = FreeSlot /\ slot[s].name = proc[p].name
    BY DEF Reclaimed
  <2>2. CASE Goes(p, "gone") /\ UNCHANGED registries
    BY <1>1, <1>3, <2>2 DEF Goes, MyRegistry, Registry, RegistryIInv, ShmTyped
  <2>3. CASE Claimed(p, slot) = {} /\ Goes(p, "gone")
             /\ registries' = [registries EXCEPT ![proc[p].reg].slot = freed]
    BY <1>3, <2>1, <2>3 DEF Goes
  <2>4. CASE Claimed(p, slot) = {} /\ free # {} /\ Goes(p, "cleanup")
             /\ registries' = [registries EXCEPT ![proc[p].reg].slot =
                                 [freed EXCEPT ![CHOOSE s \in free : TRUE] = mine]]
    <3>1. PICK s \in free : s = CHOOSE x \in free : TRUE
      BY <2>4
    <3> DEFINE new == [freed EXCEPT ![s] = mine]
    <3>2. new \in [Slots -> Slot] /\ new[s] = mine /\ \A x \in Slots : x # s => new[x] = freed[x]
      BY <1>3, <3>1
    <3>3. slot[s] = FreeSlot \/ slot[s].name = proc[p].name
      BY <2>1, <3>1
    <3>4. registries' = [registries EXCEPT ![proc[p].reg].slot = new]
      BY <2>4, <3>1
    <3> HIDE DEF new
    <3>5. \A x \in Slots : new[x] = slot[x] \/ new[x] = FreeSlot \/ new[x] = mine
      BY <2>1, <3>1, <3>2
    <3>6. \A x \in Slots : new[x] # slot[x] => slot[x].name = proc[p].name \/ slot[x] = FreeSlot
      BY <2>1, <3>1, <3>2, <3>3
    <3>7. proc' = [proc EXCEPT ![p].pc = "cleanup"]
      BY <2>4 DEF Goes
    <3>8. Claimed(p, slot) = {} /\ \E x \in Slots : new[x] = mine
      BY <2>4, <3>1, <3>2
    <3> HIDE DEF free, freed, slot, mine
    <3>9. new \in [Slots -> Slot]
      BY <3>2
    <3>10. "cleanup" \in {"gone", "cleanup"}
      OBVIOUS
    <3> QED
      BY <3>4, <3>5, <3>6, <3>7, <3>8, <3>9, <3>10
  <2> QED
    BY <1>2, <2>2, <2>3, <2>4 DEF jack_register_server
<1> HIDE DEF own
<1> DEFINE r == [proc[p] EXCEPT !.pc = there]
           R == [MyRegistry(p) EXCEPT !.slot = new]
<1>5. proc' = [proc EXCEPT ![p] = r] /\ r \in Process
  BY <1>1, <1>4 DEF RegistryIInv, ShmTyped, Process, Stages, Guarded
<1>6. r.pc = there /\ r.name = proc[p].name /\ r.reg = proc[p].reg /\ ~r.closing
      /\ \A i \in Indexes : r.mine[i] = 0
  BY <1>1 DEF Process
<1>7. R \in Registry /\ R.stage = MyRegistry(p).stage /\ R.slot = new /\ R.entry = MyRegistry(p).entry
  BY <1>1 DEF Registry
<1>8. registries' = [registries EXCEPT ![proc[p].reg] = R]
  BY <1>1, <1>4 DEF MyRegistry
<1> HIDE DEF r, R
<1>9. /\ Count' = Count /\ DOMAIN registries' = DOMAIN registries
      /\ registries' \in [DOMAIN registries' -> Registry]
      /\ registries'[proc[p].reg] = R
      /\ \A g \in DOMAIN registries : g # proc[p].reg => registries'[g] = registries[g]
  BY <1>1, <1>7, <1>8, RegistriesTyped DEF RegistryIInv
<1>10. \A q \in Procs : proc'[q] = IF q = p THEN r ELSE proc[q]
  BY <1>5 DEF RegistryIInv, ShmTyped
<1>11. semaphore' = semaphore + 1 /\ holder' = Nobody /\ UNCHANGED <<mishaps, current, names, objects, files>>
  BY DEF jack_register_server, Unlocked
<1>12. LockIsHeld' /\ SemaphoreReturns' /\ semaphore' \in {-1, 0, 1}
  BY <1>1, <1>4, <1>5, <1>6, <1>11, LockGiven DEF RegistryIInv, Guarded
<1>13. RegistryIsMade => RegistryIsMade'
  BY <1>1, <1>5, <1>7, <1>9, <1>11, MakingKept DEF RegistryIInv, MyRegistry
<1>14. /\ r.pc \in {"gone", "cleanup"} /\ r.pc \notin Early /\ proc[p].pc \notin Over /\ proc[p].pc \notin Registered
       /\ r.pc \notin {"off", "releasing", "claiming", "attaching", "sweeping", "files"}
       /\ r.pc = "cleanup" <=> r.pc \in Registered
       /\ r.pc = "gone" <=> r.pc \in Over
  BY <1>1, <1>6 DEF Early, Over, Registered
<1>15. \A g \in DOMAIN registries : registries'[g].entry = registries[g].entry
  BY <1>7, <1>9 DEF MyRegistry
<1>16. /\ StagesOK' /\ SweptSoFar'
       /\ Clean' => RegistryIsOne' /\ EntriesAreLaunched' /\ MappedIsNamed' /\ MappedIsApart' /\ WorkIsRight'
  BY <1>1, <1>5, <1>6, <1>9, <1>11, <1>14, <1>15, MovesButSlots
\* Every registered process has its slot in the one registry.
<1>17. \A q \in Procs : proc[q].pc \in Registered =>
          q # p /\ proc[q].reg = current /\ \E s \in Slots : slot[s] = [pid |-> q, name |-> proc[q].name]
  <2>1. \A q \in Procs : proc[q].pc \in Registered => alive(q) /\ proc[q].reg # 0
    BY DEF RegistryIInv, StagesOK, Registered, Early, Over, alive
  <2> QED
    BY <1>1, <1>14, <2>1 DEF RegistryIInv, CleanInv, SlotsAreClaimed, RegistryIsOne, MyRegistry
<1>18. there = "cleanup" => \A q \in Procs : proc[q].pc \in Registered => proc[q].name # proc[p].name
  <2>1. ASSUME there = "cleanup", NEW q \in Procs, proc[q].pc \in Registered, proc[q].name = proc[p].name
        PROVE  FALSE
    <3>1. PICK s \in Slots : slot[s] = [pid |-> q, name |-> proc[q].name]
      BY <1>17, <2>1
    <3>2. alive(q) /\ q # p
      BY <1>17, <2>1 DEF Registered, alive
    <3>3. s \in Claimed(p, slot)
      BY <2>1, <3>1, <3>2 DEF Claimed
    <3> QED
      BY <1>4, <2>1, <3>3
  <2> QED
    BY <2>1
<1>19. NamesApart'
  BY <1>6, <1>10, <1>14, <1>18 DEF NamesApart, RegistryIInv, CleanInv
<1>20. SlotsAreClaimed'
  <2>1. ASSUME NEW q \in Procs, proc'[q].pc \in Registered
        PROVE  \E s \in Slots : MyRegistry(q)'.slot[s] = [pid |-> q, name |-> proc'[q].name]
    <3>1. CASE q = p
      BY <1>4, <1>6, <1>7, <1>9, <1>10, <1>14, <2>1, <3>1 DEF MyRegistry
    <3>2. CASE q # p
      <4>1. proc[q].pc \in Registered /\ proc'[q] = proc[q]
        BY <1>10, <2>1, <3>2
      <4>2. PICK s \in Slots : slot[s] = [pid |-> q, name |-> proc[q].name]
        BY <1>17, <4>1
      <4>3. alive(q) /\ slot[s].name = proc[q].name /\ slot[s].pid = q /\ slot[s] # FreeSlot
        BY <4>1, <4>2, NobodyIsNone DEF Registered, alive, FreeSlot
      <4>4. new[s] = slot[s]
        BY <1>4, <4>3, <3>2 DEF Claimed
      <4>5. MyRegistry(q)' = R
        BY <1>1, <1>9, <1>17, <4>1 DEF MyRegistry
      <4> QED
        BY <1>7, <4>1, <4>2, <4>4, <4>5
    <3> QED
      BY <3>1, <3>2
  <2>2. ASSUME NEW s \in Slots, NEW q \in Procs, registries'[current].slot[s].pid = q
        PROVE  proc'[q].pc \in Registered \cup Over
    <3>1. new[s].pid = q
      BY <1>1, <1>7, <1>9, <2>2
    <3>2. CASE new[s] = slot[s]
      <4>1. proc[q].pc \in Registered \cup Over
        BY <1>1, <3>1, <3>2 DEF RegistryIInv, CleanInv, SlotsAreClaimed, MyRegistry
      <4> QED
        BY <1>10, <1>14, <1>1, <4>1 DEF Over
    <3>3. CASE new[s] = FreeSlot
      BY <3>1, <3>3, NobodyIsNone DEF FreeSlot
    <3>4. CASE there = "cleanup" /\ new[s] = mine
      BY <1>6, <1>10, <1>14, <3>1, <3>4
    <3> QED
      BY <1>4, <3>2, <3>3, <3>4
  <2> QED
    BY <1>11, <2>1, <2>2 DEF SlotsAreClaimed
<1>21. Clean' => CleanInv'
  BY <1>16, <1>19, <1>20 DEF CleanInv
<1>22. ShmTyped'
  BY <1>5, <1>9, <1>11, <1>12 DEF RegistryIInv, ShmTyped
<1> QED
  BY <1>11, <1>12, <1>13, <1>16, <1>21, <1>22, CanStartInTwo, RegistryIInvPrimed DEF RegistryIInv

------------------------------------------------------------------------------
(* What a registered server does.                                              *)

LEMMA RegisteredShare ==
    ASSUME RegistryIInv, Clean
    PROVE  /\ \A q \in Procs : proc[q].pc \in Registered =>
                 /\ current # 0 /\ proc[q].reg = current /\ current \in DOMAIN registries
                 /\ MyRegistry(q) = registries[current] /\ registries[current] \in Registry
                 /\ alive(q) /\ proc[q].pc # "raising" /\ proc[q].name \in ServerNames /\ semaphore # -1
           /\ \A q \in Procs, i \in Indexes : proc[q].mine[i] # 0 => proc[q].pc \in Registered
<1>1. ServingAt \subseteq Registered /\ \A c \in Closing : c \in Registered \/ c \in Over
  BY DEF ServingAt, Registered, Closing, Over
<1>2. ASSUME NEW q \in Procs, NEW i \in Indexes, proc[q].mine[i] # 0 PROVE proc[q].pc \in Registered
  BY <1>1, <1>2 DEF RegistryIInv, CleanInv, MappedIsNamed, StagesOK
<1>3. ASSUME NEW q \in Procs, proc[q].pc \in Registered
      PROVE  /\ current # 0 /\ proc[q].reg = current /\ current \in DOMAIN registries
             /\ MyRegistry(q) = registries[current] /\ registries[current] \in Registry
             /\ alive(q) /\ proc[q].pc # "raising" /\ proc[q].name \in ServerNames /\ semaphore # -1
  <2>1. alive(q) /\ proc[q].reg # 0 /\ proc[q].pc # "raising" /\ proc[q].name \in ServerNames /\ semaphore # -1
    BY <1>3 DEF RegistryIInv, StagesOK, LockIsHeld, Registered, Early, Over, alive
  <2> QED
    BY <2>1 DEF RegistryIInv, ShmTyped, CleanInv, RegistryIsOne, MyRegistry
<1> QED
  BY <1>2, <1>3

LEMMA RegisteredMoves ==
    ASSUME RegistryIInv, Clean, NEW p \in Procs, NEW r \in Process, proc' = [proc EXCEPT ![p] = r],
           NEW R \in Registry, registries' = [registries EXCEPT ![current] = R],
           R.slot = registries[current].slot,
           \A i \in Indexes : R.entry[i] = registries[current].entry[i] \/ R.entry[i] = Nobody \/ R.entry[i] = p,
           UNCHANGED <<current, mishaps>>,
           proc[p].pc \in Registered, r.pc \in Registered, r.reg = proc[p].reg, r.name = proc[p].name,
           r.closing => r.pc \in Closing,
           r.pc \in {"releasing", "claiming", "attaching"} => r.at \in Indexes,
           r.pc \in {"sweeping", "releasing", "files"} =>
               \A e \in r.due : /\ proc[e[2]].pc \in Over
                                /\ r.pc = "files" \/ e[1] < r.at => R.entry[e[1]] # e[2]
    PROVE  /\ StagesOK' /\ SweptSoFar' /\ RegistryIsOne' /\ SlotsAreClaimed' /\ NamesApart'
           /\ EntriesAreLaunched'
           /\ Count' = Count /\ registries' \in [DOMAIN registries' -> Registry]
           /\ DOMAIN registries' = DOMAIN registries
<1>1. \A q \in Procs : proc'[q] = IF q = p THEN r ELSE proc[q]
  BY DEF RegistryIInv, ShmTyped
<1>2. /\ Count' = Count /\ DOMAIN registries' = DOMAIN registries
      /\ registries' \in [DOMAIN registries' -> Registry]
      /\ registries'[current] = R
      /\ \A h \in DOMAIN registries : h # current => registries'[h] = registries[h]
      /\ current # 0
  BY RegisteredShare, RegistriesTyped DEF RegistryIInv
<1>3. /\ Registered \cap (Early \cup Over) = {} /\ Registered \subseteq Stages
      /\ {"sweeping", "releasing", "files", "claiming", "attaching"} \subseteq Registered
      /\ "off" \notin Registered
  BY DEF Registered, Early, Over, Stages, Guarded
<1>4. \A q \in Procs : proc[q].pc \in Registered =>
         proc[q].reg = current /\ MyRegistry(q) = registries[current] /\ MyRegistry(q)' = R
  BY RegisteredShare, <1>1, <1>2 DEF MyRegistry
<1>5. StagesOK'
  <2>1. proc[p].reg \in 0 .. Count /\ proc[p].name \in ServerNames /\ proc[p].reg # 0
    BY <1>2, <1>4, RegisteredShare DEF RegistryIInv, StagesOK
  <2>2. r.pc \notin Early /\ r.pc \notin Over
    BY <1>3
  <2> QED
    BY <1>1, <1>2, <2>1, <2>2 DEF StagesOK, RegistryIInv
<1>6. SweptSoFar'
  <2>1. \A q \in Procs : proc[q].pc \in Over => proc'[q] = proc[q]
    BY <1>1, <1>3
  <2>2. ASSUME NEW q \in Procs, proc'[q].pc \in {"sweeping", "releasing", "files"}, NEW e \in proc'[q].due
        PROVE  /\ proc'[e[2]].pc \in Over
               /\ proc'[q].pc = "files" \/ e[1] < proc'[q].at => MyRegistry(q)'.entry[e[1]] # e[2]
    <3>1. proc'[q] \in Process /\ e[1] \in Indexes /\ e[2] \in Procs
      <4>1. proc'[q] \in Process
        BY <1>1 DEF RegistryIInv, ShmTyped
      <4> QED
        BY <2>2, <4>1 DEF Process
    <3>2. CASE q = p
      BY <1>1, <1>4, <2>1, <2>2, <3>1, <3>2
    <3>3. CASE q # p
      <4>1. proc'[q] = proc[q] /\ proc[q].pc \in Registered
        BY <1>1, <1>3, <2>2, <3>3
      <4>2. /\ proc[e[2]].pc \in Over
            /\ proc[q].pc = "files" \/ e[1] < proc[q].at => registries[current].entry[e[1]] # e[2]
        BY <1>4, <2>2, <4>1 DEF SweptSoFar, RegistryIInv
      <4>3. e[2] # p /\ e[2] # Nobody
        BY <1>3, <3>1, <4>2, NobodyIsNone
      <4> QED
        BY <1>4, <2>1, <3>1, <4>1, <4>2, <4>3
    <3> QED
      BY <3>2, <3>3
  <2> QED
    BY <2>2 DEF SweptSoFar
<1>7. RegistryIsOne'
  BY <1>1, <1>4 DEF RegistryIsOne, RegistryIInv, CleanInv, alive
<1>8. SlotsAreClaimed'
  <2>1. ASSUME NEW q \in Procs, proc'[q].pc \in Registered
        PROVE  \E s \in Slots : MyRegistry(q)'.slot[s] = [pid |-> q, name |-> proc'[q].name]
    BY <1>1, <1>4, <2>1 DEF SlotsAreClaimed, RegistryIInv, CleanInv
  <2>2. ASSUME NEW s \in Slots, NEW q \in Procs, registries'[current].slot[s].pid = q
        PROVE  proc'[q].pc \in Registered \cup Over
    BY <1>1, <1>2, <2>2 DEF SlotsAreClaimed, RegistryIInv, CleanInv
  <2> QED
    BY <2>1, <2>2 DEF SlotsAreClaimed
<1>9. NamesApart'
  BY <1>1 DEF NamesApart, RegistryIInv, CleanInv
<1>10. EntriesAreLaunched'
  <2>1. ASSUME NEW i \in Indexes, NEW q \in Procs, registries'[current].entry[i] = q
        PROVE  proc'[q].pc # "off"
    <3>1. q = p \/ registries[current].entry[i] = q
      BY <1>2, <2>1, NobodyIsNone
    <3> QED
      BY <1>1, <1>2, <1>3, <3>1 DEF EntriesAreLaunched, RegistryIInv, CleanInv
  <2> QED
    BY <2>1 DEF EntriesAreLaunched
<1> QED
  BY <1>1, <1>2, <1>4, <1>5, <1>6, <1>7, <1>8, <1>9, <1>10

LEMMA RegisteredEnds ==
    ASSUME RegistryIInv, Clean, NEW p \in Procs, NEW r \in Process, proc' = [proc EXCEPT ![p] = r],
           proc[p].pc \in Registered, r.pc \in Registered,
           \/ UNCHANGED <<semaphore, holder>> /\ (r.pc \in Guarded <=> proc[p].pc \in Guarded)
           \/ /\ semaphore' = semaphore + 1 /\ holder' = Nobody
              /\ proc[p].pc \in Guarded /\ r.pc \notin Guarded,
           DOMAIN registries' = DOMAIN registries, registries' \in [DOMAIN registries' -> Registry],
           registries'[current].stage = registries[current].stage, Count' = Count,
           UNCHANGED <<current, mishaps>>,
           names' \in [Indexes -> 0 .. MaxObjects], objects' \in 0 .. MaxObjects,
           files' \in [ServerNames -> Procs \cup {Nobody}],
           StagesOK', SweptSoFar', CleanInv'
    PROVE  RegistryIInv'
<1>1. /\ proc[p].pc \notin {"raising", "sizing"} /\ r.pc # "raising" /\ semaphore # -1
      /\ semaphore \in {-1, 0, 1}
  BY RegisteredShare DEF Registered, RegistryIInv, ShmTyped
<1>2. LockIsHeld' /\ (SemaphoreReturns => SemaphoreReturns') /\ semaphore' \in {-1, 0, 1}
  <2>1. CASE UNCHANGED <<semaphore, holder>> /\ (r.pc \in Guarded <=> proc[p].pc \in Guarded)
    BY <1>1, <2>1, LockKept DEF RegistryIInv
  <2>2. CASE /\ semaphore' = semaphore + 1 /\ holder' = Nobody
             /\ proc[p].pc \in Guarded /\ r.pc \notin Guarded
    BY <1>1, <2>2, LockGiven DEF RegistryIInv
  <2> QED
    BY <2>1, <2>2
<1>3. RegistryIsMade => RegistryIsMade'
  BY <1>1, MakingKept DEF RegistryIInv
<1>4. holder' \in Procs \cup {Nobody}
  BY DEF RegistryIInv, ShmTyped
<1>5. ShmTyped'
  BY <1>2, <1>4 DEF RegistryIInv, ShmTyped
<1> QED
  BY <1>2, <1>3, <1>5, CanStartInTwo, RegistryIInvPrimed DEF RegistryIInv

\* The sweep of a start or of an end: done, past an entry, unlinking one, freeing it.
LEMMA CleanupShmKeeps ==
    ASSUME RegistryIInv, Clean, NEW p \in Procs, jack_cleanup_shm(p)
    PROVE  RegistryIInv'
<1> DEFINE i == proc[p].at
           R0 == registries[current]
<1>1. /\ proc[p] \in Process /\ proc[p].pc \in {"sweeping", "releasing"} /\ proc[p].pc \in Registered
      /\ proc[p].pc \in Guarded
      /\ proc[p].closing => proc[p].pc \in Closing
      /\ MyRegistry(p) = R0 /\ R0 \in Registry /\ current \in DOMAIN registries
      /\ proc[p].reg = current
  BY AtIsKnown, RegisteredShare DEF jack_cleanup_shm, At, Registered, Guarded, RegistryIInv, ShmTyped
<1>2. /\ i \in 0 .. LastIndex + 1 /\ LastIndex \in Nat
      /\ \A e \in proc[p].due : /\ e[1] \in Indexes /\ e[2] \in Procs /\ proc[e[2]].pc \in Over
                                /\ e[1] < i => R0.entry[e[1]] # e[2]
  BY <1>1, ShmAssumption DEF Process, RegistryIInv, SweptSoFar
<1>3. \A q \in Procs : q # p => proc[q].pc \notin Guarded
  BY <1>1 DEF RegistryIInv, LockIsHeld
<1>7. i = proc[p].at /\ R0 = registries[current] /\ 0 \in 0 .. MaxObjects
  BY ShmAssumption
<1>8. registries = [registries EXCEPT ![current] = R0]
  BY DEF RegistryIInv, ShmTyped
<1>9. \A q \in Procs : proc[q].pc \in Registered => MyRegistry(q) = R0
  BY RegisteredShare
<1> HIDE DEF i, R0
<1>4. CASE At(p, "sweeping") /\ i > LastIndex
  <2> DEFINE r == [proc[p] EXCEPT !.pc = "files"]
  <2>1. proc' = [proc EXCEPT ![p] = r] /\ r \in Process /\ r.pc = "files" /\ r.reg = proc[p].reg
        /\ r.name = proc[p].name /\ r.due = proc[p].due /\ r.mine = proc[p].mine /\ r.closing = proc[p].closing
    <3>1. proc' = [proc EXCEPT ![p].pc = "files"]
      BY <1>2, <1>4, <1>7 DEF jack_cleanup_shm, At, Goes
    <3> QED
      BY <1>1, <3>1 DEF Process, Stages, RegistryIInv, ShmTyped
  <2> HIDE DEF r
  <2>2. /\ semaphore' = semaphore + 1 /\ holder' = Nobody
        /\ UNCHANGED <<mishaps, registries, current, names, objects, files>>
    BY <1>2, <1>4, <1>7 DEF jack_cleanup_shm, At, Unlocked
  <2>3. /\ r.pc \in Registered /\ r.pc \notin ServingAt /\ proc[p].pc \notin ServingAt /\ r.pc \notin Guarded
        /\ r.pc \in Closing /\ r.pc \notin Over /\ r.pc \notin Early /\ proc[p].pc \notin Over
        /\ proc[p].pc # "sizing"
    BY <1>1, <2>1 DEF Registered, ServingAt, Guarded, Closing, Over, Early
  <2>4. StagesOK' /\ SweptSoFar' /\ (Clean' => CleanInv')
    <3>1. \A e \in r.due : proc[e[2]].pc \in Over /\ registries[r.reg].entry[e[1]] # e[2]
      BY <1>1, <1>2, <1>4, <1>7, <2>1 DEF Indexes
    <3>2. r.reg \in 0 .. Count /\ r.reg # 0 /\ r.name \in ServerNames
          /\ \A j \in Indexes : proc[p].mine[j] # 0 => proc[p].closing
      BY <1>1, <2>1, <2>3, AtIsKnown, RegisteredShare
    <3> QED
      BY <1>1, <2>1, <2>2, <2>3, <3>1, <3>2, ProcessMoves
  <2> QED
    BY <1>1, <2>1, <2>2, <2>3, <2>4, RegisteredEnds DEF Clean, RegistryIInv, ShmTyped, Count
<1>5. CASE At(p, "sweeping") /\ i <= LastIndex /\ ~Destroyed(p, i)
  <2> DEFINE r == [proc[p] EXCEPT !.at = i + 1]
  <2>1. proc' = [proc EXCEPT ![p] = r] /\ UNCHANGED <<mishaps, semaphore, holder, registries, current, names, objects, files>>
    BY <1>2, <1>5, <1>7 DEF jack_cleanup_shm, At, RegistryIInv, ShmTyped
  <2>2. i + 1 \in 0 .. LastIndex + 1
    BY <1>2, <1>5
  <2>3. r \in Process /\ r.pc = "sweeping" /\ r.at = i + 1 /\ r.due = proc[p].due /\ r.reg = proc[p].reg
        /\ r.name = proc[p].name /\ r.mine = proc[p].mine /\ r.closing = proc[p].closing
    BY <1>1, <1>5, <2>2 DEF Process, At
  <2> HIDE DEF r
  <2>4. ASSUME NEW e \in r.due, e[1] < r.at PROVE registries[r.reg].entry[e[1]] # e[2]
    <3>1. e[1] < i \/ e[1] = i
      BY <1>2, <2>3, <2>4 DEF Indexes
    <3>2. ~alive(e[2]) /\ e[2] # Nobody
      BY <1>2, <2>3, NobodyIsNone DEF alive, Over
    <3>3. R0.entry[i] # e[2]
      BY <1>1, <1>5, <3>2 DEF Destroyed
    <3> QED
      BY <1>1, <1>2, <1>7, <2>3, <3>1, <3>3
  <2>5. \A e \in r.due : proc[e[2]].pc \in Over /\ (e[1] < r.at => registries[r.reg].entry[e[1]] # e[2])
    BY <1>2, <2>3, <2>4
  <2>6. /\ proc[p].pc = r.pc /\ r.pc \in Registered /\ r.pc \in Guarded /\ r.pc \notin ServingAt
        /\ r.pc \in Stages \ (Early \cup Over \cup {"sizing", "releasing", "claiming", "attaching"})
        /\ \A j \in Indexes : proc[p].mine[j] # 0 => proc[p].closing
    <3>1. proc[p].pc = r.pc /\ r.pc \in Registered /\ r.pc \in Guarded /\ r.pc \notin ServingAt
          /\ r.pc \in Stages \ (Early \cup Over \cup {"sizing", "releasing", "claiming", "attaching"})
      BY <1>5, <2>3 DEF At, Registered, Guarded, ServingAt, Stages, Early, Over
    <3> QED
      BY <3>1, AtIsKnown
  <2>7. files' \in [ServerNames -> Procs \cup {Nobody}]
        /\ UNCHANGED <<semaphore, holder, registries, current, names, objects, mishaps>>
    BY <2>1 DEF RegistryIInv, ShmTyped
  <2>8. proc' = [proc EXCEPT ![p] = r]
    BY <2>1
  <2>9. r.pc \in {"sweeping", "files"} => \A e \in r.due :
           /\ proc[e[2]].pc \in Over
           /\ r.pc = "files" \/ e[1] < r.at => registries[r.reg].entry[e[1]] # e[2]
    BY <2>3, <2>5
  <2>10. \A j \in Indexes : proc[p].mine[j] # 0 => r.closing
    BY <2>3, <2>6
  <2>11. r.closing => r.pc \in Closing
    BY <1>1, <2>3, <2>6
  <2> QED
    BY <2>3, <2>6, <2>7, <2>8, <2>9, <2>10, <2>11, GoesOn
<1>6. CASE At(p, "sweeping") /\ i <= LastIndex /\ Destroyed(p, i)
  <2> DEFINE r == [proc[p] EXCEPT !.pc = "releasing"]
  <2>1. /\ proc' = [proc EXCEPT ![p].pc = "releasing"] /\ names' = [names EXCEPT ![i] = 0]
        /\ UNCHANGED <<mishaps, semaphore, holder, registries, current, objects, files>>
    BY <1>2, <1>6, <1>7 DEF jack_cleanup_shm, At, Goes
  <2>2. proc' = [proc EXCEPT ![p] = r] /\ r \in Process /\ r.pc = "releasing" /\ r.reg = proc[p].reg
        /\ r.at = i /\ r.name = proc[p].name /\ r.due = proc[p].due /\ r.mine = proc[p].mine
        /\ r.closing = proc[p].closing
    BY <1>1, <1>7, <2>1 DEF Process, Stages, Guarded, RegistryIInv, ShmTyped
  <2> HIDE DEF r
  <2>3. /\ r.pc \in Registered /\ r.pc \notin ServingAt /\ proc[p].pc \notin ServingAt /\ r.pc \in Guarded
        /\ r.pc \in Closing /\ r.pc \notin Over /\ r.pc \notin {"claiming", "attaching"}
    BY <1>6, <2>2 DEF Registered, ServingAt, Guarded, Closing, Over, At
  <2>4. i \in Indexes
    BY <1>2, <1>6 DEF Indexes
  <2>5. UNCHANGED <<current, mishaps, objects, files, semaphore, holder>>
        /\ registries' = [registries EXCEPT ![current] = R0]
    BY <1>8, <2>1
  <2>6. /\ StagesOK' /\ SweptSoFar' /\ RegistryIsOne' /\ SlotsAreClaimed' /\ NamesApart'
        /\ EntriesAreLaunched'
        /\ Count' = Count /\ registries' \in [DOMAIN registries' -> Registry]
        /\ DOMAIN registries' = DOMAIN registries
        /\ \A q \in Procs : proc'[q] = IF q = p THEN r ELSE proc[q]
        /\ \A q \in Procs : proc[q].pc \in Registered => registries'[proc'[q].reg] = R0
    <3>1. \A e \in r.due : proc[e[2]].pc \in Over /\ (e[1] < r.at => R0.entry[e[1]] # e[2])
      BY <1>2, <2>2
    <3>2. /\ R0.slot = registries[current].slot /\ UNCHANGED <<current, mishaps>>
          /\ \A k \in Indexes : R0.entry[k] = registries[current].entry[k] \/ R0.entry[k] = Nobody \/ R0.entry[k] = p
      BY <1>7, <2>5
    <3>3. R0 \in Registry /\ proc[p].pc \in Registered /\ r.at \in Indexes
      BY <1>1, <2>2, <2>4
    <3>4. r.pc \in {"sweeping", "releasing", "files"} =>
             \A e \in r.due : /\ proc[e[2]].pc \in Over
                              /\ r.pc = "files" \/ e[1] < r.at => R0.entry[e[1]] # e[2]
      BY <3>1, <2>2
    <3>5. (r.closing => r.pc \in Closing) /\ r \in Process /\ proc' = [proc EXCEPT ![p] = r] /\ r.pc \in Registered
          /\ r.reg = proc[p].reg /\ r.name = proc[p].name
          /\ (r.pc \in {"releasing", "claiming", "attaching"} => r.at \in Indexes)
          /\ registries' = [registries EXCEPT ![current] = R0]
      BY <2>2, <2>3, <2>5, <3>3
    <3>6. /\ StagesOK' /\ SweptSoFar' /\ RegistryIsOne' /\ SlotsAreClaimed' /\ NamesApart'
          /\ EntriesAreLaunched'
      BY <3>2, <3>3, <3>4, <3>5, RegisteredMoves
    <3>7. Count' = Count /\ registries' \in [DOMAIN registries' -> Registry] /\ DOMAIN registries' = DOMAIN registries
      BY <3>2, <3>3, <3>4, <3>5, RegisteredMoves
    <3>8. \A q \in Procs : proc'[q] = IF q = p THEN r ELSE proc[q]
      BY <3>5 DEF RegistryIInv, ShmTyped
    <3>9. \A q \in Procs : proc[q].pc \in Registered => registries'[proc'[q].reg] = R0
      BY <3>5, <3>8, RegisteredShare
    <3> QED
      BY <3>6, <3>7, <3>8, <3>9
  <2>7. /\ names' \in [Indexes -> 0 .. MaxObjects] /\ names'[i] = 0
        /\ \A j \in Indexes : j # i => names'[j] = names[j]
    BY <1>7, <2>1, <2>4 DEF RegistryIInv, ShmTyped
  <2>8. \A q \in Procs : R0.entry[i] = q => q = p \/ proc[q].pc \in Over
    BY <1>1, <1>6, <2>4, RegisteredShare, NobodyIsNone
       DEF Destroyed, alive, Over, RegistryIInv, CleanInv, EntriesAreLaunched
  \* What a live server has mapped is not unlinked.
  <2>9. \A q \in Procs, j \in Indexes :
           proc[q].mine[j] # 0 /\ proc[q].pc \in ServingAt => names[j] = proc[q].mine[j] /\ j # i
    BY <1>1, <2>3, <2>8, RegisteredShare DEF RegistryIInv, CleanInv, MappedIsNamed, ServingAt, Over
  <2>10. MappedIsNamed'
    <3>1. \A a, b \in Indexes : names'[a] <= objects' /\ (names'[a] = names'[b] /\ names'[a] # 0 => a = b)
      <4>1. \A a \in Indexes : names[a] <= objects /\ 0 <= objects
        BY DEF RegistryIInv, ShmTyped, CleanInv, MappedIsNamed
      <4>2. \A a, b \in Indexes : names[a] = names[b] /\ names[a] # 0 => a = b
        BY DEF RegistryIInv, CleanInv, MappedIsNamed
      <4> QED
        BY <2>4, <2>5, <2>7, <4>1, <4>2
    <3>2. ASSUME NEW q \in Procs, NEW j \in Indexes, proc'[q].mine[j] # 0
          PROVE  /\ proc'[q].pc \in ServingAt \/ (proc'[q].closing /\ proc'[q].pc \notin Over)
                 /\ proc'[q].mine[j] <= objects'
                 /\ \A k \in Indexes : names'[k] = proc'[q].mine[j] => k = j /\ MyRegistry(q)'.entry[j] = q
                 /\ proc'[q].pc \in ServingAt => names'[j] = proc'[q].mine[j]
      <4>1. proc'[q].mine = proc[q].mine /\ proc'[q].closing = proc[q].closing
            /\ (proc'[q].pc \in ServingAt <=> proc[q].pc \in ServingAt)
            /\ (proc[q].pc \notin Over => proc'[q].pc \notin Over)
        BY <2>2, <2>3, <2>6
      <4>2. proc[q].pc \in Registered /\ MyRegistry(q) = R0 /\ MyRegistry(q)' = R0
        BY <1>9, <2>6, <3>2, <4>1, RegisteredShare DEF MyRegistry
      <4>3. /\ proc[q].pc \in ServingAt \/ (proc[q].closing /\ proc[q].pc \notin Over)
            /\ proc[q].mine[j] <= objects
            /\ \A k \in Indexes : names[k] = proc[q].mine[j] => k = j /\ R0.entry[j] = q
        BY <3>2, <4>1, <4>2 DEF RegistryIInv, CleanInv, MappedIsNamed
      <4> QED
        BY <2>5, <2>7, <2>9, <3>2, <4>1, <4>2, <4>3
    <3> QED
      BY <3>1, <3>2 DEF MappedIsNamed
  <2>11. MappedIsApart'
    BY <2>2, <2>6 DEF MappedIsApart, RegistryIInv, CleanInv
  <2>12. WorkIsRight'
    <3>1. ASSUME NEW q \in Procs
          PROVE  /\ proc'[q].pc = "claiming" => names'[proc'[q].at] # 0 /\ MyRegistry(q)'.entry[proc'[q].at] = Nobody
                 /\ proc'[q].pc = "attaching" => names'[proc'[q].at] # 0 /\ MyRegistry(q)'.entry[proc'[q].at] = q
                 /\ proc'[q].pc = "releasing" =>
                      /\ names'[proc'[q].at] = 0
                      /\ \A o \in Procs : MyRegistry(q)'.entry[proc'[q].at] = o => o = q \/ proc'[o].pc \in Over
      <4>1. CASE q = p
        <5>1. \A o \in Procs : proc[o].pc \in Over => proc'[o].pc \in Over
          BY <2>6, <1>1 DEF Registered, Over
        <5> QED
          BY <1>1, <2>2, <2>6, <2>7, <2>8, <4>1, <5>1 DEF MyRegistry
      <4>2. CASE q # p
        <5>1. proc'[q] = proc[q] /\ proc[q].pc \notin {"claiming", "releasing"}
          BY <1>3, <2>6, <4>2 DEF Guarded
        <5>2. CASE proc[q].pc = "attaching"
          <6>1. proc[q].pc \in Registered /\ proc[q].pc \notin Over /\ proc[q].at \in Indexes
            BY <5>2 DEF Registered, Over, RegistryIInv, StagesOK
          <6>2. names[proc[q].at] # 0 /\ R0.entry[proc[q].at] = q /\ MyRegistry(q)' = R0
            BY <1>9, <2>6, <5>2, <6>1 DEF MyRegistry, RegistryIInv, CleanInv, WorkIsRight
          <6> QED
            BY <2>7, <2>8, <4>2, <5>1, <5>2, <6>1, <6>2
        <5> QED
          BY <5>1, <5>2
      <4> QED
        BY <4>1, <4>2
    <3> QED
      BY <3>1 DEF WorkIsRight
  <2> QED
    <3>1. objects' \in 0 .. MaxObjects /\ files' \in [ServerNames -> Procs \cup {Nobody}]
      BY <2>5 DEF RegistryIInv, ShmTyped
    <3>2. CleanInv'
      BY <2>6, <2>10, <2>11, <2>12 DEF CleanInv
    <3>3. registries'[current].stage = registries[current].stage
      BY <2>1
    <3> QED
      BY <1>1, <2>2, <2>3, <2>5, <2>6, <2>7, <3>1, <3>2, <3>3, RegisteredEnds
<1>10. CASE At(p, "releasing")
  <2> DEFINE r == [proc[p] EXCEPT !.pc = "sweeping", !.at = i + 1]
             R == [R0 EXCEPT !.entry[i] = Nobody]
  <2>1. /\ proc' = [proc EXCEPT ![p].pc = "sweeping", ![p].at = i + 1]
        /\ registries' = [registries EXCEPT ![proc[p].reg].entry[i] = Nobody]
        /\ UNCHANGED <<mishaps, semaphore, holder, current, names, objects, files>>
    BY <1>7, <1>10 DEF jack_cleanup_shm, At
  <2>2. i \in Indexes /\ i + 1 \in 0 .. LastIndex + 1 /\ names[i] = 0
        /\ \A q \in Procs : R0.entry[i] = q => q = p \/ proc[q].pc \in Over
    BY <1>1, <1>2, <1>7, <1>10 DEF RegistryIInv, StagesOK, CleanInv, WorkIsRight, Indexes, At
  <2>3. proc' = [proc EXCEPT ![p] = r] /\ r \in Process /\ r.pc = "sweeping" /\ r.reg = proc[p].reg
        /\ r.at = i + 1 /\ r.name = proc[p].name /\ r.due = proc[p].due /\ r.mine = proc[p].mine
        /\ r.closing = proc[p].closing
    <3>1. proc[p] \in Process /\ p \in DOMAIN proc
      BY <1>1 DEF RegistryIInv, ShmTyped
    <3>2. /\ r \in Process /\ r.pc = "sweeping" /\ r.reg = proc[p].reg
          /\ r.at = i + 1 /\ r.name = proc[p].name /\ r.due = proc[p].due /\ r.mine = proc[p].mine
          /\ r.closing = proc[p].closing
      BY <2>2, <3>1 DEF Process, Stages, Guarded
    <3>3. proc' = [proc EXCEPT ![p] = r]
      BY <2>1, <3>1 DEF Process
    <3> QED
      BY <3>2, <3>3
  <2>4. /\ R \in Registry /\ R.slot = R0.slot /\ R.stage = R0.stage
        /\ R.entry[i] = Nobody /\ \A j \in Indexes : j # i => R.entry[j] = R0.entry[j]
    BY <1>1, <2>2 DEF Registry
  <2>5. registries' = [registries EXCEPT ![current] = R]
    BY <1>1, <1>7, <2>1
  <2> HIDE DEF r, R
  <2>6. /\ r.pc \in Registered /\ r.pc \notin ServingAt /\ proc[p].pc \notin ServingAt /\ r.pc \in Guarded
        /\ r.pc \in Closing /\ r.pc \notin Over /\ r.pc \notin {"releasing", "claiming", "attaching"}
    BY <1>10, <2>3 DEF Registered, ServingAt, Guarded, Closing, Over, At
  <2>7. /\ StagesOK' /\ SweptSoFar' /\ RegistryIsOne' /\ SlotsAreClaimed' /\ NamesApart'
        /\ EntriesAreLaunched'
        /\ Count' = Count /\ registries' \in [DOMAIN registries' -> Registry]
        /\ DOMAIN registries' = DOMAIN registries
        /\ \A q \in Procs : proc'[q] = IF q = p THEN r ELSE proc[q]
        /\ \A q \in Procs : proc[q].pc \in Registered => registries'[proc'[q].reg] = R
    <3>1. \A e \in r.due : proc[e[2]].pc \in Over /\ (e[1] < r.at => R.entry[e[1]] # e[2])
      <4>1. ASSUME NEW e \in r.due, e[1] < r.at PROVE R.entry[e[1]] # e[2]
        <5>1. e[1] < i \/ e[1] = i
          BY <1>2, <2>3, <4>1 DEF Indexes
        <5>2. e[1] \in Indexes /\ e[2] # Nobody /\ (e[1] < i => R0.entry[e[1]] # e[2])
          BY <1>2, <2>3, NobodyIsNone
        <5> QED
          BY <2>4, <5>1, <5>2
      <4> QED
        BY <1>2, <2>3, <4>1
    <3>2. /\ R.slot = registries[current].slot /\ UNCHANGED <<current, mishaps>>
          /\ \A k \in Indexes : R.entry[k] = registries[current].entry[k] \/ R.entry[k] = Nobody \/ R.entry[k] = p
      BY <1>7, <2>1, <2>4
    <3>3. r.pc \in {"sweeping", "releasing", "files"} =>
             \A e \in r.due : /\ proc[e[2]].pc \in Over
                              /\ r.pc = "files" \/ e[1] < r.at => R.entry[e[1]] # e[2]
      BY <3>1, <2>3
    <3>4. /\ StagesOK' /\ SweptSoFar' /\ RegistryIsOne' /\ SlotsAreClaimed' /\ NamesApart'
          /\ EntriesAreLaunched'
          /\ Count' = Count /\ registries' \in [DOMAIN registries' -> Registry]
          /\ DOMAIN registries' = DOMAIN registries
      BY <1>1, <2>3, <2>4, <2>5, <2>6, <3>2, <3>3, RegisteredMoves
    <3>5. \A q \in Procs : proc'[q] = IF q = p THEN r ELSE proc[q]
      BY <2>3 DEF RegistryIInv, ShmTyped
    <3>6. \A q \in Procs : proc[q].pc \in Registered => registries'[proc'[q].reg] = R
      BY <2>3, <2>5, <3>5, RegisteredShare
    <3> QED
      BY <3>4, <3>5, <3>6
  <2>8. MappedIsNamed'
    <3>1. \A a, b \in Indexes : names'[a] <= objects' /\ (names'[a] = names'[b] /\ names'[a] # 0 => a = b)
      BY <2>1 DEF RegistryIInv, CleanInv, MappedIsNamed
    <3>2. ASSUME NEW q \in Procs, NEW j \in Indexes, proc'[q].mine[j] # 0
          PROVE  /\ proc'[q].pc \in ServingAt \/ (proc'[q].closing /\ proc'[q].pc \notin Over)
                 /\ proc'[q].mine[j] <= objects'
                 /\ \A k \in Indexes : names'[k] = proc'[q].mine[j] => k = j /\ MyRegistry(q)'.entry[j] = q
                 /\ proc'[q].pc \in ServingAt => names'[j] = proc'[q].mine[j]
      <4>1. proc'[q].mine = proc[q].mine /\ proc'[q].closing = proc[q].closing
            /\ (proc'[q].pc \in ServingAt <=> proc[q].pc \in ServingAt)
            /\ (proc[q].pc \notin Over => proc'[q].pc \notin Over)
            /\ objects' = objects /\ names' = names
        BY <2>1, <2>3, <2>6, <2>7
      <4>2. proc[q].pc \in Registered /\ MyRegistry(q) = R0 /\ MyRegistry(q)' = R
        BY <1>9, <2>7, <3>2, <4>1, RegisteredShare DEF MyRegistry
      <4>3. /\ proc[q].pc \in ServingAt \/ (proc[q].closing /\ proc[q].pc \notin Over)
            /\ proc[q].mine[j] <= objects
            /\ \A k \in Indexes : names[k] = proc[q].mine[j] => k = j /\ R0.entry[j] = q
            /\ proc[q].pc \in ServingAt => names[j] = proc[q].mine[j]
        BY <3>2, <4>1, <4>2 DEF RegistryIInv, CleanInv, MappedIsNamed
      <4>4. \A k \in Indexes : names[k] = proc[q].mine[j] => k = j /\ R.entry[j] = q
        BY <2>2, <2>4, <3>2, <4>1, <4>3
      <4> QED
        BY <4>1, <4>2, <4>3, <4>4
    <3> QED
      BY <3>1, <3>2 DEF MappedIsNamed
  <2>9. MappedIsApart'
    BY <2>3, <2>7 DEF MappedIsApart, RegistryIInv, CleanInv
  <2>10. WorkIsRight'
    <3>1. ASSUME NEW q \in Procs
          PROVE  /\ proc'[q].pc \notin {"claiming", "releasing"}
                 /\ proc'[q].pc = "attaching" => names'[proc'[q].at] # 0 /\ MyRegistry(q)'.entry[proc'[q].at] = q
      <4>1. proc'[q].pc \notin {"claiming", "releasing"}
        BY <1>3, <2>6, <2>7 DEF Guarded
      <4>2. CASE proc'[q].pc = "attaching"
        <5>1. q # p /\ proc'[q] = proc[q] /\ proc[q].pc = "attaching"
          BY <2>6, <2>7, <4>2
        <5>2. proc[q].pc \in Registered /\ proc[q].pc \notin Over /\ proc[q].at \in Indexes
          BY <5>1 DEF Registered, Over, RegistryIInv, StagesOK
        <5>3. names[proc[q].at] # 0 /\ R0.entry[proc[q].at] = q /\ MyRegistry(q)' = R
          BY <1>9, <2>7, <5>1, <5>2 DEF MyRegistry, RegistryIInv, CleanInv, WorkIsRight
        <5> QED
          BY <2>1, <2>2, <2>4, <4>1, <5>1, <5>2, <5>3
      <4> QED
        BY <4>1, <4>2
    <3> QED
      BY <3>1 DEF WorkIsRight
  <2> QED
    <3>1. /\ objects' \in 0 .. MaxObjects /\ files' \in [ServerNames -> Procs \cup {Nobody}]
          /\ names' \in [Indexes -> 0 .. MaxObjects]
      BY <2>1 DEF RegistryIInv, ShmTyped
    <3>2. CleanInv'
      BY <2>7, <2>8, <2>9, <2>10 DEF CleanInv
    <3>3. registries'[current].stage = registries[current].stage
      BY <1>1, <1>7, <2>4, <2>5
    <3> QED
      BY <1>1, <2>1, <2>3, <2>6, <2>7, <3>1, <3>2, <3>3, RegisteredEnds
<1> QED
  <2>1. At(p, "sweeping") \/ At(p, "releasing")
    BY DEF jack_cleanup_shm
  <2>2. i > LastIndex \/ i <= LastIndex
    BY <1>2
  <2> QED
    BY <1>4, <1>5, <1>6, <1>10, <2>1, <2>2

\* The names after a step; what the others mapped, what p maps, what the others are
\* about to do to an entry, and what p is, when R is the registry after it.
NamesStayApart ==
    \A a, b \in Indexes : names'[a] <= objects' /\ (names'[a] = names'[b] /\ names'[a] # 0 => a = b)
OthersStayMapped(p, R) ==
    \A q \in Procs, j \in Indexes : q # p /\ proc[q].mine[j] # 0 =>
        /\ \A k \in Indexes : names'[k] = proc[q].mine[j] => k = j /\ R.entry[j] = q
        /\ proc[q].pc \in ServingAt => names'[j] = proc[q].mine[j]
MapsItsOwn(p, r, R) ==
    \A j \in Indexes : r.mine[j] # 0 =>
        /\ r.pc \in ServingAt \/ (r.closing /\ r.pc \notin Over)
        /\ r.mine[j] <= objects'
        /\ \A k \in Indexes : names'[k] = r.mine[j] => k = j /\ R.entry[j] = p
        /\ r.pc \in ServingAt => names'[j] = r.mine[j]
        /\ \A q \in Procs, k \in Indexes : q # p => proc[q].mine[k] # r.mine[j]
OthersWorkRight(p, R) ==
    \A q \in Procs : q # p =>
        /\ proc[q].pc = "claiming" => names'[proc[q].at] # 0 /\ R.entry[proc[q].at] = Nobody
        /\ proc[q].pc = "attaching" => names'[proc[q].at] # 0 /\ R.entry[proc[q].at] = q
        /\ proc[q].pc = "releasing" =>
              /\ names'[proc[q].at] = 0
              /\ \A o \in Procs : R.entry[proc[q].at] = o => o = q \/ proc[o].pc \in Over
WorksRight(p, r, R) ==
    /\ r.pc = "claiming" => names'[r.at] # 0 /\ R.entry[r.at] = Nobody
    /\ r.pc = "attaching" => names'[r.at] # 0 /\ R.entry[r.at] = p
    /\ r.pc # "releasing"

LEMMA WorkMoves ==
    ASSUME RegistryIInv, Clean, NEW p \in Procs, NEW r \in Process, NEW R \in Registry,
           proc' = [proc EXCEPT ![p] = r], registries' = [registries EXCEPT ![current] = R],
           proc[p].pc \in Registered, r.pc \in Registered, r.reg = proc[p].reg,
           UNCHANGED current, objects' \in Int, objects <= objects',
           NamesStayApart, OthersStayMapped(p, R), MapsItsOwn(p, r, R), OthersWorkRight(p, R),
           WorksRight(p, r, R)
    PROVE  MappedIsNamed' /\ MappedIsApart' /\ WorkIsRight'
<1>1. \A q \in Procs : proc'[q] = IF q = p THEN r ELSE proc[q]
  BY DEF RegistryIInv, ShmTyped
<1>2. \A q \in Procs : proc[q].pc \in Registered => registries'[proc'[q].reg] = R
  BY <1>1, RegisteredShare
<1>3. \A q \in Procs : proc'[q].pc \in Registered => proc[q].pc \in Registered /\ registries'[proc'[q].reg] = R
  BY <1>1, <1>2
<1>4. Registered \cap Over = {} /\ {"claiming", "attaching", "releasing"} \subseteq Registered
  BY DEF Registered, Over
<1> USE DEF NamesStayApart, OthersStayMapped, MapsItsOwn, OthersWorkRight, WorksRight
<1>5. MappedIsNamed'
  <2>1. ASSUME NEW q \in Procs, NEW j \in Indexes, proc'[q].mine[j] # 0
        PROVE  /\ proc'[q].pc \in ServingAt \/ (proc'[q].closing /\ proc'[q].pc \notin Over)
               /\ proc'[q].mine[j] <= objects'
               /\ \A k \in Indexes : names'[k] = proc'[q].mine[j] => k = j /\ MyRegistry(q)'.entry[j] = q
               /\ proc'[q].pc \in ServingAt => names'[j] = proc'[q].mine[j]
    <3>1. CASE q = p
      BY <1>1, <1>2, <2>1, <3>1 DEF MyRegistry
    <3>2. CASE q # p
      <4>1. proc'[q] = proc[q] /\ registries'[proc'[q].reg] = R
        BY <1>1, <1>2, <2>1, <3>2, RegisteredShare
      <4>2. /\ proc[q].pc \in ServingAt \/ (proc[q].closing /\ proc[q].pc \notin Over)
            /\ proc[q].mine[j] <= objects
        BY <2>1, <4>1 DEF RegistryIInv, CleanInv, MappedIsNamed
      <4>3. proc[q].mine[j] <= objects'
        <5>1. proc[q].mine[j] \in Int /\ objects \in Int
          BY DEF RegistryIInv, ShmTyped, Process
        <5> QED
          BY <4>2, <5>1
      <4> QED
        BY <2>1, <3>2, <4>1, <4>2, <4>3 DEF MyRegistry
    <3> QED
      BY <3>1, <3>2
  <2> QED
    BY <2>1 DEF MappedIsNamed
<1>6. MappedIsApart'
  BY <1>1 DEF MappedIsApart, RegistryIInv, CleanInv
<1>7. WorkIsRight'
  <2>1. ASSUME NEW q \in Procs
        PROVE  /\ proc'[q].pc = "claiming" => names'[proc'[q].at] # 0 /\ MyRegistry(q)'.entry[proc'[q].at] = Nobody
               /\ proc'[q].pc = "attaching" => names'[proc'[q].at] # 0 /\ MyRegistry(q)'.entry[proc'[q].at] = q
               /\ proc'[q].pc = "releasing" =>
                    /\ names'[proc'[q].at] = 0
                    /\ \A o \in Procs : MyRegistry(q)'.entry[proc'[q].at] = o => o = q \/ proc'[o].pc \in Over
    <3>1. \A o \in Procs : proc[o].pc \in Over => proc'[o].pc \in Over
      BY <1>1, <1>4
    <3>2. CASE q = p
      BY <1>1, <1>3, <1>4, <3>2 DEF MyRegistry
    <3>3. CASE q # p
      BY <1>1, <1>3, <1>4, <3>1, <3>3 DEF MyRegistry
    <3> QED
      BY <3>2, <3>3
  <2> QED
    BY <2>1 DEF WorkIsRight
<1> QED
  BY <1>5, <1>6, <1>7

\* Steps of a registered server that only move it on.
LEMMA ServerGoesOn ==
    ASSUME RegistryIInv, Clean, NEW p \in Procs,
           jack_cleanup_files(p) \/ EngineCreated(p) \/ WantsSegment(p) \/ jackctl_server_stop(p)
    PROVE  RegistryIInv'
<1>1. proc[p] \in Process /\ proc[p].pc \in {"files", "creating", "running"} /\ proc[p].pc \in Registered
      /\ (proc[p].closing => proc[p].pc \in Closing) /\ proc[p].name \in ServerNames
      /\ \A j \in Indexes : proc[p].mine[j] # 0 => proc[p].pc \in ServingAt \/ proc[p].closing
  BY AtIsKnown, RegisteredShare
     DEF jack_cleanup_files, EngineCreated, WantsSegment, jackctl_server_stop, At, Registered
<1>2. PICK there \in {"unregister", "creating", "running", "malloc", "cleanup"}, closing \in BOOLEAN :
        /\ proc' = [proc EXCEPT ![p].pc = there, ![p].closing = closing]
        /\ \/ proc[p].pc = "files" /\ (closing <=> proc[p].closing) /\ proc[p].closing /\ there = "unregister"
           \/ proc[p].pc = "files" /\ (closing <=> proc[p].closing) /\ ~proc[p].closing /\ there = "creating"
           \/ proc[p].pc = "creating" /\ (closing <=> proc[p].closing) /\ there = "running"
           \/ proc[p].pc = "running" /\ (closing <=> proc[p].closing) /\ there = "malloc"
           \/ proc[p].pc = "running" /\ closing /\ there = "cleanup"
  <2>1. proc[p].closing \in BOOLEAN /\ \A c : proc' = [proc EXCEPT ![p].pc = c] =>
           proc' = [proc EXCEPT ![p].pc = c, ![p].closing = proc[p].closing]
    BY <1>1 DEF Process, RegistryIInv, ShmTyped
  <2>2. CASE jack_cleanup_files(p)
    BY <2>1, <2>2 DEF jack_cleanup_files, At, Goes
  <2>3. CASE EngineCreated(p)
    BY <2>1, <2>3 DEF EngineCreated, At, Goes
  <2>4. CASE WantsSegment(p)
    BY <2>1, <2>4 DEF WantsSegment, At, Goes
  <2>5. CASE jackctl_server_stop(p)
    BY <2>5 DEF jackctl_server_stop, At
  <2> QED
    BY <2>2, <2>3, <2>4, <2>5
<1> DEFINE r == [proc[p] EXCEPT !.pc = there, !.closing = closing]
<1>3. proc' = [proc EXCEPT ![p] = r] /\ r \in Process /\ r.pc = there /\ (r.closing <=> closing)
      /\ r.reg = proc[p].reg /\ r.name = proc[p].name /\ r.mine = proc[p].mine
  <2>1. there \in Stages
    BY DEF Stages
  <2> QED
    BY <1>1, <1>2, <2>1 DEF Process, RegistryIInv, ShmTyped
<1> HIDE DEF r
<1>4. /\ UNCHANGED <<semaphore, holder, registries, current, names, objects, mishaps>>
      /\ files' \in [ServerNames -> Procs \cup {Nobody}]
  BY <1>1 DEF jack_cleanup_files, EngineCreated, WantsSegment, jackctl_server_stop, RegistryIInv, ShmTyped
<1>5. /\ r.pc \in Registered
      /\ r.pc \in Stages \ (Early \cup Over \cup {"releasing", "claiming", "attaching"})
      /\ proc[p].pc \in Stages \ (Early \cup Over \cup {"sizing"})
      /\ r.pc \notin Guarded /\ proc[p].pc \notin Guarded /\ r.pc \notin {"sweeping", "files"}
  <2>1. r.pc \in {"unregister", "creating", "running", "malloc", "cleanup"}
    BY <1>3
  <2> QED
    BY <1>1, <2>1 DEF Registered, Stages, Early, Over, Guarded
<1>6. \/ proc[p].pc = "files" /\ r.closing /\ proc[p].closing /\ r.pc = "unregister"
      \/ proc[p].pc = "files" /\ ~r.closing /\ ~proc[p].closing /\ r.pc = "creating"
      \/ proc[p].pc = "creating" /\ ~r.closing /\ ~proc[p].closing /\ r.pc = "running"
      \/ proc[p].pc = "running" /\ ~r.closing /\ r.pc = "malloc"
      \/ proc[p].pc = "running" /\ r.closing /\ r.pc = "cleanup"
  BY <1>1, <1>2, <1>3 DEF Closing
<1>7. /\ (r.closing => r.pc \in Closing)
      /\ \A j \in Indexes : proc[p].mine[j] # 0 =>
            /\ r.pc \in ServingAt \/ r.closing
            /\ r.pc \in ServingAt => proc[p].pc \in ServingAt
  <2>1. /\ "files" \notin ServingAt /\ "creating" \notin ServingAt /\ {"running", "malloc"} \subseteq ServingAt
        /\ {"unregister", "cleanup"} \subseteq Closing /\ "unregister" \notin ServingAt /\ "cleanup" \notin ServingAt
    BY DEF ServingAt, Closing
  <2> QED
    BY <1>1, <1>6, <2>1
<1> QED
  BY <1>1, <1>3, <1>4, <1>5, <1>7, GoesOn

\* A segment: no entry is left; the first free one is opened; it is written.
LEMMA ShmallocKeeps ==
    ASSUME RegistryIInv, Clean, NEW p \in Procs, jack_shmalloc(p)
    PROVE  RegistryIInv'
<1>1. /\ proc[p] \in Process /\ proc[p].pc \in {"opening", "claiming"} /\ proc[p].pc \in Registered
      /\ proc[p].pc \in Guarded /\ proc[p].pc \in ServingAt /\ proc[p].pc \notin Over /\ ~proc[p].closing
      /\ current # 0 /\ proc[p].reg = current /\ current \in DOMAIN registries
      /\ registries[current] \in Registry /\ MyRegistry(p) = registries[current]
      /\ proc[p].reg \in 0 .. Count /\ proc[p].name \in ServerNames
  BY AtIsKnown, RegisteredShare DEF jack_shmalloc, At, Registered, Guarded, ServingAt, Closing, Over
<1>2. \A q \in Procs : q # p => proc[q].pc \notin Guarded
  BY <1>1 DEF RegistryIInv, LockIsHeld
<1>3. CASE proc' = [proc EXCEPT ![p].pc = "cleanup", ![p].closing = TRUE] /\ Unlocked
           /\ UNCHANGED <<mishaps, registries, current, names, objects, files>>
  <2> DEFINE r == [proc[p] EXCEPT !.pc = "cleanup", !.closing = TRUE]
  <2>1. proc' = [proc EXCEPT ![p] = r] /\ r \in Process /\ r.pc = "cleanup" /\ r.closing
        /\ r.reg = proc[p].reg /\ r.name = proc[p].name /\ r.mine = proc[p].mine
    BY <1>1, <1>3 DEF Process, Stages, RegistryIInv, ShmTyped
  <2> HIDE DEF r
  <2>2. /\ r.pc \in Registered /\ r.pc \in Closing /\ r.pc \notin Guarded /\ r.pc \notin Early
        /\ r.pc \notin Over /\ r.pc \notin ServingAt
    BY <2>1 DEF Registered, Closing, Guarded, Early, Over, ServingAt
  <2>3. semaphore' = semaphore + 1 /\ holder' = Nobody
        /\ UNCHANGED <<mishaps, registries, current, names, objects, files>>
    BY <1>3 DEF Unlocked
  <2>4. StagesOK' /\ SweptSoFar' /\ (Clean' => CleanInv')
    BY <1>1, <2>1, <2>2, <2>3, ProcessMoves
  <2> QED
    BY <1>1, <2>1, <2>2, <2>3, <2>4, RegisteredEnds DEF Clean, RegistryIInv, ShmTyped, Count
<1>4. ASSUME NEW i \in jack_get_free_shm_info(p),
             names[i] = 0 => objects < MaxObjects,
             names' = IF names[i] = 0 THEN [names EXCEPT ![i] = objects + 1] ELSE names,
             objects' = IF names[i] = 0 THEN objects + 1 ELSE objects,
             proc' = [proc EXCEPT ![p].pc = "claiming", ![p].at = i],
             UNCHANGED <<mishaps, semaphore, holder, registries, current, files>>
      PROVE  RegistryIInv'
  <2> DEFINE r == [proc[p] EXCEPT !.pc = "claiming", !.at = i]
             R == registries[current]
  <2>1. i \in Indexes /\ i \in 0 .. LastIndex + 1 /\ R.entry[i] = Nobody /\ R \in Registry
    BY <1>1, <1>4, ShmAssumption DEF jack_get_free_shm_info, FreeIndexes, Indexes
  <2>2. proc' = [proc EXCEPT ![p] = r] /\ r \in Process /\ r.pc = "claiming" /\ r.at = i
        /\ r.reg = proc[p].reg /\ r.name = proc[p].name /\ r.mine = proc[p].mine /\ ~r.closing
    BY <1>1, <1>4, <2>1 DEF Process, Stages, Guarded, RegistryIInv, ShmTyped
  <2>3. registries' = [registries EXCEPT ![current] = R]
    BY <1>4 DEF RegistryIInv, ShmTyped
  <2> HIDE DEF r
  <2>4. /\ r.pc \in Registered /\ r.pc \in Guarded /\ r.pc \in ServingAt
    BY <2>2 DEF Registered, Guarded, ServingAt
  <2>5. /\ StagesOK' /\ SweptSoFar' /\ RegistryIsOne' /\ SlotsAreClaimed' /\ NamesApart'
        /\ EntriesAreLaunched'
        /\ Count' = Count /\ registries' \in [DOMAIN registries' -> Registry]
        /\ DOMAIN registries' = DOMAIN registries
    BY <1>1, <1>4, <2>1, <2>2, <2>3, <2>4, RegisteredMoves
  <2>6. /\ names \in [Indexes -> 0 .. MaxObjects] /\ objects \in 0 .. MaxObjects /\ MaxObjects \in Nat
        /\ \A a, b \in Indexes : names[a] <= objects /\ (names[a] = names[b] /\ names[a] # 0 => a = b)
        /\ \A q \in Procs, j \in Indexes : proc[q].mine[j] # 0 =>
              /\ proc[q].mine[j] \in Nat /\ proc[q].mine[j] <= objects
              /\ \A k \in Indexes : names[k] = proc[q].mine[j] => k = j /\ R.entry[j] = q
              /\ proc[q].pc \in ServingAt => names[j] = proc[q].mine[j]
    <3>1. /\ names \in [Indexes -> 0 .. MaxObjects] /\ objects \in 0 .. MaxObjects /\ MaxObjects \in Nat
          /\ \A a, b \in Indexes : names[a] <= objects /\ (names[a] = names[b] /\ names[a] # 0 => a = b)
      BY ShmAssumption DEF RegistryIInv, ShmTyped, CleanInv, MappedIsNamed
    <3>2. \A q \in Procs, j \in Indexes : proc[q].mine[j] \in Nat
      BY <3>1 DEF RegistryIInv, ShmTyped, Process
    <3>3. \A q \in Procs, j \in Indexes : proc[q].mine[j] # 0 =>
              /\ proc[q].mine[j] <= objects /\ MyRegistry(q) = R
              /\ \A k \in Indexes : names[k] = proc[q].mine[j] => k = j /\ MyRegistry(q).entry[j] = q
              /\ proc[q].pc \in ServingAt => names[j] = proc[q].mine[j]
      BY RegisteredShare DEF RegistryIInv, CleanInv, MappedIsNamed
    <3> QED
      BY <3>1, <3>2, <3>3
  <2>7. /\ objects' \in 0 .. MaxObjects /\ objects <= objects' /\ objects' \in Int
        /\ names' \in [Indexes -> 0 .. MaxObjects] /\ names'[i] # 0 /\ names'[i] \in Nat
        /\ \A k \in Indexes : names'[k] = names[k] \/ (k = i /\ names[i] = 0 /\ names'[k] = objects + 1
                                                       /\ objects' = objects + 1)
    BY <1>4, <2>1, <2>6
  <2>8. \A a, b \in Indexes : names'[a] <= objects' /\ (names'[a] = names'[b] /\ names'[a] # 0 => a = b)
    <3>1. \A a \in Indexes : names[a] \in Nat /\ objects \in Nat
      BY <2>6
    <3> QED
      BY <2>6, <2>7, <3>1
  <2>9. \A q \in Procs, j \in Indexes : proc[q].mine[j] # 0 =>
               /\ \A k \in Indexes : names'[k] = proc[q].mine[j] => k = j /\ R.entry[j] = q
               /\ proc[q].pc \in ServingAt => names'[j] = proc[q].mine[j]
               /\ proc[q].mine[j] <= objects'
    <3>1. objects \in Nat /\ objects' \in Nat
      BY <2>6, <2>7
    <3> QED
      BY <2>6, <2>7, <3>1
  <2>10. \A q \in Procs, j, k \in Indexes : q # p /\ proc[p].mine[j] # 0 => proc[q].mine[k] # proc[p].mine[j]
    BY DEF RegistryIInv, CleanInv, MappedIsApart
  <2>11. \A q \in Procs : q # p =>
            /\ proc[q].pc \notin {"claiming", "releasing"}
            /\ proc[q].pc = "attaching" => names'[proc[q].at] # 0 /\ R.entry[proc[q].at] = q
    <3>1. ASSUME NEW q \in Procs, proc[q].pc = "attaching"
          PROVE  names'[proc[q].at] # 0 /\ R.entry[proc[q].at] = q
      <4>1. proc[q].at \in Indexes /\ names[proc[q].at] # 0 /\ R.entry[proc[q].at] = q
        BY <3>1, RegisteredShare DEF Registered, RegistryIInv, StagesOK, CleanInv, WorkIsRight
      <4> QED
        BY <2>7, <4>1
    <3> QED
      BY <1>2, <3>1 DEF Guarded
  <2>12. MappedIsNamed' /\ MappedIsApart' /\ WorkIsRight'
    <3>1. NamesStayApart
      BY <2>8 DEF NamesStayApart
    <3>2. OthersStayMapped(p, R)
      BY <2>9 DEF OthersStayMapped
    <3>3. MapsItsOwn(p, r, R)
      BY <1>1, <2>2, <2>4, <2>9, <2>10 DEF MapsItsOwn
    <3>4. OthersWorkRight(p, R)
      BY <2>11 DEF OthersWorkRight
    <3>5. WorksRight(p, r, R)
      BY <2>1, <2>2, <2>7 DEF WorksRight
    <3>6. UNCHANGED current
      BY <1>4
    <3> HIDE DEF R
    <3> QED
      BY <1>1, <2>1, <2>2, <2>3, <2>4, <2>7, <3>1, <3>2, <3>3, <3>4, <3>5, <3>6, WorkMoves
  <2> QED
    <3>1. CleanInv'
      BY <2>5, <2>12 DEF CleanInv
    <3>2. files' \in [ServerNames -> Procs \cup {Nobody}] /\ registries'[current].stage = registries[current].stage
      BY <1>4 DEF RegistryIInv, ShmTyped
    <3> QED
      BY <1>1, <1>4, <2>2, <2>4, <2>5, <2>7, <3>1, <3>2, RegisteredEnds
<1>5. CASE At(p, "claiming") /\ Goes(p, "attaching") /\ Unlocked
           /\ registries' = [registries EXCEPT ![proc[p].reg].entry[proc[p].at] = p]
           /\ UNCHANGED <<mishaps, current, names, objects, files>>
  <2> DEFINE i == proc[p].at
             r == [proc[p] EXCEPT !.pc = "attaching"]
             R0 == registries[current]
             R == [R0 EXCEPT !.entry[i] = p]
  <2>1. i \in Indexes /\ names[i] # 0 /\ R0.entry[i] = Nobody /\ R0 \in Registry
    BY <1>1, <1>5 DEF At, RegistryIInv, StagesOK, CleanInv, WorkIsRight
  <2>2. proc' = [proc EXCEPT ![p] = r] /\ r \in Process /\ r.pc = "attaching" /\ r.at = i
        /\ r.reg = proc[p].reg /\ r.name = proc[p].name /\ r.mine = proc[p].mine /\ ~r.closing
    BY <1>1, <1>5 DEF Goes, Process, Stages, Guarded, RegistryIInv, ShmTyped
  <2>3. /\ R \in Registry /\ R.slot = R0.slot /\ R.stage = R0.stage
        /\ R.entry[i] = p /\ \A j \in Indexes : j # i => R.entry[j] = R0.entry[j]
    BY <2>1 DEF Registry
  <2>4. registries' = [registries EXCEPT ![current] = R]
    BY <1>1, <1>5
  <2>5. i = proc[p].at /\ R0 = registries[current]
    OBVIOUS
  <2> HIDE DEF i, r, R, R0
  <2>6. /\ r.pc \in Registered /\ r.pc \notin Guarded /\ r.pc \in ServingAt
    BY <2>2 DEF Registered, Guarded, ServingAt
  <2>7. /\ StagesOK' /\ SweptSoFar' /\ RegistryIsOne' /\ SlotsAreClaimed' /\ NamesApart'
        /\ EntriesAreLaunched'
        /\ Count' = Count /\ registries' \in [DOMAIN registries' -> Registry]
        /\ DOMAIN registries' = DOMAIN registries
    <3>1. /\ R.slot = registries[current].slot /\ UNCHANGED <<current, mishaps>>
          /\ \A k \in Indexes : R.entry[k] = registries[current].entry[k] \/ R.entry[k] = Nobody \/ R.entry[k] = p
      BY <1>5, <2>3, <2>5
    <3>2. r.at \in Indexes /\ r.pc \notin {"sweeping", "releasing", "files"} /\ R \in Registry
          /\ r \in Process /\ proc[p].pc \in Registered /\ ~r.closing
      BY <1>1, <2>1, <2>2, <2>3
    <3> QED
      BY <2>2, <2>4, <2>6, <3>1, <3>2, RegisteredMoves
  <2>8. \A q \in Procs, j \in Indexes : proc[q].mine[j] # 0 =>
              /\ MyRegistry(q) = R0 /\ proc[q].mine[j] <= objects
              /\ \A k \in Indexes : names[k] = proc[q].mine[j] => k = j /\ R0.entry[j] = q /\ j # i
              /\ proc[q].pc \in ServingAt => names[j] = proc[q].mine[j]
    BY <2>1, <2>5, RegisteredShare, NobodyIsNone DEF RegistryIInv, CleanInv, MappedIsNamed
  <2>9. \A q \in Procs, j \in Indexes : proc[q].mine[j] # 0 =>
               /\ \A k \in Indexes : names[k] = proc[q].mine[j] => k = j /\ R.entry[j] = q
               /\ proc[q].pc \in ServingAt => names[j] = proc[q].mine[j]
    BY <2>3, <2>8
  <2>10. MappedIsNamed' /\ MappedIsApart' /\ WorkIsRight'
    <3>1. names' = names /\ objects' = objects /\ UNCHANGED current /\ objects' \in Int /\ objects <= objects'
      BY <1>5 DEF RegistryIInv, ShmTyped
    <3>2. NamesStayApart
      BY <3>1 DEF NamesStayApart, RegistryIInv, CleanInv, MappedIsNamed
    <3>3. OthersStayMapped(p, R)
      BY <2>9, <3>1 DEF OthersStayMapped
    <3>4. MapsItsOwn(p, r, R)
      <4>1. \A q \in Procs, j, k \in Indexes : q # p /\ proc[p].mine[j] # 0 => proc[q].mine[k] # proc[p].mine[j]
        BY DEF RegistryIInv, CleanInv, MappedIsApart
      <4> QED
        <5>1. \A j \in Indexes : proc[p].mine[j] # 0 =>
                 /\ proc[p].mine[j] <= objects'
                 /\ \A k \in Indexes : names'[k] = proc[p].mine[j] => k = j /\ R.entry[j] = p
                 /\ names'[j] = proc[p].mine[j]
          BY <1>1, <2>8, <2>9, <3>1
        <5> QED
          BY <2>2, <2>6, <4>1, <5>1 DEF MapsItsOwn
    <3>5. OthersWorkRight(p, R)
      <4>1. ASSUME NEW q \in Procs, q # p, proc[q].pc = "attaching"
            PROVE  names'[proc[q].at] # 0 /\ R.entry[proc[q].at] = q
        <5>1. proc[q].at \in Indexes /\ names[proc[q].at] # 0 /\ R0.entry[proc[q].at] = q
          BY <2>5, <4>1, RegisteredShare DEF Registered, RegistryIInv, StagesOK, CleanInv, WorkIsRight
        <5> QED
          BY <2>1, <2>3, <3>1, <5>1, NobodyIsNone
      <4>2. \A q \in Procs : q # p => proc[q].pc \notin {"claiming", "releasing"}
        BY <1>2 DEF Guarded
      <4> QED
        BY <4>1, <4>2 DEF OthersWorkRight
    <3>6. WorksRight(p, r, R)
      BY <2>1, <2>2, <2>3, <3>1 DEF WorksRight
    <3> QED
      BY <1>1, <2>2, <2>3, <2>4, <2>6, <3>1, <3>2, <3>3, <3>4, <3>5, <3>6, WorkMoves
  <2> QED
    <3>1. CleanInv'
      BY <2>7, <2>10 DEF CleanInv
    <3>2. /\ files' \in [ServerNames -> Procs \cup {Nobody}] /\ objects' \in 0 .. MaxObjects
          /\ names' \in [Indexes -> 0 .. MaxObjects] /\ UNCHANGED <<current, mishaps>>
          /\ semaphore' = semaphore + 1 /\ holder' = Nobody
      BY <1>5 DEF Unlocked, RegistryIInv, ShmTyped
    <3>3. registries'[current].stage = registries[current].stage
      BY <1>1, <2>3, <2>4, <2>5
    <3> QED
      BY <1>1, <2>2, <2>6, <2>7, <3>1, <3>2, <3>3, RegisteredEnds
<1> QED
  BY <1>3, <1>4, <1>5 DEF jack_shmalloc

\* The entry just written is attached by its name: nobody unlinked it in between.
LEMMA AttachKeeps ==
    ASSUME RegistryIInv, Clean, NEW p \in Procs, jack_attach_shm(p)
    PROVE  RegistryIInv'
<1> DEFINE i == proc[p].at
           r == [proc[p] EXCEPT !.pc = "running", !.mine[i] = names[i]]
           R == registries[current]
<1>1. /\ proc[p] \in Process /\ proc[p].pc = "attaching" /\ proc[p].pc \in Registered
      /\ proc[p].pc \notin Guarded /\ proc[p].pc \in ServingAt /\ ~proc[p].closing
      /\ current # 0 /\ proc[p].reg = current /\ current \in DOMAIN registries
      /\ R \in Registry /\ MyRegistry(p) = R /\ i \in Indexes
      /\ names[i] # 0 /\ R.entry[i] = p
  BY AtIsKnown, RegisteredShare
     DEF jack_attach_shm, At, Registered, Guarded, ServingAt, Closing, RegistryIInv, StagesOK, CleanInv, WorkIsRight
<1>2. /\ proc' = [proc EXCEPT ![p].pc = "running", ![p].mine[i] = names[i]]
      /\ UNCHANGED <<mishaps, semaphore, holder, registries, current, names, objects, files>>
  BY <1>1 DEF jack_attach_shm
<1>3. proc' = [proc EXCEPT ![p] = r] /\ r \in Process /\ r.pc = "running" /\ r.reg = proc[p].reg
      /\ r.name = proc[p].name /\ ~r.closing /\ r.mine[i] = names[i]
      /\ \A j \in Indexes : j # i => r.mine[j] = proc[p].mine[j]
  BY <1>1, <1>2 DEF Process, Stages, RegistryIInv, ShmTyped
<1>4. registries' = [registries EXCEPT ![current] = R]
  BY <1>2 DEF RegistryIInv, ShmTyped
<1>5. R = registries[current]
  OBVIOUS
<1> HIDE DEF i, r, R
<1>6. /\ r.pc \in Registered /\ r.pc \notin Guarded /\ r.pc \in ServingAt
  BY <1>3 DEF Registered, Guarded, ServingAt
<1>7. /\ StagesOK' /\ SweptSoFar' /\ RegistryIsOne' /\ SlotsAreClaimed' /\ NamesApart'
      /\ EntriesAreLaunched'
      /\ Count' = Count /\ registries' \in [DOMAIN registries' -> Registry]
      /\ DOMAIN registries' = DOMAIN registries
  <2>1. /\ R.slot = registries[current].slot /\ UNCHANGED <<current, mishaps>>
        /\ \A k \in Indexes : R.entry[k] = registries[current].entry[k] \/ R.entry[k] = Nobody \/ R.entry[k] = p
    BY <1>2, <1>5
  <2>2. r.pc \notin {"sweeping", "releasing", "files", "claiming", "attaching"} /\ r \in Process
        /\ proc[p].pc \in Registered /\ R \in Registry
    BY <1>1, <1>3
  <2> QED
    BY <1>3, <1>4, <1>6, <2>1, <2>2, RegisteredMoves
<1>8. \A q \in Procs, j \in Indexes : proc[q].mine[j] # 0 =>
            /\ proc[q].mine[j] <= objects
            /\ \A k \in Indexes : names[k] = proc[q].mine[j] => k = j /\ R.entry[j] = q
            /\ proc[q].pc \in ServingAt => names[j] = proc[q].mine[j]
  BY <1>5, RegisteredShare DEF RegistryIInv, CleanInv, MappedIsNamed
<1>9. \A a, b \in Indexes : names[a] <= objects /\ (names[a] = names[b] /\ names[a] # 0 => a = b)
  BY DEF RegistryIInv, CleanInv, MappedIsNamed
<1>10. names' = names /\ objects' = objects /\ current' = current /\ objects' \in Int /\ objects <= objects'
  BY <1>2 DEF RegistryIInv, ShmTyped
<1>11. MappedIsNamed' /\ MappedIsApart' /\ WorkIsRight'
  <2>1. NamesStayApart
    BY <1>9, <1>10 DEF NamesStayApart
  <2>2. OthersStayMapped(p, R)
    BY <1>8, <1>10 DEF OthersStayMapped
  <2>3. MapsItsOwn(p, r, R)
    <3>1. ASSUME NEW j \in Indexes, r.mine[j] # 0
          PROVE  /\ r.mine[j] <= objects'
                 /\ \A k \in Indexes : names'[k] = r.mine[j] => k = j /\ R.entry[j] = p
                 /\ names'[j] = r.mine[j]
                 /\ \A q \in Procs, k \in Indexes : q # p => proc[q].mine[k] # r.mine[j]
      <4>1. CASE j = i
        <5>1. ASSUME NEW q \in Procs, NEW k \in Indexes, q # p, proc[q].mine[k] = r.mine[j] PROVE FALSE
          BY <1>1, <1>3, <1>8, <4>1, <5>1
        <5> QED
          BY <1>1, <1>3, <1>9, <1>10, <4>1, <5>1
      <4>2. CASE j # i
        <5>1. \A q \in Procs, k \in Indexes : q # p => proc[q].mine[k] # proc[p].mine[j]
          BY <1>3, <3>1, <4>2 DEF RegistryIInv, CleanInv, MappedIsApart
        <5> QED
          BY <1>1, <1>3, <1>8, <1>10, <3>1, <4>2, <5>1
      <4> QED
        BY <4>1, <4>2
    <3> QED
      BY <1>6, <3>1 DEF MapsItsOwn
  <2>4. OthersWorkRight(p, R)
    BY <1>5, <1>10, RegisteredShare DEF OthersWorkRight, Registered, RegistryIInv, CleanInv, WorkIsRight
  <2>5. WorksRight(p, r, R)
    BY <1>3 DEF WorksRight
  <2> QED
    BY <1>1, <1>3, <1>4, <1>6, <1>10, <2>1, <2>2, <2>3, <2>4, <2>5, WorkMoves
<1> QED
  <2>1. CleanInv'
    BY <1>7, <1>11 DEF CleanInv
  <2>2. /\ files' \in [ServerNames -> Procs \cup {Nobody}] /\ objects' \in 0 .. MaxObjects
        /\ names' \in [Indexes -> 0 .. MaxObjects] /\ UNCHANGED <<current, mishaps>>
        /\ UNCHANGED <<semaphore, holder>> /\ registries'[current].stage = registries[current].stage
    BY <1>2 DEF RegistryIInv, ShmTyped
  <2> QED
    BY <1>1, <1>3, <1>6, <1>7, <2>1, <2>2, RegisteredEnds

\* A segment is given up, and its entry freed later.
LEMMA ResizeUnmaps ==
    ASSUME RegistryIInv, Clean, NEW p \in Procs, NEW i \in Indexes,
           At(p, "running"), proc[p].mine[i] # 0, names' = [names EXCEPT ![i] = 0],
           proc' = [proc EXCEPT ![p].pc = "freeing", ![p].mine[i] = 0],
           UNCHANGED <<mishaps, semaphore, holder, registries, current, objects, files>>
    PROVE  RegistryIInv'
<1> DEFINE r == [proc[p] EXCEPT !.pc = "freeing", !.mine[i] = 0]
           R == registries[current]
<1>0. 0 \in 0 .. MaxObjects
  BY ShmAssumption
<1>1. /\ proc[p] \in Process /\ proc[p].pc = "running" /\ proc[p].pc \in Registered
      /\ proc[p].pc \notin Guarded /\ proc[p].pc \in ServingAt /\ ~proc[p].closing
      /\ current # 0 /\ proc[p].reg = current /\ current \in DOMAIN registries
      /\ R \in Registry /\ MyRegistry(p) = R
  BY AtIsKnown, RegisteredShare DEF At, Registered, Guarded, ServingAt, Closing
<1>3. proc' = [proc EXCEPT ![p] = r] /\ r \in Process /\ r.pc = "freeing" /\ r.reg = proc[p].reg
      /\ r.name = proc[p].name /\ ~r.closing /\ r.mine[i] = 0
      /\ \A j \in Indexes : j # i => r.mine[j] = proc[p].mine[j]
  BY <1>0, <1>1 DEF Process, Stages, RegistryIInv, ShmTyped
<1>4. registries' = [registries EXCEPT ![current] = R]
  BY DEF RegistryIInv, ShmTyped
<1>5. R = registries[current]
  OBVIOUS
<1> HIDE DEF r, R
<1>6. /\ r.pc \in Registered /\ r.pc \notin Guarded /\ r.pc \in ServingAt
  BY <1>3 DEF Registered, Guarded, ServingAt
<1>7. /\ StagesOK' /\ SweptSoFar' /\ RegistryIsOne' /\ SlotsAreClaimed' /\ NamesApart'
      /\ EntriesAreLaunched'
      /\ Count' = Count /\ registries' \in [DOMAIN registries' -> Registry]
      /\ DOMAIN registries' = DOMAIN registries
  <2>1. /\ R.slot = registries[current].slot /\ UNCHANGED <<current, mishaps>>
        /\ \A k \in Indexes : R.entry[k] = registries[current].entry[k] \/ R.entry[k] = Nobody \/ R.entry[k] = p
    BY <1>5
  <2>2. r.pc \notin {"sweeping", "releasing", "files", "claiming", "attaching"} /\ r \in Process
        /\ proc[p].pc \in Registered /\ R \in Registry
    BY <1>1, <1>3
  <2> QED
    BY <1>3, <1>4, <1>6, <2>1, <2>2, RegisteredMoves
<1>8. \A q \in Procs, j \in Indexes : proc[q].mine[j] # 0 =>
            /\ proc[q].mine[j] <= objects
            /\ \A k \in Indexes : names[k] = proc[q].mine[j] => k = j /\ R.entry[j] = q
            /\ proc[q].pc \in ServingAt => names[j] = proc[q].mine[j]
  BY <1>5, RegisteredShare DEF RegistryIInv, CleanInv, MappedIsNamed
<1>9. \A a, b \in Indexes : names[a] <= objects /\ (names[a] = names[b] /\ names[a] # 0 => a = b)
  BY DEF RegistryIInv, CleanInv, MappedIsNamed
<1>10. /\ objects' = objects /\ current' = current /\ objects' \in Int /\ objects <= objects' /\ 0 <= objects
       /\ names' \in [Indexes -> 0 .. MaxObjects] /\ names'[i] = 0
       /\ \A k \in Indexes : k # i => names'[k] = names[k]
  BY <1>0 DEF RegistryIInv, ShmTyped
<1>11. R.entry[i] = p
  BY <1>1, <1>8
<1>12. \A q \in Procs, j \in Indexes : proc[q].mine[j] # 0 /\ (q # p \/ j # i) =>
            /\ proc[q].mine[j] <= objects'
            /\ \A k \in Indexes : names'[k] = proc[q].mine[j] => k = j /\ R.entry[j] = q
            /\ proc[q].pc \in ServingAt => names'[j] = proc[q].mine[j]
  BY <1>8, <1>10, <1>11
<1>13. MappedIsNamed' /\ MappedIsApart' /\ WorkIsRight'
  <2>1. NamesStayApart
    BY <1>9, <1>10 DEF NamesStayApart
  <2>2. OthersStayMapped(p, R)
    BY <1>12 DEF OthersStayMapped
  <2>3. MapsItsOwn(p, r, R)
    <3>1. \A q \in Procs, j, k \in Indexes : q # p /\ proc[p].mine[j] # 0 => proc[q].mine[k] # proc[p].mine[j]
      BY DEF RegistryIInv, CleanInv, MappedIsApart
    <3> QED
      BY <1>1, <1>3, <1>6, <1>12, <3>1 DEF MapsItsOwn
  <2>4. OthersWorkRight(p, R)
    <3>1. ASSUME NEW q \in Procs, q # p
          PROVE  /\ proc[q].pc = "claiming" => names'[proc[q].at] # 0 /\ R.entry[proc[q].at] = Nobody
                 /\ proc[q].pc = "attaching" => names'[proc[q].at] # 0 /\ R.entry[proc[q].at] = q
                 /\ proc[q].pc = "releasing" =>
                       /\ names'[proc[q].at] = 0
                       /\ \A o \in Procs : R.entry[proc[q].at] = o => o = q \/ proc[o].pc \in Over
      <4>1. CASE proc[q].pc \in {"claiming", "attaching", "releasing"}
        <5>1. proc[q].at \in Indexes /\ proc[q].pc \in Registered /\ MyRegistry(q) = R
          BY <1>5, <4>1, RegisteredShare DEF RegistryIInv, StagesOK, Registered
        <5>2. /\ proc[q].pc = "claiming" => names[proc[q].at] # 0 /\ R.entry[proc[q].at] = Nobody
              /\ proc[q].pc = "attaching" => names[proc[q].at] # 0 /\ R.entry[proc[q].at] = q
              /\ proc[q].pc = "releasing" =>
                    /\ names[proc[q].at] = 0
                    /\ \A o \in Procs : R.entry[proc[q].at] = o => o = q \/ proc[o].pc \in Over
          BY <5>1 DEF RegistryIInv, CleanInv, WorkIsRight
        <5> QED
          BY <1>10, <1>11, <3>1, <5>1, <5>2, NobodyIsNone
      <4> QED
        BY <4>1
    <3> QED
      BY <3>1 DEF OthersWorkRight
  <2>5. WorksRight(p, r, R)
    BY <1>3 DEF WorksRight
  <2> QED
    BY <1>1, <1>3, <1>4, <1>6, <1>10, <2>1, <2>2, <2>3, <2>4, <2>5, WorkMoves
<1> QED
  <2>1. CleanInv'
    BY <1>7, <1>13 DEF CleanInv
  <2>2. /\ files' \in [ServerNames -> Procs \cup {Nobody}] /\ objects' \in 0 .. MaxObjects
        /\ registries'[current].stage = registries[current].stage
    BY DEF RegistryIInv, ShmTyped
  <2> QED
    BY <1>1, <1>3, <1>6, <1>7, <1>10, <2>1, <2>2, RegisteredEnds

LEMMA ResizeFrees ==
    ASSUME RegistryIInv, Clean, NEW p \in Procs, At(p, "freed"),
           registries' = [registries EXCEPT ![proc[p].reg].entry =
                            [i \in Indexes |-> IF i \in {j \in Indexes : MyRegistry(p).entry[j] = p /\ proc[p].mine[j] = 0}
                                               THEN Nobody ELSE @[i]]],
           Goes(p, "malloc"), Unlocked, UNCHANGED <<mishaps, current, names, objects, files>>
    PROVE  RegistryIInv'
<1> DEFINE r == [proc[p] EXCEPT !.pc = "malloc"]
           R0 == registries[current]
           freed == [i \in Indexes |-> IF R0.entry[i] = p /\ proc[p].mine[i] = 0 THEN Nobody ELSE R0.entry[i]]
           R == [R0 EXCEPT !.entry = freed]
<1>1. /\ proc[p] \in Process /\ proc[p].pc = "freed" /\ proc[p].pc \in Registered
      /\ proc[p].pc \in Guarded /\ proc[p].pc \in ServingAt /\ ~proc[p].closing
      /\ current # 0 /\ proc[p].reg = current /\ current \in DOMAIN registries
      /\ R0 \in Registry /\ MyRegistry(p) = R0
  BY AtIsKnown, RegisteredShare DEF At, Registered, Guarded, ServingAt, Closing
<1>2. /\ R \in Registry /\ R.slot = R0.slot /\ R.stage = R0.stage
      /\ \A j \in Indexes : R.entry[j] = IF R0.entry[j] = p /\ proc[p].mine[j] = 0 THEN Nobody ELSE R0.entry[j]
  BY <1>1 DEF Registry
<1>3. proc' = [proc EXCEPT ![p] = r] /\ r \in Process /\ r.pc = "malloc" /\ r.reg = proc[p].reg
      /\ r.name = proc[p].name /\ ~r.closing /\ r.mine = proc[p].mine
  BY <1>1 DEF Goes, Process, Stages, RegistryIInv, ShmTyped
<1>4. registries' = [registries EXCEPT ![current] = R]
  BY <1>1
<1>5. R0 = registries[current]
  OBVIOUS
<1> HIDE DEF r, R, R0
<1>6. /\ r.pc \in Registered /\ r.pc \notin Guarded /\ r.pc \in ServingAt
  BY <1>3 DEF Registered, Guarded, ServingAt
<1>7. /\ StagesOK' /\ SweptSoFar' /\ RegistryIsOne' /\ SlotsAreClaimed' /\ NamesApart'
      /\ EntriesAreLaunched'
      /\ Count' = Count /\ registries' \in [DOMAIN registries' -> Registry]
      /\ DOMAIN registries' = DOMAIN registries
  <2>1. /\ R.slot = registries[current].slot /\ UNCHANGED <<current, mishaps>>
        /\ \A k \in Indexes : R.entry[k] = registries[current].entry[k] \/ R.entry[k] = Nobody \/ R.entry[k] = p
    BY <1>2, <1>5
  <2>2. r.pc \notin {"sweeping", "releasing", "files", "claiming", "attaching"} /\ r \in Process
        /\ proc[p].pc \in Registered /\ R \in Registry
    BY <1>1, <1>2, <1>3
  <2> QED
    BY <1>3, <1>4, <1>6, <2>1, <2>2, RegisteredMoves
<1>8. \A q \in Procs, j \in Indexes : proc[q].mine[j] # 0 =>
            /\ proc[q].mine[j] <= objects
            /\ \A k \in Indexes : names[k] = proc[q].mine[j] => k = j /\ R.entry[j] = q
            /\ proc[q].pc \in ServingAt => names[j] = proc[q].mine[j]
  <2>1. \A q \in Procs, j \in Indexes : proc[q].mine[j] # 0 =>
            /\ proc[q].mine[j] <= objects
            /\ \A k \in Indexes : names[k] = proc[q].mine[j] => k = j /\ R0.entry[j] = q
            /\ proc[q].pc \in ServingAt => names[j] = proc[q].mine[j]
    BY <1>5, RegisteredShare DEF RegistryIInv, CleanInv, MappedIsNamed
  <2> QED
    BY <1>2, <2>1
<1>9. \A a, b \in Indexes : names[a] <= objects /\ (names[a] = names[b] /\ names[a] # 0 => a = b)
  BY DEF RegistryIInv, CleanInv, MappedIsNamed
<1>10. names' = names /\ objects' = objects /\ current' = current /\ objects' \in Int /\ objects <= objects'
  BY DEF RegistryIInv, ShmTyped
<1>13. MappedIsNamed' /\ MappedIsApart' /\ WorkIsRight'
  <2>1. NamesStayApart
    BY <1>9, <1>10 DEF NamesStayApart
  <2>2. OthersStayMapped(p, R)
    BY <1>8, <1>10 DEF OthersStayMapped
  <2>3. MapsItsOwn(p, r, R)
    <3>1. \A q \in Procs, j, k \in Indexes : q # p /\ proc[p].mine[j] # 0 => proc[q].mine[k] # proc[p].mine[j]
      BY DEF RegistryIInv, CleanInv, MappedIsApart
    <3> QED
      BY <1>1, <1>3, <1>6, <1>8, <1>10, <3>1 DEF MapsItsOwn
  <2>4. OthersWorkRight(p, R)
    <3>1. ASSUME NEW q \in Procs, q # p, proc[q].pc = "attaching"
          PROVE  names'[proc[q].at] # 0 /\ R.entry[proc[q].at] = q
      <4>1. proc[q].at \in Indexes /\ names[proc[q].at] # 0 /\ R0.entry[proc[q].at] = q
        BY <1>5, <3>1, RegisteredShare DEF Registered, RegistryIInv, StagesOK, CleanInv, WorkIsRight
      <4> QED
        BY <1>2, <1>10, <3>1, <4>1
    <3>2. \A q \in Procs : q # p => proc[q].pc \notin {"claiming", "releasing"}
      BY <1>1 DEF RegistryIInv, LockIsHeld, Guarded
    <3> QED
      BY <3>1, <3>2 DEF OthersWorkRight
  <2>5. WorksRight(p, r, R)
    BY <1>3 DEF WorksRight
  <2> QED
    BY <1>1, <1>2, <1>3, <1>4, <1>6, <1>10, <2>1, <2>2, <2>3, <2>4, <2>5, WorkMoves
<1> QED
  <2>1. CleanInv'
    BY <1>7, <1>13 DEF CleanInv
  <2>2. /\ files' \in [ServerNames -> Procs \cup {Nobody}] /\ objects' \in 0 .. MaxObjects
        /\ names' \in [Indexes -> 0 .. MaxObjects] /\ semaphore' = semaphore + 1 /\ holder' = Nobody
    BY DEF RegistryIInv, ShmTyped, Unlocked
  <2>3. registries'[current].stage = registries[current].stage
    BY <1>1, <1>2, <1>4, <1>5
  <2> QED
    BY <1>1, <1>3, <1>6, <1>7, <2>1, <2>2, <2>3, RegisteredEnds

LEMMA ResizeKeeps ==
    ASSUME RegistryIInv, Clean, NEW p \in Procs, jack_resize_shm(p)
    PROVE  RegistryIInv'
BY ResizeUnmaps, ResizeFrees DEF jack_resize_shm

\* A server gives its slots back and is gone.
LEMMA UnregisterKeeps ==
    ASSUME RegistryIInv, Clean, NEW p \in Procs, jack_unregister_server(p)
    PROVE  RegistryIInv'
<1> DEFINE r == [proc[p] EXCEPT !.pc = "gone", !.mine = [i \in Indexes |-> 0]]
           R0 == registries[current]
           given == [s \in Slots |-> IF R0.slot[s].pid = p THEN FreeSlot ELSE R0.slot[s]]
           R == [R0 EXCEPT !.slot = given]
<1>1. /\ proc[p] \in Process /\ proc[p].pc = "unregistering" /\ proc[p].pc \in Registered
      /\ proc[p].pc \in Guarded /\ proc[p].pc \notin Over
      /\ current # 0 /\ proc[p].reg = current /\ current \in DOMAIN registries
      /\ R0 \in Registry /\ MyRegistry(p) = R0 /\ proc[p].name \in ServerNames /\ proc[p].reg \in 0 .. Count
  BY AtIsKnown, RegisteredShare DEF jack_unregister_server, At, Registered, Guarded, Over
<1>2. /\ R \in Registry /\ R.entry = R0.entry /\ R.stage = R0.stage
      /\ \A s \in Slots : R.slot[s] = IF R0.slot[s].pid = p THEN FreeSlot ELSE R0.slot[s]
  BY <1>1 DEF Registry, Slot, FreeSlot
<1>3. proc' = [proc EXCEPT ![p] = r] /\ r \in Process /\ r.pc = "gone" /\ r.reg = proc[p].reg
      /\ r.name = proc[p].name /\ \A i \in Indexes : r.mine[i] = 0
  <2>1. [i \in Indexes |-> 0] \in [Indexes -> 0 .. MaxObjects]
    BY ShmAssumption
  <2> QED
    BY <1>1, <2>1 DEF jack_unregister_server, Process, Stages, RegistryIInv, ShmTyped
<1>4. registries' = [registries EXCEPT ![current] = R]
  BY <1>1 DEF jack_unregister_server
<1>5. R0 = registries[current]
  OBVIOUS
<1> HIDE DEF r, R, R0
<1>6. semaphore' = semaphore + 1 /\ holder' = Nobody /\ UNCHANGED <<mishaps, current, names, objects, files>>
  BY DEF jack_unregister_server, Unlocked
<1>7. /\ Count' = Count /\ DOMAIN registries' = DOMAIN registries
      /\ registries' \in [DOMAIN registries' -> Registry] /\ registries'[current] = R
      /\ \A h \in DOMAIN registries : h # current => registries'[h] = registries[h]
  BY <1>1, <1>2, <1>4, RegistriesTyped DEF RegistryIInv
<1>8. /\ r.pc \in Over /\ r.pc \in Closing /\ r.pc \notin Registered /\ r.pc \notin Early /\ r.pc \notin Guarded
      /\ r.pc \notin {"off", "raising", "releasing", "claiming", "attaching", "sweeping", "files"}
  BY <1>3 DEF Over, Closing, Registered, Early, Guarded
<1>9. \A q \in Procs : proc'[q] = IF q = p THEN r ELSE proc[q]
  BY <1>3 DEF RegistryIInv, ShmTyped
<1>10. /\ StagesOK' /\ SweptSoFar'
       /\ Clean' => RegistryIsOne' /\ EntriesAreLaunched' /\ MappedIsNamed' /\ MappedIsApart' /\ WorkIsRight'
  <2>1. \A g \in DOMAIN registries : registries'[g].entry = registries[g].entry
    BY <1>2, <1>5, <1>7
  <2> QED
    BY <1>1, <1>3, <1>6, <1>7, <1>8, <2>1, MovesButSlots
<1>11. NamesApart'
  BY <1>8, <1>9 DEF NamesApart, RegistryIInv, CleanInv
<1>12. SlotsAreClaimed'
  <2>1. ASSUME NEW q \in Procs, proc'[q].pc \in Registered
        PROVE  \E s \in Slots : MyRegistry(q)'.slot[s] = [pid |-> q, name |-> proc'[q].name]
    <3>1. q # p /\ proc'[q] = proc[q] /\ proc[q].pc \in Registered
      BY <1>8, <1>9, <2>1
    <3>2. PICK s \in Slots : R0.slot[s] = [pid |-> q, name |-> proc[q].name]
      BY <1>5, <3>1, RegisteredShare DEF RegistryIInv, CleanInv, SlotsAreClaimed
    <3>3. R.slot[s] = R0.slot[s]
      BY <1>2, <3>1, <3>2
    <3>4. MyRegistry(q)' = R
      BY <1>7, <3>1, RegisteredShare DEF MyRegistry
    <3> QED
      BY <3>1, <3>2, <3>3, <3>4
  <2>2. ASSUME NEW s \in Slots, NEW q \in Procs, registries'[current].slot[s].pid = q
        PROVE  proc'[q].pc \in Registered \cup Over
    <3>1. R0.slot[s].pid = q /\ q # p
      BY <1>2, <1>7, <2>2, NobodyIsNone DEF FreeSlot
    <3> QED
      BY <1>1, <1>5, <1>9, <3>1 DEF RegistryIInv, CleanInv, SlotsAreClaimed
  <2> QED
    BY <1>6, <2>1, <2>2 DEF SlotsAreClaimed
<1>13. LockIsHeld' /\ SemaphoreReturns' /\ semaphore' \in {-1, 0, 1}
  BY <1>1, <1>3, <1>6, <1>8, LockGiven DEF RegistryIInv
<1>14. RegistryIsMade => RegistryIsMade'
  BY <1>1, <1>2, <1>3, <1>5, <1>6, <1>7, MakingKept DEF RegistryIInv
<1>15. ShmTyped'
  BY <1>3, <1>6, <1>7, <1>13 DEF RegistryIInv, ShmTyped
<1>16. Clean' => CleanInv'
  BY <1>10, <1>11, <1>12 DEF CleanInv
<1> QED
  BY <1>6, <1>10, <1>13, <1>14, <1>15, <1>16, CanStartInTwo, RegistryIInvPrimed DEF RegistryIInv

\* A process is killed at any line; SEM_UNDO gives back what it held.
LEMMA KilledKeeps ==
    ASSUME RegistryIInv, Clean, NEW p \in Procs, Killed(p)
    PROVE  RegistryIInv'
<1> DEFINE r == [proc[p] EXCEPT !.pc = "dead", !.mine = [i \in Indexes |-> 0], !.due = {}]
<1>1. /\ proc[p] \in Process /\ proc[p].pc \notin Over /\ proc[p].pc # "off" /\ alive(p)
      /\ proc[p].name \in ServerNames /\ proc[p].reg \in 0 .. Count
  BY AtIsKnown DEF Killed, alive, Over
<1>2. proc' = [proc EXCEPT ![p] = r] /\ r \in Process /\ r.pc = "dead" /\ r.reg = proc[p].reg
      /\ r.name = proc[p].name /\ \A i \in Indexes : r.mine[i] = 0
  <2>1. [i \in Indexes |-> 0] \in [Indexes -> 0 .. MaxObjects]
    BY ShmAssumption
  <2> QED
    BY <1>1, <2>1 DEF Killed, Process, Stages, RegistryIInv, ShmTyped
<1> HIDE DEF r
<1>3. /\ UNCHANGED <<registries, current, names, objects, files>>
      /\ semaphore' = IF holder = p THEN semaphore + 1 ELSE semaphore
      /\ holder' = IF holder = p THEN Nobody ELSE holder
      /\ "kill" \notin mishaps' => mishaps' = mishaps /\ proc[p].pc \notin {"raising", "sizing"}
  BY DEF Killed, semaphore_add, Unguarded
<1>4. /\ r.pc \in Over /\ r.pc \in Closing /\ r.pc \notin Registered /\ r.pc \notin Early /\ r.pc \notin Guarded
      /\ r.pc \notin {"off", "raising", "releasing", "claiming", "attaching", "sweeping", "files"}
  BY <1>2 DEF Over, Closing, Registered, Early, Guarded
<1>5. \A q \in Procs : proc'[q] = IF q = p THEN r ELSE proc[q]
  BY <1>2 DEF RegistryIInv, ShmTyped
<1>6. StagesOK' /\ SweptSoFar' /\ (Clean' => CleanInv')
  BY <1>1, <1>2, <1>3, <1>4, ProcessMoves
<1>7. LockIsHeld' /\ semaphore' \in {-1, 0, 1}
      /\ (proc[p].pc # "raising" /\ SemaphoreReturns => SemaphoreReturns')
  <2>1. CASE proc[p].pc \in Guarded
    <3>1. holder = p /\ proc[p].pc # "raising"
      BY <2>1, GuardedLive DEF RegistryIInv, LockIsHeld
    <3> QED
      BY <1>2, <1>3, <1>4, <2>1, <3>1, LockGiven DEF RegistryIInv
  <2>2. CASE proc[p].pc \notin Guarded /\ proc[p].pc # "raising"
    <3>1. holder # p
      BY <2>2 DEF RegistryIInv, LockIsHeld
    <3> QED
      BY <1>2, <1>3, <1>4, <2>2, <3>1, LockKept DEF RegistryIInv, ShmTyped
  <2>3. CASE proc[p].pc = "raising"
    <3>1. semaphore = 0 /\ holder = Nobody /\ holder # p /\ p # Nobody
      BY <2>3, NobodyIsNone DEF RegistryIInv, LockIsHeld
    <3>2. \A q \in Procs : proc'[q].pc \notin Guarded /\ proc'[q].pc # "raising"
      BY <1>4, <1>5, <2>3, <3>1, NobodyIsNone DEF RegistryIInv, LockIsHeld
    <3>3. LockIsHeld'
      BY <1>3, <3>1, <3>2, NobodyIsNone DEF LockIsHeld
    <3> QED
      BY <1>3, <2>3, <3>1, <3>3
  <2> QED
    BY <2>1, <2>2, <2>3
<1>8. proc[p].pc # "sizing" /\ RegistryIsMade => RegistryIsMade'
  BY <1>2, <1>3, MakingKept DEF RegistryIInv
<1>9. ShmTyped'
  BY <1>2, <1>3, <1>7 DEF RegistryIInv, ShmTyped, Count
<1>10. "kill" \notin mishaps' => SemaphoreReturns' /\ RegistryIsMade'
  BY <1>3, <1>7, <1>8, CanStartInTwo DEF RegistryIInv
<1> QED
  BY <1>6, <1>7, <1>9, <1>10, RegistryIInvPrimed

LEMMA RegistryStarts == ShmInit => RegistryIInv
<1> SUFFICES ASSUME ShmInit PROVE RegistryIInv
  OBVIOUS
<1>1. \A p \in Procs : /\ proc[p].pc = "off" /\ proc[p].name = Nobody /\ proc[p].reg = 0
                       /\ ~proc[p].closing /\ proc[p].due = {} /\ \A i \in Indexes : proc[p].mine[i] = 0
  BY DEF ShmInit
<1>2. Count = 0 /\ DOMAIN registries = 1 .. Count
  <2>1. DOMAIN registries = {} /\ 1 .. 0 = {}
    BY DEF ShmInit
  <2>2. Cardinality(DOMAIN registries) = 0
    BY <2>1, FS_EmptySet
  <2> QED
    BY <2>1, <2>2 DEF Count
<1>3. ShmTyped
  <2>1. proc \in [Procs -> Process]
    <3>1. [i \in Indexes |-> 0] \in [Indexes -> 0 .. MaxObjects] /\ 0 \in 0 .. MaxRegistries
          /\ 0 \in 0 .. LastIndex + 1 /\ {} \in SUBSET (Indexes \X Procs)
      BY ShmAssumption
    <3> QED
      BY <3>1 DEF ShmInit, Process, Stages
  <2>2. registries \in [DOMAIN registries -> Registry]
    BY <1>2 DEF ShmInit
  <2>3. 0 \in 0 .. MaxRegistries /\ 0 \in 0 .. MaxObjects
    BY ShmAssumption
  <2> QED
    <3>1. /\ semaphore \in {-1, 0, 1} /\ holder \in Procs \cup {Nobody} /\ objects \in 0 .. MaxObjects
          /\ names \in [Indexes -> 0 .. MaxObjects] /\ files \in [ServerNames -> Procs \cup {Nobody}]
      BY <2>3 DEF ShmInit
    <3>2. Count \in 0 .. MaxRegistries /\ current \in 0 .. Count
      BY <1>2, <2>3 DEF ShmInit
    <3> QED
      BY <1>2, <2>1, <2>2, <3>1, <3>2 DEF ShmTyped
<1>4. StagesOK /\ LockIsHeld /\ SweptSoFar /\ CleanInv
  <2>1. "off" \in Early /\ "off" \notin Guarded /\ "off" \notin Registered /\ "off" \notin ServingAt
    BY DEF Early, Guarded, Registered, ServingAt
  <2>2. StagesOK
    BY <1>1, <1>2, <2>1 DEF StagesOK
  <2>3. LockIsHeld
    BY <1>1, <2>1, NobodyIsNone DEF LockIsHeld, ShmInit
  <2>4. SweptSoFar /\ RegistryIsOne /\ NamesApart /\ MappedIsApart /\ WorkIsRight
    BY <1>1, <2>1 DEF SweptSoFar, RegistryIsOne, NamesApart, MappedIsApart, WorkIsRight
  <2>5. SlotsAreClaimed /\ EntriesAreLaunched
    BY <1>1, <2>1 DEF SlotsAreClaimed, EntriesAreLaunched, ShmInit
  <2>6. MappedIsNamed
    BY <1>1 DEF MappedIsNamed, ShmInit
  <2> QED
    BY <2>2, <2>3, <2>4, <2>5, <2>6 DEF CleanInv
<1>5. JackCanStart
  BY DEF ShmInit, JackCanStart, CanBeStarted
<1> QED
  BY <1>3, <1>4, <1>5 DEF RegistryIInv

LEMMA InitializeKeeps ==
    ASSUME RegistryIInv, Clean, NEW p \in Procs, jack_server_initialize_shm(p)
    PROVE  RegistryIInv'
BY InitializeUses, InitializeMakes

LEMMA RegistrySteps == RegistryIInv /\ [ShmNext]_shmVars => RegistryIInv'
<1>1. ASSUME RegistryIInv, ShmNext PROVE RegistryIInv'
  <2>1. Clean
    BY <1>1 DEF ShmNext, Clean
  <2>2. PICK p \in Procs :
          \/ \E n \in ServerNames, replace \in BOOLEAN : ServerLaunched(p, n, replace)
          \/ \E n \in ServerNames : jackctl_server_start(p, n)
          \/ semaphore_init(p) \/ jack_shm_lock_registry(p)
          \/ jack_server_initialize_shm(p) \/ jack_create_registry(p)
          \/ jack_register_server(p) \/ jack_cleanup_shm(p) \/ jack_cleanup_files(p) \/ EngineCreated(p)
          \/ WantsSegment(p) \/ jack_shmalloc(p) \/ jack_attach_shm(p) \/ jack_resize_shm(p)
          \/ jackctl_server_stop(p) \/ jack_unregister_server(p) \/ Killed(p)
    BY <1>1 DEF ShmNext
  <2> QED
    BY <1>1, <2>1, <2>2, ServerLaunchedKeeps, StartsTwiceKeeps, SemaphoreInitKeeps, LockRegistryKeeps,
       InitializeKeeps, CreateRegistryKeeps, RegisterServerKeeps, CleanupShmKeeps, ServerGoesOn,
       ShmallocKeeps, AttachKeeps, ResizeKeeps, UnregisterKeeps, KilledKeeps
<1>2. ASSUME RegistryIInv, UNCHANGED shmVars PROVE RegistryIInv'
  BY <1>2 DEF shmVars, RegistryIInv, ShmTyped, Count, StagesOK, LockIsHeld, JackCanStart, CanBeStarted, At,
              SweptSoFar, MyRegistry, Clean, CleanInv, RegistryIsOne, SlotsAreClaimed, NamesApart,
              EntriesAreLaunched, MappedIsNamed, MappedIsApart, WorkIsRight, alive
<1> QED
  BY <1>1, <1>2

LEMMA RegistryGives == RegistryIInv => RegistryInv
<1> SUFFICES ASSUME RegistryIInv PROVE RegistryInv
  OBVIOUS
<1>1. ShmTypeOK
  BY DEF RegistryIInv, ShmTyped, ShmTypeOK, Count, Registry, Slot, Process
<1>2. \A p \in Procs : Serving(p) => proc[p].pc \in ServingAt /\ proc[p].pc \in Registered
  BY DEF Serving, ServingAt, Registered
<1>3. OneServerAName
  BY <1>2 DEF OneServerAName, RegistryIInv, Clean, CleanInv, NamesApart
<1>4. LiveSegmentsStay
  BY <1>2 DEF LiveSegmentsStay, RegistryIInv, Clean, CleanInv, MappedIsNamed
<1>5. SegmentsAreApart
  BY DEF SegmentsAreApart, RegistryIInv, Clean, CleanInv, MappedIsApart
<1>6. DeadAreSwept
  BY DEF DeadAreSwept, RegistryIInv, SweptSoFar, At
<1> QED
  BY <1>1, <1>3, <1>4, <1>5, <1>6 DEF RegistryInv, RegistryIInv

\* The shared memory registry is kept by servers that start, run, resize, stop and
\* are killed in any order: no two live servers have one name, what a live server
\* mapped keeps its name and its entry and belongs to it alone, a start frees what the
\* dead left, and a semaphore that is down will be raised by somebody who is alive
\* (libjack/shm.c).
THEOREM RegistryIsKept == ShmSpec => []RegistryInv
<1>1. ShmSpec => []RegistryIInv
  BY RegistryStarts, RegistrySteps, PTL DEF ShmSpec
<1> QED
  BY <1>1, RegistryGives, PTL

------------------------------------------------------------------------------
(* MIDI buffers. Events lie apart and in order in every buffer, and mixing  *)
(* merges the sources' (MidiInv), for any number of sources and events. The *)
(* loop of jack_midi_port_mixdown keeps that what was read are the first    *)
(* events of all (MixKept), so that the next one's rank is the number of    *)
(* those read; the data of an event is where all before it end (DataLies).  *)

\* A set of naturals that is not empty has a least one.
LEMMA LeastExists ==
    ASSUME NEW T \in SUBSET Nat, T # {}
    PROVE  \E x \in T : \A y \in T : x <= y
<1> DEFINE Below(n) == 0 .. n
           B == {Below(n) : n \in T}
<1>1. B \subseteq FiniteSubsetsOf(Nat)
  <2> SUFFICES ASSUME NEW n \in T PROVE Below(n) \in FiniteSubsetsOf(Nat)
    OBVIOUS
  <2>1. IsFiniteSet(0 .. n)
    BY FS_Interval
  <2>2. QED
    BY <2>1 DEF FiniteSubsetsOf
<1>2. B # {}
  OBVIOUS
<1>3. PICK b \in B : \A c \in B : ~(<<c, b>> \in StrictSubsetOrdering(Nat))
  <2> HIDE DEF B
  <2>1. QED
    BY <1>1, <1>2, WFMin, FS_StrictSubsetOrderingWellFounded
<1>4. PICK m \in T : b = Below(m)
  OBVIOUS
<1>5. ASSUME NEW k \in T, k < m PROVE FALSE
  <2>1. Below(k) \in B /\ Below(k) \subseteq Below(m) /\ Below(k) # Below(m)
    BY <1>5
  <2>2. <<Below(k), b>> \in StrictSubsetOrdering(Nat)
    BY <2>1, <1>4 DEF StrictSubsetOrdering
  <2>3. QED
    BY <2>1, <2>2, <1>3
<1>6. QED
  BY <1>5

\* RemoveAt closes the gap.

Events == [time : EventTimes, size : DataSizes, byte_offset : Int, from : Sources \X Nat]
Buffers == [events : Seq(Events), last_write_loc : Nat, events_lost : Nat]

InOrder(b) == \A i, j \in DOMAIN b.events : i < j => b.events[i].time <= b.events[j].time

\* The events' headers are in the buffer, and so is the data, behind the buffer's own
\* header, later events' before earlier ones' (it may reach the events' headers).
DataLies(b) ==
    /\ InfoSize + HeaderSize * Len(b.events) <= BufferSize
    /\ \A i \in Apart(b) :
         /\ InfoSize <= b.events[i].byte_offset
         /\ BufferSize - 1 - b.last_write_loc <= b.events[i].byte_offset
         /\ b.events[i].byte_offset + b.events[i].size <= BufferSize
    /\ \A i, j \in Apart(b) :
         i < j => b.events[j].byte_offset + b.events[j].size <= b.events[i].byte_offset

\* What jack_midi_event_reserve appends when it does not refuse.
NewEvent(b, time, size, from) ==
    [time |-> time, size |-> size,
     byte_offset |-> IF size <= MIDI_INLINE_MAX THEN Inline ELSE BufferSize - 1 - Loc(b, size),
     from |-> from]

LEMMA NewEventType ==
    ASSUME NEW b \in Buffers, NEW time \in EventTimes, NEW size \in DataSizes,
           NEW from \in Sources \X Nat
    PROVE  /\ Loc(b, size) \in Nat /\ NewEvent(b, time, size, from) \in Events
           /\ NewEvent(b, time, size, from).time = time
           /\ NewEvent(b, time, size, from).from = from
<1>1. b.last_write_loc \in Nat /\ size \in Nat /\ BufferSize \in Nat
  BY MidiAssumption DEF Buffers
<1>2. Loc(b, size) \in Nat
  BY <1>1 DEF Loc, MIDI_INLINE_MAX
<1> DEFINE offset == IF size <= MIDI_INLINE_MAX THEN Inline ELSE BufferSize - 1 - Loc(b, size)
<1>3. offset \in Int
  BY <1>1, <1>2 DEF MIDI_INLINE_MAX, Inline
<1>4. NewEvent(b, time, size, from)
        = [time |-> time, size |-> size, byte_offset |-> offset, from |-> from]
  BY DEF NewEvent
<1> HIDE DEF offset
<1>5. QED
  BY <1>2, <1>3, <1>4 DEF Events

\* A buffer after a call: as it was but for the count of lost events, or with
\* one event more.
Reserved(b, r, time, size, from) ==
    \/ /\ r.events = b.events /\ r.last_write_loc = b.last_write_loc
       /\ r.events_lost = b.events_lost + 1
    \/ /\ r.events = Append(b.events, NewEvent(b, time, size, from))
       /\ r.last_write_loc = Loc(b, size) /\ r.events_lost = b.events_lost
       /\ ~Refused(b, time, size)

LEMMA ReservedIs ==
    ASSUME NEW b \in Buffers, NEW time \in EventTimes, NEW size \in DataSizes,
           NEW from \in Sources \X Nat
    PROVE  LET r == jack_midi_event_reserve(b, time, size, from)
           IN  r \in Buffers /\ Reserved(b, r, time, size, from)
<1> DEFINE r == jack_midi_event_reserve(b, time, size, from)
           loc == Loc(b, size)
           longer == Append(b.events, NewEvent(b, time, size, from))
           lost == b.events_lost + 1
<1>1. b.events \in Seq(Events) /\ b.last_write_loc \in Nat /\ b.events_lost \in Nat
      /\ loc \in Nat /\ lost \in Nat /\ longer \in Seq(Events)
  BY NewEventType DEF Buffers
<1>2. \/ /\ Refused(b, time, size)
         /\ r = [b EXCEPT !.events_lost = lost]
      \/ /\ ~Refused(b, time, size)
         /\ r = [b EXCEPT !.last_write_loc = loc, !.events = longer]
  BY Zenon DEF jack_midi_event_reserve, NewEvent
<1>3. SUFFICES /\ r \in Buffers
               /\ \/ r.events = b.events /\ r.last_write_loc = b.last_write_loc
                     /\ r.events_lost = lost
                  \/ /\ r.events = longer /\ r.last_write_loc = loc
                     /\ r.events_lost = b.events_lost /\ ~Refused(b, time, size)
  BY Zenon DEF Reserved
<1> HIDE DEF r, loc, lost, longer
<1>4. QED
  BY <1>1, <1>2 DEF Buffers

LEMMA EventFields ==
    ASSUME NEW b \in Buffers
    PROVE  /\ b.events \in Seq(Events) /\ Len(b.events) \in Nat
           /\ DOMAIN b.events = 1 .. Len(b.events)
           /\ b.last_write_loc \in Nat /\ b.events_lost \in Nat
           /\ \A i \in DOMAIN b.events :
                /\ b.events[i] \in Events
                /\ b.events[i].time \in Nat /\ b.events[i].size \in Nat
                /\ b.events[i].byte_offset \in Int
<1>1. b.events \in Seq(Events) /\ b.last_write_loc \in Nat /\ b.events_lost \in Nat
  BY DEF Buffers
<1>2. Len(b.events) \in Nat /\ DOMAIN b.events = 1 .. Len(b.events)
      /\ \A i \in DOMAIN b.events : b.events[i] \in Events
  BY <1>1
<1>3. \A e \in Events : e.time \in Nat /\ e.size \in Nat /\ e.byte_offset \in Int
  BY MidiAssumption DEF Events
<1>4. QED
  BY <1>1, <1>2, <1>3

\* Events are taken in order only.
LEMMA ReserveOrders ==
    ASSUME NEW b \in Buffers, NEW r \in Buffers, NEW time \in EventTimes,
           NEW size \in DataSizes, NEW from \in Sources \X Nat,
           InOrder(b), Reserved(b, r, time, size, from)
    PROVE  InOrder(r)
<1>1. CASE r.events = b.events
  BY <1>1 DEF InOrder
<1>2. CASE r.events = Append(b.events, NewEvent(b, time, size, from))
           /\ ~Refused(b, time, size)
  <2> DEFINE e == NewEvent(b, time, size, from)
             n == Len(b.events)
  <2>1. /\ e \in Events /\ e.time = time /\ time \in Nat
    BY NewEventType, MidiAssumption
  <2>2. /\ n \in Nat /\ DOMAIN b.events = 1 .. n /\ b.events \in Seq(Events)
        /\ \A i \in 1 .. n : b.events[i].time \in Nat
    BY EventFields
  <2>3. \A i \in 1 .. n : b.events[i].time <= time
    <3>1. n > 0 => b.events[n].time <= time
      <4>1. n > 0 => b.events # <<>>
        BY <2>2
      <4>2. b.events # <<>> => ~(time < b.events[n].time)
        BY <1>2 DEF Refused, Last
      <4>3. QED
        BY <2>1, <2>2, <4>1, <4>2
    <3>2. \A i \in 1 .. n : i < n => b.events[i].time <= b.events[n].time
      BY <2>2 DEF InOrder
    <3> HIDE DEF n
    <3>3. QED
      BY <2>1, <2>2, <3>1, <3>2
  <2>4. /\ DOMAIN r.events = 1 .. n + 1 /\ r.events[n + 1] = e
        /\ \A i \in 1 .. n : r.events[i] = b.events[i]
    BY <1>2, <2>1, <2>2
  <2>5. \A i, j \in 1 .. n : i < j => b.events[i].time <= b.events[j].time
    BY <2>2 DEF InOrder
  <2> HIDE DEF e, n
  <2>6. QED
    <3> SUFFICES ASSUME NEW i \in 1 .. n + 1, NEW j \in 1 .. n + 1, i < j
                 PROVE  r.events[i].time <= r.events[j].time
      BY <2>4 DEF InOrder
    <3>1. i \in 1 .. n
      BY <2>2
    <3>2. CASE j \in 1 .. n
      BY <2>4, <2>5, <3>1, <3>2
    <3>3. CASE j = n + 1
      BY <2>1, <2>3, <2>4, <3>1, <3>3
    <3>4. QED
      BY <2>2, <3>2, <3>3
<1>3. QED
  BY <1>1, <1>2 DEF Reserved

\* The data goes before all that is there and behind the headers.
LEMMA ReserveLays ==
    ASSUME NEW b \in Buffers, NEW r \in Buffers, NEW time \in EventTimes,
           NEW size \in DataSizes, NEW from \in Sources \X Nat,
           DataLies(b), Reserved(b, r, time, size, from)
    PROVE  DataLies(r)
<1>1. CASE r.events = b.events /\ r.last_write_loc = b.last_write_loc
  BY <1>1 DEF DataLies, Apart
<1>2. CASE r.events = Append(b.events, NewEvent(b, time, size, from))
           /\ r.last_write_loc = Loc(b, size) /\ ~Refused(b, time, size)
  <2> DEFINE e == NewEvent(b, time, size, from)
             n == Len(b.events)
             l == b.last_write_loc
             free == BufferSize - (InfoSize + l + (n + 1) * HeaderSize)
  <2>1. /\ e \in Events /\ e.size = size /\ size \in Nat /\ BufferSize \in Nat
        /\ e.byte_offset = IF size <= 4 THEN -1 ELSE BufferSize - 1 - Loc(b, size)
        /\ Loc(b, size) = IF size <= 4 THEN l ELSE l + size
    BY NewEventType, MidiAssumption, EventFields
       DEF Inline, MIDI_INLINE_MAX, Loc, NewEvent
  <2>2. /\ n \in Nat /\ DOMAIN b.events = 1 .. n /\ b.events \in Seq(Events) /\ l \in Nat
        /\ \A i \in 1 .. n : b.events[i].byte_offset \in Int /\ b.events[i].size \in Nat
    BY EventFields
  <2>3. size > 0 /\ free >= 0 /\ (size > 4 => size <= free)
    <3>1. jack_midi_max_event_size(b) = IF free < 0 THEN 0 ELSE IF free < 4 THEN 4 ELSE free
      BY <2>1, <2>2 DEF jack_midi_max_event_size, Used, InfoSize, HeaderSize, MIDI_INLINE_MAX
    <3>2. size # 0 /\ ~(jack_midi_max_event_size(b) < size)
      BY <1>2 DEF Refused
    <3>3. free \in Int
      BY <2>1, <2>2 DEF InfoSize, HeaderSize
    <3> HIDE DEF free, e, n, l
    <3>4. QED
      BY <2>1, <3>1, <3>2, <3>3
  <2>4. /\ DOMAIN r.events = 1 .. n + 1 /\ r.events[n + 1] = e /\ Len(r.events) = n + 1
        /\ \A i \in 1 .. n : r.events[i] = b.events[i]
    BY <1>2, <2>1, <2>2
  <2> DEFINE A == Apart(b)
             B == Apart(r)
  <2>5. /\ A \subseteq 1 .. n
        /\ \A i \in A :
             /\ InfoSize <= b.events[i].byte_offset
             /\ BufferSize - 1 - l <= b.events[i].byte_offset
             /\ b.events[i].byte_offset + b.events[i].size <= BufferSize
        /\ \A i, j \in A :
             i < j => b.events[j].byte_offset + b.events[j].size <= b.events[i].byte_offset
    BY <2>2 DEF DataLies, Apart
  <2>6. \A i \in B : (i \in A /\ i <= n) \/ (i = n + 1 /\ size > 4)
    <3> HIDE DEF e, n
    <3>1. B = {i \in 1 .. n + 1 : r.events[i].byte_offset # -1}
      BY <2>4 DEF Apart, Inline
    <3>2. A = {i \in 1 .. n : b.events[i].byte_offset # -1}
      BY <2>2 DEF Apart, Inline
    <3> HIDE DEF A, B
    <3>3. SUFFICES ASSUME NEW i \in 1 .. n + 1, r.events[i].byte_offset # -1
                   PROVE  (i \in A /\ i <= n) \/ (i = n + 1 /\ size > 4)
      BY <3>1
    <3>4. CASE i = n + 1
      <4>1. e.byte_offset # -1
        BY <2>4, <3>3, <3>4
      <4>2. QED
        BY <2>1, <3>4, <4>1
    <3>5. CASE i # n + 1
      <4>1. i \in 1 .. n
        BY <2>2, <3>5
      <4>2. r.events[i] = b.events[i]
        BY <2>4, <4>1
      <4>3. QED
        BY <2>2, <3>2, <3>3, <4>1, <4>2
    <3>6. QED
      BY <3>4, <3>5
  <2>7. /\ InfoSize = 20 /\ HeaderSize = 8
        /\ free = BufferSize - (20 + l + (n + 1) * 8)
    BY DEF InfoSize, HeaderSize
  <2>8. r.last_write_loc = IF size <= 4 THEN l ELSE l + size
    BY <1>2, <2>1
  <2>9. InfoSize + HeaderSize * Len(r.events) <= BufferSize
    <3> HIDE DEF free, n, l, e
    <3>1. QED
      BY <2>1, <2>2, <2>3, <2>4, <2>7
  <2> DEFINE at(i) == r.events[i].byte_offset
             sz(i) == r.events[i].size
  <2>10. \A i \in A : /\ at(i) = b.events[i].byte_offset /\ sz(i) = b.events[i].size
                      /\ at(i) \in Int /\ sz(i) \in Nat
    BY <2>2, <2>4, <2>5
  <2>11. size > 4 => at(n + 1) = BufferSize - 1 - (l + size) /\ sz(n + 1) = size
    BY <2>1, <2>2, <2>4
  <2>12. /\ \A i \in A : /\ 20 <= at(i) /\ BufferSize - 1 - l <= at(i)
                         /\ at(i) + sz(i) <= BufferSize
         /\ \A i, j \in A : i < j => at(j) + sz(j) <= at(i)
    <3>1. \A i \in A : /\ 20 <= b.events[i].byte_offset
                       /\ BufferSize - 1 - l <= b.events[i].byte_offset
                       /\ b.events[i].byte_offset + b.events[i].size <= BufferSize
      BY <2>5, <2>7
    <3> HIDE DEF at, sz, A, l
    <3>2. QED
      BY <2>5, <2>10, <3>1
  <2> HIDE DEF at, sz, A, B, l, n, free, e
  <2>13. \A i \in B : /\ 20 <= at(i)
                      /\ BufferSize - 1 - r.last_write_loc <= at(i)
                      /\ at(i) + sz(i) <= BufferSize
    <3> SUFFICES ASSUME NEW i \in B
                 PROVE  /\ 20 <= at(i)
                        /\ BufferSize - 1 - r.last_write_loc <= at(i)
                        /\ at(i) + sz(i) <= BufferSize
      OBVIOUS
    <3>1. CASE i \in A
      BY <2>1, <2>2, <2>8, <2>10, <2>12, <3>1
    <3>2. CASE i = n + 1 /\ size > 4
      BY <2>1, <2>2, <2>3, <2>7, <2>8, <2>11, <3>2
    <3>3. QED
      BY <2>6, <3>1, <3>2
  <2>14. \A i, j \in B : i < j => at(j) + sz(j) <= at(i)
    <3> SUFFICES ASSUME NEW i \in B, NEW j \in B, i < j PROVE at(j) + sz(j) <= at(i)
      OBVIOUS
    <3>1. A \subseteq 1 .. n /\ n \in Nat
      BY <2>2, <2>5
    <3>2. j \in Int /\ j <= n + 1
      <4>1. j \in A => j \in 1 .. n
        BY <3>1
      <4>2. j \in A \/ j = n + 1
        BY <2>6
      <4>3. QED
        BY <3>1, <4>1, <4>2
    <3>3. i \in A
      <4> SUFFICES ASSUME i = n + 1 PROVE FALSE
        BY <2>6
      <4>1. QED
        BY <3>1, <3>2
    <3>4. CASE j \in A
      BY <2>12, <3>3, <3>4
    <3>5. CASE j = n + 1 /\ size > 4
      BY <2>1, <2>2, <2>10, <2>11, <2>12, <3>3, <3>5
    <3>6. QED
      BY <2>6, <3>4, <3>5
  <2>15. QED
    BY <2>7, <2>9, <2>13, <2>14 DEF DataLies, at, sz, B
<1>3. QED
  BY <1>1, <1>2 DEF Reserved

\* Nothing overlaps then.
LEMMA LyingIsApart ==
    ASSUME NEW b \in Buffers, DataLies(b), NEW i \in Apart(b)
    PROVE  /\ DataOf(b.events[i]) \subseteq InfoSize .. BufferSize - 1
           /\ \A j \in Apart(b) \ {i} : DataOf(b.events[i]) \cap DataOf(b.events[j]) = {}
<1> DEFINE at(k) == b.events[k].byte_offset
           sz(k) == b.events[k].size
<1>1. \A k \in Apart(b) : /\ k \in Int /\ at(k) \in Int /\ sz(k) \in Nat
                          /\ DataOf(b.events[k]) = at(k) .. at(k) + sz(k) - 1
  BY EventFields DEF Apart, DataOf
<1>2. \A k \in Apart(b) : 20 <= at(k) /\ at(k) + sz(k) <= BufferSize
  BY DEF DataLies, InfoSize
<1>3. \A k, j \in Apart(b) : k < j => at(j) + sz(j) <= at(k)
  BY DEF DataLies
<1>4. BufferSize \in Nat
  BY MidiAssumption
<1> HIDE DEF at, sz
<1>5. DataOf(b.events[i]) \subseteq InfoSize .. BufferSize - 1
  BY <1>1, <1>2, <1>4 DEF InfoSize
<1>6. ASSUME NEW j \in Apart(b), j # i
      PROVE  DataOf(b.events[i]) \cap DataOf(b.events[j]) = {}
  <2>1. at(i) + sz(i) <= at(j) \/ at(j) + sz(j) <= at(i)
    BY <1>1, <1>3, <1>6
  <2>2. QED
    BY <1>1, <2>1
<1>7. QED
  BY <1>5, <1>6

------------------------------------------------------------------------------
(* Counting events.                                                           *)

LEMMA EachIs ==
    ASSUME NEW c \in [Sources -> Nat]
    PROVE  /\ EachOf(c) = {x \in Sources \X Nat : x[2] \in 1 .. c[x[1]]}
           /\ IsFiniteSet(EachOf(c))
<1> DEFINE Row(s) == {<<s, n>> : n \in 1 .. c[s]}
           f == [s \in Sources |-> Row(s)]
           Rows == {Row(s) : s \in Sources}
<1>1. EachOf(c) = {x \in Sources \X Nat : x[2] \in 1 .. c[x[1]]}
  BY DEF EachOf
<1>2. IsFiniteSet(Rows)
  <2>1. f \in Surjection(Sources, Rows)
    <3>1. f \in [Sources -> Rows] /\ \A s \in Sources : f[s] = Row(s)
      OBVIOUS
    <3>2. \A T \in Rows : \E s \in Sources : f[s] = T
      <4> SUFFICES ASSUME NEW T \in Rows PROVE \E s \in Sources : f[s] = T
        OBVIOUS
      <4>1. PICK s \in Sources : T = Row(s)
        OBVIOUS
      <4> HIDE DEF f, Row
      <4>2. QED
        BY <3>1, <4>1
    <3> HIDE DEF f, Rows
    <3>3. QED
      BY <3>1, <3>2 DEF Surjection
  <2>2. QED
    BY <2>1, FS_Surjection, MidiAssumption
<1>3. ASSUME NEW T \in Rows PROVE IsFiniteSet(T)
  <2>1. PICK s \in Sources : T = Row(s)
    OBVIOUS
  <2>2. IsFiniteSet(Sources) /\ IsFiniteSet(1 .. c[s])
    BY FS_Interval, MidiAssumption
  <2>3. IsFiniteSet(Sources \X (1 .. c[s]))
    BY <2>2, FS_Product
  <2>4. T \subseteq Sources \X (1 .. c[s])
    BY <2>1
  <2>5. QED
    BY <2>3, <2>4, FS_Subset
<1>4. IsFiniteSet(UNION Rows)
  BY <1>2, <1>3, FS_UNION
<1>5. QED
  BY <1>1, <1>4 DEF EachOf

\* One more of one source is one element more.
LEMMA EachGrows ==
    ASSUME NEW c \in [Sources -> Nat], NEW s \in Sources
    PROVE  LET d == [c EXCEPT ![s] = @ + 1]
           IN  /\ d \in [Sources -> Nat]
               /\ EachOf(d) = EachOf(c) \cup {<<s, c[s] + 1>>}
               /\ Cardinality(EachOf(d)) = Cardinality(EachOf(c)) + 1
<1> DEFINE d == [c EXCEPT ![s] = @ + 1]
           x == <<s, c[s] + 1>>
<1>1. d \in [Sources -> Nat] /\ d[s] = c[s] + 1 /\ c[s] \in Nat
      /\ \A z \in Sources : z # s => d[z] = c[z]
  OBVIOUS
<1>2. x \in Sources \X Nat /\ x[1] = s /\ x[2] = c[s] + 1
  OBVIOUS
<1> HIDE DEF d
<1>3. x \notin EachOf(c)
  BY <1>1, <1>2, EachIs
<1>4. EachOf(d) = EachOf(c) \cup {x}
  <2>1. ASSUME NEW y \in Sources \X Nat
        PROVE  y[2] \in 1 .. d[y[1]] <=> (y[2] \in 1 .. c[y[1]] \/ y = x)
    <3>1. y = <<y[1], y[2]>> /\ y[1] \in Sources /\ y[2] \in Nat /\ c[y[1]] \in Nat
      OBVIOUS
    <3>2. CASE y[1] = s
      BY <1>1, <3>1, <3>2
    <3>3. CASE y[1] # s
      BY <1>1, <3>1, <3>3
    <3>4. QED
      BY <3>2, <3>3
  <2>2. EachOf(d) = {y \in Sources \X Nat : y[2] \in 1 .. d[y[1]]}
    BY <1>1, EachIs
  <2>3. EachOf(c) = {y \in Sources \X Nat : y[2] \in 1 .. c[y[1]]}
    BY EachIs
  <2> HIDE DEF x
  <2>4. QED
    BY <1>2, <2>1, <2>2, <2>3
<1>5. Cardinality(EachOf(d)) = Cardinality(EachOf(c)) + 1
  BY <1>3, <1>4, EachIs, FS_AddElement
<1>6. QED
  BY <1>1, <1>4, <1>5 DEF d

\* The buffers are in order.
MidiTyped == midi \in [Sources -> Buffers] /\ \A s \in Sources : InOrder(midi[s])

Counts == [s \in Sources |-> Len(midi[s].events)]

LEMMA AllAre ==
    ASSUME MidiTyped
    PROVE  /\ Counts \in [Sources -> Nat] /\ NumEvents \in Nat /\ IsFiniteSet(AllEvents)
           /\ \A s \in Sources : Counts[s] = Len(midi[s].events)
           /\ AllEvents = {x \in Sources \X Nat : x[2] \in 1 .. Len(midi[x[1]].events)}
           /\ \A x \in AllEvents : EventAt(x).time \in Nat /\ EventAt(x).from \in Sources \X Nat
<1>1. Counts \in [Sources -> Nat] /\ \A s \in Sources : Counts[s] = Len(midi[s].events)
  BY EventFields DEF MidiTyped, Counts
<1>2. AllEvents = EachOf(Counts)
  BY DEF AllEvents, Counts
<1>3. AllEvents = {x \in Sources \X Nat : x[2] \in 1 .. Len(midi[x[1]].events)}
      /\ IsFiniteSet(AllEvents)
  BY <1>1, <1>2, EachIs
<1>4. NumEvents \in Nat
  BY <1>3, FS_CardinalityType DEF NumEvents
<1>5. ASSUME NEW x \in AllEvents
      PROVE  EventAt(x).time \in Nat /\ EventAt(x).from \in Sources \X Nat
  <2>1. x[1] \in Sources /\ x[2] \in 1 .. Len(midi[x[1]].events)
    BY <1>3
  <2>2. EventAt(x) \in Events
    BY <2>1, EventFields DEF MidiTyped, EventAt
  <2>3. QED
    BY <2>2, MidiAssumption DEF Events
<1>6. QED
  BY <1>1, <1>3, <1>4, <1>5

\* The order of mixing is one of all events.
LEMMA BeforeIsOrder ==
    ASSUME MidiTyped, NEW x \in AllEvents, NEW y \in AllEvents, x # y
    PROVE  Before(x, y) <=> ~Before(y, x)
<1>1. /\ x = <<x[1], x[2]>> /\ y = <<y[1], y[2]>> /\ {x[1], x[2], y[1], y[2]} \subseteq Nat
      /\ EventAt(x).time \in Nat /\ EventAt(y).time \in Nat
  BY AllAre, MidiAssumption
<1>2. QED
  BY <1>1 DEF Before

------------------------------------------------------------------------------
(* The mix-down.                                                              *)

Waiting(read) == {s \in Sources : read[s] < Len(midi[s].events)}
NextTime(read, s) == midi[s].events[read[s] + 1].time

\* The event that is next, or the first of those that are, is found.
LEMMA EarliestIs ==
    ASSUME MidiTyped, NEW read \in [Sources -> Nat], Waiting(read) # {}
    PROVE  /\ Earliest(read) \in Waiting(read)
           /\ \A z \in Waiting(read) :
                LET s == Earliest(read)
                IN  \/ NextTime(read, s) < NextTime(read, z)
                    \/ NextTime(read, s) = NextTime(read, z) /\ s <= z
<1> DEFINE W == Waiting(read)
           time(s) == NextTime(read, s)
           Wins(s) == \A z \in W : time(s) < time(z) \/ (time(s) = time(z) /\ s <= z)
<1>1. W \subseteq Sources /\ Sources \subseteq Nat /\ \A s \in W : time(s) \in Nat
  <2>1. W \subseteq Sources /\ Sources \subseteq Nat
    BY MidiAssumption DEF Waiting
  <2>2. ASSUME NEW s \in W PROVE time(s) \in Nat
    <3>1. midi[s] \in Buffers /\ read[s] + 1 \in 1 .. Len(midi[s].events)
      <4>1. midi[s] \in Buffers
        BY <2>1 DEF MidiTyped
      <4>2. read[s] \in Nat /\ Len(midi[s].events) \in Nat
        BY <2>1, <4>1, EventFields
      <4>3. QED
        BY <4>1, <4>2 DEF Waiting
    <3>2. QED
      BY <3>1, EventFields DEF NextTime
  <2>3. QED
    BY <2>1, <2>2
<1>2. \E s \in W : Wins(s)
  <2> DEFINE T == {time(s) : s \in W}
  <2> HIDE DEF W, time
  <2>1. PICK t \in T : \A u \in T : t <= u
    <3>1. T \in SUBSET Nat /\ T # {}
      BY <1>1 DEF W
    <3> HIDE DEF T
    <3>2. QED
      BY <3>1, LeastExists
  <2> DEFINE F == {s \in W : time(s) = t}
  <2>2. PICK s \in F : \A z \in F : s <= z
    <3>1. F \in SUBSET Nat /\ F # {}
      BY <1>1, <2>1
    <3> HIDE DEF F
    <3>2. QED
      BY <3>1, LeastExists
  <2>3. \A z \in W : t <= time(z) /\ time(z) \in Nat /\ z \in Nat
    BY <1>1, <2>1
  <2>4. s \in W /\ time(s) = t /\ \A z \in W : time(z) = t => s <= z
    BY <2>2
  <2>5. QED
    BY <1>1, <2>3, <2>4
<1>3. Earliest(read) = CHOOSE s \in W : Wins(s)
  <2> DEFINE next == [s \in W |-> midi[s].events[read[s] + 1].time]
  <2>1. Earliest(read) = CHOOSE s \in W : \A z \in W :
                           next[s] < next[z] \/ (next[s] = next[z] /\ s <= z)
    BY Zenon DEF Earliest, Waiting
  <2>2. \A s \in W : next[s] = time(s)
    BY DEF NextTime
  <2> HIDE DEF next, W, time
  <2>3. \A s \in W : Wins(s) <=> \A z \in W : next[s] < next[z] \/ (next[s] = next[z] /\ s <= z)
    BY <2>2
  <2>4. QED
    BY <2>1, <2>3, Zenon
<1> HIDE DEF W, time
<1>4. Earliest(read) \in W /\ Wins(Earliest(read))
  <2> HIDE DEF Wins
  <2>1. QED
    BY <1>2, <1>3, Zenon
<1>5. QED
  BY <1>4, Zenon DEF W, time

\* What the loop keeps: what was read of each source is the first of all that
\* are to be mixed, and all of it is mixed, unless the last one did not fit.
MixKept(st, i) ==
    /\ st.read \in [Sources -> Nat] /\ \A s \in Sources : st.read[s] <= Len(midi[s].events)
    /\ st.out \in Buffers /\ InOrder(st.out) /\ st.full \in BOOLEAN
    /\ ~st.full => /\ Len(st.out.events) = i /\ Cardinality(EachOf(st.read)) = i
                   /\ st.out.events_lost = 0
    /\ st.full => /\ Len(st.out.events) < NumEvents
                  /\ Cardinality(EachOf(st.read)) >= Len(st.out.events)
                  /\ st.out.events_lost = NumEvents - Len(st.out.events)
    /\ \A x \in EachOf(st.read), y \in AllEvents : Before(y, x) => y \in EachOf(st.read)
    /\ \A x \in EachOf(st.read) :
         Rank(x) <= Len(st.out.events) => st.out.events[Rank(x)].from = EventAt(x).from

\* What was read is among all events, and as many as are before the next one.
LEMMA ReadIs ==
    ASSUME MidiTyped, NEW st, NEW i \in Nat, MixKept(st, i)
    PROVE  /\ EachOf(st.read) = {x \in Sources \X Nat : x[2] \in 1 .. st.read[x[1]]}
           /\ EachOf(st.read) \subseteq AllEvents
           /\ IsFiniteSet(EachOf(st.read)) /\ Cardinality(EachOf(st.read)) \in Nat
<1>1. st.read \in [Sources -> Nat] /\ \A s \in Sources : st.read[s] <= Len(midi[s].events)
  BY DEF MixKept
<1>2. /\ EachOf(st.read) = {x \in Sources \X Nat : x[2] \in 1 .. st.read[x[1]]}
      /\ IsFiniteSet(EachOf(st.read)) /\ Cardinality(EachOf(st.read)) \in Nat
  BY <1>1, EachIs, FS_CardinalityType
<1>3. \A s \in Sources : Len(midi[s].events) \in Nat /\ st.read[s] \in Nat
  BY <1>1, EventFields DEF MidiTyped
<1>4. AllEvents = {x \in Sources \X Nat : x[2] \in 1 .. Len(midi[x[1]].events)}
  BY AllAre
<1>5. QED
  BY <1>1, <1>2, <1>3, <1>4

\* The rank of an event that was read is at most the number of those read.
LEMMA ReadRanks ==
    ASSUME MidiTyped, NEW st, NEW i \in Nat, MixKept(st, i), NEW x \in EachOf(st.read)
    PROVE  Rank(x) \in Nat /\ 1 <= Rank(x) /\ Rank(x) <= Cardinality(EachOf(st.read))
<1> DEFINE R == EachOf(st.read)
           B == {y \in AllEvents : Before(y, x)}
<1>1. IsFiniteSet(R) /\ Cardinality(R) \in Nat /\ R \subseteq AllEvents
  BY ReadIs
<1>2. B \subseteq R \ {x}
  <2>1. B \subseteq R
    BY DEF MixKept
  <2>2. ~Before(x, x)
    <3>1. EventAt(x).time \in Nat /\ x[1] \in Nat /\ x[2] \in Nat
      BY <1>1, AllAre, MidiAssumption
    <3>2. QED
      BY <3>1 DEF Before
  <2>3. QED
    BY <2>1, <2>2
<1>3. IsFiniteSet(R \ {x}) /\ Cardinality(R \ {x}) = Cardinality(R) - 1
  BY <1>1, FS_RemoveElement
<1>4. IsFiniteSet(B) /\ Cardinality(B) <= Cardinality(R \ {x}) /\ Cardinality(B) \in Nat
  BY <1>2, <1>3, FS_Subset, FS_CardinalityType
<1>5. Rank(x) = Cardinality(B) + 1
  BY DEF Rank
<1> HIDE DEF R, B
<1>6. Cardinality(B) + 1 <= Cardinality(R) /\ Cardinality(B) \in Nat
  BY <1>1, <1>3, <1>4
<1>7. QED
  BY <1>5, <1>6 DEF R

\* The event taken next: all that are before it were read, and nothing else.
LEMMA NextIs ==
    ASSUME MidiTyped, NEW st, NEW i \in Nat, MixKept(st, i), ~st.full, i < NumEvents
    PROVE  LET s == Earliest(st.read)
               x == <<s, st.read[s] + 1>>
           IN  /\ s \in Sources /\ st.read[s] < Len(midi[s].events)
               /\ x \in AllEvents /\ EventAt(x) = midi[s].events[st.read[s] + 1]
               /\ {y \in AllEvents : Before(y, x)} = EachOf(st.read)
               /\ Rank(x) = i + 1
<1> DEFINE s == Earliest(st.read)
           x == <<s, st.read[s] + 1>>
           R == EachOf(st.read)
<1>1. st.read \in [Sources -> Nat] /\ Cardinality(R) = i /\ R \subseteq AllEvents
  BY ReadIs DEF MixKept
<1>2. \A y \in R : y \in Sources \X Nat /\ y[2] \in 1 .. st.read[y[1]]
  BY ReadIs
<1>3. \A y \in AllEvents : /\ y \in Sources \X Nat /\ y[2] \in 1 .. Len(midi[y[1]].events)
                           /\ EventAt(y).time \in Nat
  BY AllAre
<1>4. \A z \in Sources : st.read[z] \in Nat /\ Len(midi[z].events) \in Nat
                         /\ midi[z] \in Buffers /\ InOrder(midi[z]) /\ z \in Nat
  BY <1>1, EventFields, MidiAssumption DEF MidiTyped
<1>5. \A y \in AllEvents \ R : y[1] \in Waiting(st.read) /\ st.read[y[1]] + 1 <= y[2]
  <2> SUFFICES ASSUME NEW y \in AllEvents, y \notin R
               PROVE  y[1] \in Waiting(st.read) /\ st.read[y[1]] + 1 <= y[2]
    OBVIOUS
  <2>1. y \in Sources \X Nat /\ y[2] \in 1 .. Len(midi[y[1]].events)
    BY <1>3
  <2>2. R = {z \in Sources \X Nat : z[2] \in 1 .. st.read[z[1]]}
    BY ReadIs
  <2>3. y[1] \in Sources /\ y[2] \in Nat /\ ~(y[2] \in 1 .. st.read[y[1]])
    <3> HIDE DEF R
    <3>1. QED
      BY <2>1, <2>2
  <2>4. QED
    BY <1>4, <2>1, <2>3 DEF Waiting
<1>6. Waiting(st.read) # {}
  <2> SUFFICES ASSUME Waiting(st.read) = {} PROVE FALSE
    OBVIOUS
  <2>1. AllEvents = R
    BY <1>1, <1>5
  <2>2. QED
    BY <1>1, <2>1 DEF NumEvents
<1>7. /\ s \in Waiting(st.read)
      /\ \A z \in Waiting(st.read) :
           \/ NextTime(st.read, s) < NextTime(st.read, z)
           \/ NextTime(st.read, s) = NextTime(st.read, z) /\ s <= z
  BY <1>1, <1>6, EarliestIs
<1>8. /\ s \in Sources /\ s \in Nat /\ st.read[s] \in Nat
      /\ st.read[s] < Len(midi[s].events) /\ Len(midi[s].events) \in Nat
  BY <1>4, <1>7 DEF Waiting
<1>9. x \in AllEvents /\ x \notin R /\ x[1] = s /\ x[2] = st.read[s] + 1
  <2>1. x \in Sources \X Nat /\ x[1] = s /\ x[2] = st.read[s] + 1
    BY <1>8
  <2>2. x[2] \in 1 .. Len(midi[x[1]].events) /\ ~(x[2] \in 1 .. st.read[x[1]])
    BY <1>8, <2>1
  <2>3. AllEvents = {z \in Sources \X Nat : z[2] \in 1 .. Len(midi[z[1]].events)}
    BY AllAre
  <2>4. R = {z \in Sources \X Nat : z[2] \in 1 .. st.read[z[1]]}
    BY ReadIs
  <2> HIDE DEF x, R
  <2>5. QED
    BY <2>1, <2>2, <2>3, <2>4
<1>10. EventAt(x) = midi[s].events[st.read[s] + 1] /\ EventAt(x).time = NextTime(st.read, s)
  BY <1>9 DEF EventAt, NextTime
<1> HIDE DEF s, x, R
<1>11. ASSUME NEW y \in AllEvents, Before(y, x) PROVE y \in R
  <2> SUFFICES ASSUME y \notin R PROVE FALSE
    OBVIOUS
  <2> DEFINE z == y[1]
             k == st.read[z] + 1
  <2>1. z \in Waiting(st.read) /\ k <= y[2] /\ z \in Sources
    BY <1>3, <1>5
  <2>2. k \in 1 .. Len(midi[z].events) /\ y[2] \in 1 .. Len(midi[z].events)
    BY <1>3, <1>4, <2>1 DEF Waiting
  <2>3. NextTime(st.read, z) <= EventAt(y).time /\ NextTime(st.read, z) \in Nat
    <3>1. midi[z] \in Buffers /\ InOrder(midi[z])
      BY <1>4, <2>1
    <3>2. DOMAIN midi[z].events = 1 .. Len(midi[z].events)
          /\ midi[z].events[k].time \in Nat
      BY <2>2, <3>1, EventFields
    <3> HIDE DEF z, k
    <3>3. midi[z].events[k].time <= midi[z].events[y[2]].time
      <4>1. CASE k = y[2]
        BY <3>2, <4>1
      <4>2. CASE k < y[2]
        BY <2>2, <3>1, <3>2, <4>2 DEF InOrder
      <4>3. QED
        BY <2>1, <2>2, <4>1, <4>2
    <3>4. QED
      BY <3>2, <3>3 DEF NextTime, EventAt, z, k
  <2>4. \/ NextTime(st.read, s) < NextTime(st.read, z)
        \/ NextTime(st.read, s) = NextTime(st.read, z) /\ s <= z
    BY <1>7, <2>1
  <2>5. /\ EventAt(y).time <= EventAt(x).time
        /\ EventAt(y).time = EventAt(x).time =>
             z < s \/ (z = s /\ y[2] < st.read[s] + 1)
    BY <1>3, <1>9, <1>11 DEF Before
  <2>6. z = s => k = st.read[s] + 1
    OBVIOUS
  <2>7. EventAt(y).time \in Nat /\ EventAt(x).time \in Nat /\ z \in Nat /\ k \in Nat /\ y[2] \in Nat
    BY <1>3, <1>4, <1>9, <2>1
  <2> HIDE DEF z, k
  <2>8. QED
    BY <1>8, <1>10, <2>1, <2>3, <2>4, <2>5, <2>6, <2>7
<1>12. ASSUME NEW y \in R PROVE y \in AllEvents /\ Before(y, x)
  <2>1. y \in AllEvents /\ y # x
    BY <1>1, <1>9
  <2>2. ~Before(x, y)
    BY <1>9 DEF MixKept, R
  <2>3. QED
    BY <1>9, <2>1, <2>2, BeforeIsOrder
<1>13. {y \in AllEvents : Before(y, x)} = R
  BY <1>11, <1>12
<1>14. Rank(x) = i + 1
  BY <1>1, <1>13 DEF Rank
<1>15. QED
  BY <1>8, <1>9, <1>10, <1>13, <1>14 DEF s, x, R

LEMMA MixStep ==
    ASSUME MidiTyped, NEW st, NEW i \in Nat, MixKept(st, i), i < NumEvents
    PROVE  MixKept(MixOne(st, i + 1), i + 1)
<1>1. CASE st.full
  <2>1. MixOne(st, i + 1) = st
    BY <1>1, Zenon DEF MixOne
  <2>2. MixKept(st, i + 1)
    BY <1>1 DEF MixKept
  <2>3. QED
    BY <2>1, <2>2, Zenon
<1>2. CASE ~st.full
  <2> DEFINE s == Earliest(st.read)
             x == <<s, st.read[s] + 1>>
             e == midi[s].events[st.read[s] + 1]
             out == jack_midi_event_reserve(st.out, e.time, e.size, e.from)
             fits == Len(out.events) > Len(st.out.events)
             lost == NumEvents - (i + 1) + 1
             read == [st.read EXCEPT ![s] = @ + 1]
             last == IF fits THEN out ELSE [out EXCEPT !.events_lost = lost]
             t == MixOne(st, i + 1)
             R == EachOf(st.read)
  <2>1. t = [read |-> read, full |-> ~fits, out |-> last]
    BY <1>2, Zenon DEF MixOne
  <2>2. /\ s \in Sources /\ st.read[s] < Len(midi[s].events)
        /\ x \in AllEvents /\ EventAt(x) = e
        /\ {y \in AllEvents : Before(y, x)} = R
        /\ Rank(x) = i + 1
    BY <1>2, NextIs, Zenon
  <2>3. /\ st.read \in [Sources -> Nat] /\ \A z \in Sources : st.read[z] <= Len(midi[z].events)
        /\ st.out \in Buffers /\ InOrder(st.out)
        /\ Len(st.out.events) = i /\ Cardinality(R) = i /\ st.out.events_lost = 0
        /\ \A a \in R, y \in AllEvents : Before(y, a) => y \in R
        /\ \A a \in R : Rank(a) <= i => st.out.events[Rank(a)].from = EventAt(a).from
    BY <1>2 DEF MixKept
  <2>4. e \in Events /\ e.time \in EventTimes /\ e.size \in DataSizes /\ e.from \in Sources \X Nat
    <3>1. midi[s] \in Buffers /\ st.read[s] + 1 \in DOMAIN midi[s].events
      <4>1. midi[s] \in Buffers /\ st.read[s] \in Nat
        BY <2>2, <2>3 DEF MidiTyped
      <4>2. Len(midi[s].events) \in Nat /\ DOMAIN midi[s].events = 1 .. Len(midi[s].events)
        BY <4>1, EventFields
      <4> HIDE DEF s
      <4>3. QED
        BY <2>2, <4>1, <4>2
    <3>2. e \in Events
      BY <3>1, EventFields
    <3> HIDE DEF e
    <3>3. QED
      BY <3>2 DEF Events
  <2>5. out \in Buffers /\ InOrder(out) /\ Reserved(st.out, out, e.time, e.size, e.from)
    <3>1. out \in Buffers /\ Reserved(st.out, out, e.time, e.size, e.from)
      BY <2>3, <2>4, ReservedIs, Zenon
    <3> HIDE DEF out, e
    <3>2. QED
      BY <2>3, <2>4, <3>1, ReserveOrders
  <2>6. /\ read \in [Sources -> Nat]
        /\ EachOf(read) = R \cup {x} /\ Cardinality(EachOf(read)) = i + 1
        /\ \A z \in Sources : read[z] <= Len(midi[z].events)
    <3>1. /\ read \in [Sources -> Nat]
          /\ EachOf(read) = R \cup {x} /\ Cardinality(EachOf(read)) = Cardinality(R) + 1
      BY <2>2, <2>3, EachGrows
    <3>2. ASSUME NEW z \in Sources PROVE read[z] <= Len(midi[z].events)
      <4>1. Len(midi[z].events) \in Nat /\ st.read[z] \in Nat
        BY <2>3, EventFields DEF MidiTyped
      <4>2. CASE z = s
        BY <2>2, <2>3, <4>1, <4>2
      <4>3. CASE z # s
        BY <2>3, <4>3
      <4>4. QED
        BY <4>2, <4>3
    <3>3. QED
      BY <2>3, <3>1, <3>2
  <2>7. t.read = read /\ t.full = ~fits /\ t.out = last
    <3> HIDE DEF read, fits, last, t
    <3>1. QED
      BY <2>1
  <2>8. NumEvents \in Nat /\ i + 1 <= NumEvents
    BY AllAre
  <2> HIDE DEF t, read, s, x, R
  <2>9. \A a \in EachOf(t.read), y \in AllEvents : Before(y, a) => y \in EachOf(t.read)
    BY <2>2, <2>3, <2>6, <2>7
  <2>10. \A a \in R : Rank(a) \in Nat /\ 1 <= Rank(a) /\ Rank(a) <= i
    <3>1. \A a \in EachOf(st.read) : Rank(a) \in Nat /\ 1 <= Rank(a)
                                     /\ Rank(a) <= Cardinality(EachOf(st.read))
      BY ReadRanks
    <3>2. QED
      BY <2>3, <3>1 DEF R
  <2>11. st.out.events \in Seq(Events) /\ Len(out.events) \in Nat
    BY <2>3, <2>5, EventFields
  <2>12. CASE out.events = Append(st.out.events, NewEvent(st.out, e.time, e.size, e.from))
              /\ out.events_lost = st.out.events_lost
    <3> DEFINE f == NewEvent(st.out, e.time, e.size, e.from)
    <3>1. f \in Events /\ f.from = e.from
      <4>1. st.out \in Buffers
        BY <2>3
      <4>2. e.time \in EventTimes /\ e.size \in DataSizes /\ e.from \in Sources \X Nat
        BY <2>4
      <4> HIDE DEF e, out, s, fits, last, read, x, R, t, lost
      <4>3. QED
        BY <4>1, <4>2, NewEventType
    <3> HIDE DEF f
    <3>2. /\ Len(out.events) = i + 1 /\ out.events[i + 1] = f
          /\ \A k \in 1 .. i : out.events[k] = st.out.events[k]
      <4>1. out.events = Append(st.out.events, f)
        BY <2>12 DEF f
      <4> HIDE DEF out, e
      <4>2. QED
        BY <2>3, <2>11, <3>1, <4>1
    <3>3. fits /\ last = out
      <4> HIDE DEF out
      <4>1. fits
        BY <2>3, <3>2
      <4> HIDE DEF fits
      <4>2. QED
        BY <4>1
    <3> HIDE DEF out, fits, last, e
    <3>4. \A a \in EachOf(t.read) :
             Rank(a) <= Len(t.out.events) => t.out.events[Rank(a)].from = EventAt(a).from
      <4> SUFFICES ASSUME NEW a \in EachOf(t.read)
                   PROVE  out.events[Rank(a)].from = EventAt(a).from
        BY <2>7, <3>3
      <4>1. CASE a = x
        <5>1. Rank(a) = i + 1 /\ EventAt(a) = e
          BY <2>2, <4>1
        <5>2. QED
          BY <3>1, <3>2, <5>1
      <4>2. CASE a \in R
        <5>1. Rank(a) \in 1 .. i /\ st.out.events[Rank(a)].from = EventAt(a).from
          BY <2>3, <2>10, <4>2
        <5>2. QED
          BY <3>2, <5>1
      <4>3. QED
        BY <2>6, <2>7, <4>1, <4>2
    <3>5. ~t.full /\ t.out = out /\ t.full \in BOOLEAN /\ t.read = read
      BY <2>7, <3>3
    <3>6. MixKept(t, i + 1)
      BY <2>3, <2>5, <2>6, <2>9, <2>12, <3>2, <3>4, <3>5 DEF MixKept
    <3>7. QED
      BY <3>6 DEF t
  <2>13. CASE out.events = st.out.events
    <3>1. ~fits /\ last = [out EXCEPT !.events_lost = lost]
      <4> HIDE DEF out, lost
      <4>1. ~fits
        BY <2>11, <2>13
      <4> HIDE DEF fits
      <4>2. QED
        BY <4>1
    <3>2. lost \in Nat /\ lost = NumEvents - i
      BY <2>8
    <3> HIDE DEF lost, out, fits, last, e
    <3>3. last \in Buffers /\ last.events = out.events /\ last.events_lost = lost
      BY <2>5, <3>1, <3>2 DEF Buffers
    <3>4. InOrder(last)
      BY <2>5, <3>3 DEF InOrder
    <3>5. t.full = TRUE /\ t.out = last /\ t.full \in BOOLEAN /\ t.read = read
          /\ Len(t.out.events) = i
      BY <2>3, <2>7, <2>13, <3>1, <3>3
    <3>6. \A a \in EachOf(t.read) :
             Rank(a) <= Len(t.out.events) => t.out.events[Rank(a)].from = EventAt(a).from
      <4> SUFFICES ASSUME NEW a \in EachOf(t.read), Rank(a) <= i
                   PROVE  st.out.events[Rank(a)].from = EventAt(a).from
        BY <2>13, <3>3, <3>5
      <4>1. a # x
        BY <2>2
      <4>2. QED
        BY <2>3, <2>6, <2>7, <4>1
    <3>7. MixKept(t, i + 1)
      <4>1. Len(t.out.events) < NumEvents /\ Cardinality(EachOf(t.read)) >= Len(t.out.events)
            /\ t.out.events_lost = NumEvents - Len(t.out.events)
        <5>1. t.out.events_lost = NumEvents - i /\ Len(t.out.events) = i
          BY <3>2, <3>3, <3>5
        <5>2. Cardinality(EachOf(t.read)) = i + 1
          BY <2>6, <2>7
        <5>3. QED
          BY <2>8, <5>1, <5>2
      <4>2. QED
        BY <2>6, <2>7, <2>9, <3>3, <3>4, <3>5, <3>6, <4>1 DEF MixKept
    <3>8. QED
      BY <3>7 DEF t
  <2>14. QED
    BY <2>5, <2>12, <2>13 DEF Reserved
<1>3. QED
  BY <1>1, <1>2 DEF MixKept

\* The loop of jack_midi_port_mixdown.
MixStart == [read |-> [s \in Sources |-> 0], full |-> FALSE, out |-> EmptyBuffer]
MixTurn(i, st) == IF i = 0 THEN MixStart ELSE MixOne(st, i)
Mixing(n, f) == f = [i \in 0 .. n |-> MixTurn(i, f[i - 1])]

\* The loop exists up to every turn.
LEMMA MixingExists ==
    ASSUME NEW n \in Nat
    PROVE  \E f : Mixing(n, f)
<1> DEFINE bad == {m \in Nat : ~ \E f : Mixing(m, f)}
<1>1. SUFFICES ASSUME bad # {} PROVE FALSE
  OBVIOUS
<1>2. PICK m \in bad : \A k \in bad : m <= k
  <2>1. bad \in SUBSET Nat
    OBVIOUS
  <2> HIDE DEF bad
  <2>2. QED
    BY <1>1, <2>1, LeastExists
<1>3. CASE m = 0
  <2> DEFINE f == [i \in 0 .. 0 |-> MixTurn(0, 0)]
  <2>1. Mixing(0, f)
    BY DEF Mixing, MixTurn
  <2>2. QED
    BY <1>3, <2>1
<1>4. CASE m # 0
  <2>1. m \in Nat /\ m - 1 \in Nat /\ m - 1 \notin bad
    BY <1>2, <1>4
  <2>2. PICK f : Mixing(m - 1, f)
    BY <2>1
  <2> DEFINE h == [i \in 0 .. m |-> IF i < m THEN f[i] ELSE MixTurn(m, f[m - 1])]
  <2>3. ASSUME NEW i \in 0 .. m PROVE h[i] = MixTurn(i, h[i - 1])
    <3>1. CASE i = 0
      <4>1. f[0] = MixTurn(0, f[0 - 1])
        BY <2>1, <2>2 DEF Mixing
      <4>2. \A p, q : MixTurn(0, p) = MixTurn(0, q)
        BY Zenon DEF MixTurn
      <4>3. h[0] = f[0]
        BY <1>4, <2>1
      <4>4. h[0] = MixTurn(0, h[0 - 1])
        <5> HIDE DEF h
        <5>1. QED
          BY <4>1, <4>2, <4>3, Zenon
      <4>5. QED
        BY <3>1, <4>4, Zenon
    <3>2. CASE i # 0 /\ i < m
      <4>1. i \in 0 .. m - 1 /\ i - 1 \in 0 .. m - 1 /\ i - 1 < m
        BY <2>1, <3>2
      <4>2. f[i] = MixTurn(i, f[i - 1])
        BY <2>2, <4>1 DEF Mixing
      <4>3. QED
        BY <3>2, <4>1, <4>2
    <3>3. CASE i = m
      BY <1>4, <2>1, <3>3
    <3>4. i = 0 \/ (i # 0 /\ i < m) \/ i = m
      BY <2>1
    <3>5. QED
      BY <3>1, <3>2, <3>3, <3>4, Zenon
  <2>4. Mixing(m, h)
    <3>1. h = [i \in 0 .. m |-> h[i]]
      OBVIOUS
    <3> HIDE DEF h
    <3>2. QED
      BY <2>3, <3>1 DEF Mixing
  <2>5. QED
    BY <1>2, <2>4
<1>5. QED
  BY <1>3, <1>4

\* What jack_midi_port_mixdown returns: its loop's last turn.
LEMMA MixdownIs ==
    ASSUME MidiTyped
    PROVE  \E f : /\ Mixing(NumEvents, f)
                  /\ jack_midi_port_mixdown =
                       [out |-> [f[NumEvents].out EXCEPT
                                   !.events_lost = f[NumEvents].out.events_lost + LostEvents],
                        read |-> f[NumEvents].read]
<1> DEFINE mixed[i \in 0 .. NumEvents] ==
             IF i = 0
             THEN [read |-> [s \in Sources |-> 0], full |-> FALSE, out |-> EmptyBuffer]
             ELSE MixOne(mixed[i - 1], i)
<1>1. \E f : f = [i \in 0 .. NumEvents |->
               IF i = 0
               THEN [read |-> [s \in Sources |-> 0], full |-> FALSE, out |-> EmptyBuffer]
               ELSE MixOne(f[i - 1], i)]
  <2>1. \E f : Mixing(NumEvents, f)
    BY AllAre, MixingExists
  <2>2. QED
    BY <2>1 DEF Mixing, MixTurn, MixStart
<1>2. mixed = [i \in 0 .. NumEvents |->
               IF i = 0
               THEN [read |-> [s \in Sources |-> 0], full |-> FALSE, out |-> EmptyBuffer]
               ELSE MixOne(mixed[i - 1], i)]
  BY <1>1, Zenon
<1>3. jack_midi_port_mixdown =
        [out |-> [mixed[NumEvents].out EXCEPT
                    !.events_lost = mixed[NumEvents].out.events_lost + LostEvents],
         read |-> mixed[NumEvents].read]
  BY Zenon DEF jack_midi_port_mixdown
<1> HIDE DEF mixed
<1>4. Mixing(NumEvents, mixed)
  BY <1>2 DEF Mixing, MixTurn, MixStart
<1>5. QED
  BY <1>3, <1>4

LEMMA MixStarts == ASSUME MidiTyped PROVE MixKept(MixStart, 0)
<1> DEFINE zero == [s \in Sources |-> 0]
<1>1. /\ zero \in [Sources -> Nat] /\ \A s \in Sources : zero[s] = 0
      /\ \A s \in Sources : Len(midi[s].events) \in Nat
  BY EventFields DEF MidiTyped
<1>2. EachOf(zero) = {}
  <2>1. EachOf(zero) = {x \in Sources \X Nat : x[2] \in 1 .. zero[x[1]]}
    BY EachIs
  <2>2. \A x \in Sources \X Nat : ~(x[2] \in 1 .. zero[x[1]])
    OBVIOUS
  <2> HIDE DEF zero
  <2>3. QED
    BY <2>1, <2>2
<1>3. EmptyBuffer \in Buffers /\ InOrder(EmptyBuffer) /\ Len(EmptyBuffer.events) = 0
      /\ EmptyBuffer.events_lost = 0
  BY DEF EmptyBuffer, Buffers, InOrder
<1>4. MixStart.read = zero /\ MixStart.full = FALSE /\ MixStart.out = EmptyBuffer
  BY DEF MixStart
<1> HIDE DEF zero
<1>5. EachOf(MixStart.read) = {} /\ Cardinality(EachOf(MixStart.read)) = 0
  BY <1>2, <1>4, FS_EmptySet
<1>6. MixStart.read \in [Sources -> Nat]
      /\ \A s \in Sources : MixStart.read[s] <= Len(midi[s].events)
  BY <1>1, <1>4
<1>7. QED
  BY <1>3, <1>4, <1>5, <1>6 DEF MixKept

\* So the mix-down is a merge.
LEMMA MixdownKeeps ==
    ASSUME MidiTyped
    PROVE  /\ jack_midi_port_mixdown.read \in [Sources -> Nat]
           /\ jack_midi_port_mixdown.out \in Buffers /\ InOrder(jack_midi_port_mixdown.out)
           /\ LET mixed == jack_midi_port_mixdown.out.events
              IN  /\ \A x \in AllEvents :
                       Rank(x) <= Len(mixed) => mixed[Rank(x)].from = EventAt(x).from
                  /\ Len(mixed) <= NumEvents
                  /\ jack_midi_port_mixdown.out.events_lost
                       = NumEvents - Len(mixed) + LostEvents
<1>1. PICK f : /\ Mixing(NumEvents, f)
               /\ jack_midi_port_mixdown =
                    [out |-> [f[NumEvents].out EXCEPT
                                !.events_lost = f[NumEvents].out.events_lost + LostEvents],
                     read |-> f[NumEvents].read]
  BY MixdownIs
<1>2. NumEvents \in Nat /\ IsFiniteSet(AllEvents)
  BY AllAre
<1>3. \A i \in 0 .. NumEvents : MixKept(f[i], i)
  <2> DEFINE bad == {i \in 0 .. NumEvents : ~MixKept(f[i], i)}
  <2> SUFFICES ASSUME bad # {} PROVE FALSE
    OBVIOUS
  <2>1. PICK m \in bad : \A i \in bad : m <= i
    <3>1. bad \in SUBSET Nat
      BY <1>2
    <3> HIDE DEF bad
    <3>2. QED
      BY <3>1, LeastExists
  <2>2. m # 0
    <3>1. f[0] = MixStart
      BY <1>1, <1>2 DEF Mixing, MixTurn
    <3>2. QED
      BY <3>1, MixStarts
  <2>3. m - 1 \in Nat /\ m - 1 < NumEvents /\ m - 1 \in 0 .. NumEvents /\ MixKept(f[m - 1], m - 1)
    BY <1>2, <2>1, <2>2
  <2>4. f[m] = MixOne(f[m - 1], m - 1 + 1)
    <3>1. m - 1 + 1 = m /\ m \in 0 .. NumEvents
      BY <1>2, <2>1
    <3>2. f[m] = MixOne(f[m - 1], m)
      BY <1>1, <2>1, <2>2 DEF Mixing, MixTurn
    <3>3. QED
      BY <3>1, <3>2
  <2>5. MixKept(f[m], m - 1 + 1)
    BY <2>3, <2>4, MixStep
  <2>6. QED
    BY <1>2, <2>1, <2>3, <2>5
<1> DEFINE st == f[NumEvents]
           lost == st.out.events_lost + LostEvents
           out == [st.out EXCEPT !.events_lost = lost]
           n == Len(st.out.events)
           R == EachOf(st.read)
<1>4. MixKept(st, NumEvents) /\ jack_midi_port_mixdown = [out |-> out, read |-> st.read]
  BY <1>1, <1>2, <1>3
<1>5. LostEvents \in Nat
  <2> DEFINE c == [s \in Sources |-> midi[s].events_lost]
  <2>1. c \in [Sources -> Nat]
    BY EventFields DEF MidiTyped
  <2> HIDE DEF c
  <2>2. IsFiniteSet(EachOf(c))
    BY <2>1, EachIs
  <2>3. QED
    BY <2>2, FS_CardinalityType DEF LostEvents, c
<1> HIDE DEF st
<1>6. st.out \in Buffers /\ InOrder(st.out) /\ st.read \in [Sources -> Nat] /\ st.full \in BOOLEAN
  BY <1>4 DEF MixKept
<1>7. n \in Nat /\ st.out.events_lost \in Nat /\ lost \in Nat
  BY <1>5, <1>6, EventFields
<1> HIDE DEF lost, n
<1>8. out.events = st.out.events /\ out.events_lost = lost /\ out \in Buffers
  BY <1>6, <1>7 DEF Buffers
<1>9. InOrder(out)
  BY <1>6, <1>8 DEF InOrder
<1>10. R \subseteq AllEvents /\ IsFiniteSet(R) /\ Cardinality(R) \in Nat
  BY <1>2, <1>4, ReadIs
<1>11. n <= NumEvents /\ n <= Cardinality(R) /\ st.out.events_lost = NumEvents - n
  BY <1>2, <1>4, <1>6, <1>7, <1>10 DEF MixKept, n
<1>12. ASSUME NEW x \in AllEvents, Rank(x) <= n
       PROVE  st.out.events[Rank(x)].from = EventAt(x).from
  <2>1. CASE x \in R
    BY <1>4, <1>12, <2>1 DEF MixKept, n
  <2>2. CASE x \notin R
    <3> DEFINE B == {y \in AllEvents : Before(y, x)}
    <3>1. ASSUME NEW y \in R PROVE y \in B
      <4>1. y \in AllEvents /\ y # x
        BY <1>10, <2>2
      <4>2. ~Before(x, y)
        BY <1>4, <2>2 DEF MixKept
      <4>3. QED
        BY <4>1, <4>2, BeforeIsOrder
    <3>2. IsFiniteSet(B)
      BY <1>2, FS_Subset
    <3>3. Cardinality(R) <= Cardinality(B) /\ Cardinality(B) \in Nat
      <4> HIDE DEF B, R
      <4>1. QED
        BY <3>1, <3>2, FS_Subset, FS_CardinalityType
    <3>4. Rank(x) = Cardinality(B) + 1
      BY DEF Rank
    <3> HIDE DEF B
    <3>5. QED
      BY <1>7, <1>10, <1>11, <1>12, <3>3, <3>4
  <2>3. QED
    BY <2>1, <2>2
<1> HIDE DEF out
<1>13. jack_midi_port_mixdown.out = out /\ jack_midi_port_mixdown.read = st.read
  BY <1>4
<1>14. lost = NumEvents - n + LostEvents /\ n = Len(out.events)
  BY <1>8, <1>11 DEF lost, n
<1>15. QED
  BY <1>6, <1>8, <1>9, <1>11, <1>12, <1>13, <1>14

------------------------------------------------------------------------------
(* The invariant.                                                             *)

MidiIInv ==
    /\ MidiTyped
    /\ mix_buffer \in Buffers /\ InOrder(mix_buffer)
    /\ midi_phase \in {"writing", "mixed"}
    /\ BufferSize >= InfoSize /\ midi_phase = "writing" =>
         \A s \in Sources : DataLies(midi[s])
    /\ MixIsMerge

LEMMA MidiStarts == MidiInit => MidiIInv
<1> SUFFICES ASSUME MidiInit PROVE MidiIInv
  OBVIOUS
<1>1. EmptyBuffer \in Buffers /\ InOrder(EmptyBuffer)
  BY DEF EmptyBuffer, Buffers, InOrder
<1>2. BufferSize >= InfoSize => DataLies(EmptyBuffer)
  <2>1. EmptyBuffer.events = <<>> /\ EmptyBuffer.last_write_loc = 0
    BY DEF EmptyBuffer
  <2>2. Apart(EmptyBuffer) = {} /\ Len(EmptyBuffer.events) = 0
    BY <2>1 DEF Apart
  <2>3. QED
    BY <2>2, MidiAssumption DEF DataLies, InfoSize, HeaderSize
<1>3. MidiTyped
  BY <1>1 DEF MidiInit, MidiTyped
<1>4. QED
  BY <1>1, <1>2, <1>3 DEF MidiInit, MidiIInv, MixIsMerge

LEMMA WritesEventKeeps ==
    ASSUME MidiIInv, NEW s \in Sources, NEW time \in EventTimes, NEW size \in DataSizes,
           WritesEvent(s, time, size)
    PROVE  MidiIInv'
<1> DEFINE b == midi[s]
           from == <<s, Len(b.events) + 1>>
           r == jack_midi_event_reserve(b, time, size, from)
<1>1. /\ midi_phase = "writing" /\ midi' = [midi EXCEPT ![s] = r]
      /\ mix_buffer' = mix_buffer /\ midi_phase' = midi_phase
  BY Zenon DEF WritesEvent
<1>2. b \in Buffers /\ InOrder(b) /\ from \in Sources \X Nat
  <2>1. b \in Buffers /\ InOrder(b)
    BY DEF MidiIInv, MidiTyped
  <2>2. QED
    BY <2>1, EventFields
<1> HIDE DEF b, from
<1>3. r \in Buffers /\ Reserved(b, r, time, size, from)
  BY <1>2, ReservedIs, Zenon
<1> HIDE DEF r
<1>4. InOrder(r)
  BY <1>2, <1>3, ReserveOrders
<1>5. DataLies(b) => DataLies(r)
  BY <1>2, <1>3, ReserveLays
<1>6. midi \in [Sources -> Buffers] /\ \A z \in Sources : InOrder(midi[z])
  BY DEF MidiIInv, MidiTyped
<1>7. /\ midi' \in [Sources -> Buffers] /\ midi'[s] = r
      /\ \A z \in Sources : z # s => midi'[z] = midi[z]
  BY <1>1, <1>3, <1>6
<1>8. MidiTyped'
  <2>1. \A z \in Sources : InOrder(midi'[z])
    BY <1>4, <1>6, <1>7
  <2>2. QED
    BY <1>7, <2>1 DEF MidiTyped, InOrder
<1>9. (BufferSize >= InfoSize /\ midi_phase = "writing" =>
         \A z \in Sources : DataLies(midi[z]))'
  <2> SUFFICES ASSUME BufferSize >= InfoSize, NEW z \in Sources PROVE DataLies(midi'[z])
    BY DEF DataLies, Apart
  <2>1. \A y \in Sources : DataLies(midi[y])
    BY <1>1 DEF MidiIInv
  <2>2. DataLies(r)
    BY <1>5, <2>1 DEF b
  <2>3. QED
    BY <1>7, <2>1, <2>2
<1>10. (mix_buffer \in Buffers /\ InOrder(mix_buffer) /\ midi_phase \in {"writing", "mixed"})'
  BY <1>1 DEF MidiIInv, InOrder
<1>11. MixIsMerge'
  BY <1>1 DEF MixIsMerge
<1>12. QED
  BY <1>8, <1>9, <1>10, <1>11 DEF MidiIInv

LEMMA MixesKeeps == ASSUME MidiIInv, Mixes PROVE MidiIInv'
<1> DEFINE mixed == jack_midi_port_mixdown.out
           read == jack_midi_port_mixdown.read
           new(s) == [midi[s] EXCEPT !.last_write_loc = read[s]]
<1>1. /\ midi' = [s \in Sources |-> new(s)]
      /\ mix_buffer' = mixed /\ midi_phase' = "mixed"
  BY Zenon DEF Mixes
<1>2. MidiTyped
  BY DEF MidiIInv
<1>3. /\ read \in [Sources -> Nat] /\ mixed \in Buffers /\ InOrder(mixed)
      /\ \A x \in AllEvents :
           Rank(x) <= Len(mixed.events) => mixed.events[Rank(x)].from = EventAt(x).from
      /\ Len(mixed.events) <= NumEvents
      /\ mixed.events_lost = NumEvents - Len(mixed.events) + LostEvents
  BY <1>2, MixdownKeeps
<1> HIDE DEF mixed, read
<1>4. \A s \in Sources : /\ midi'[s] \in Buffers /\ midi'[s].events = midi[s].events
                         /\ midi'[s].events_lost = midi[s].events_lost
  <2> SUFFICES ASSUME NEW s \in Sources
               PROVE  /\ midi'[s] \in Buffers /\ midi'[s].events = midi[s].events
                      /\ midi'[s].events_lost = midi[s].events_lost
    OBVIOUS
  <2> DEFINE b == midi[s]
             n == read[s]
  <2>1. b \in Buffers /\ n \in Nat
    BY <1>2, <1>3 DEF MidiTyped
  <2>2. midi'[s] = [b EXCEPT !.last_write_loc = n]
    BY <1>1
  <2> HIDE DEF b, n
  <2>3. midi'[s] \in Buffers /\ midi'[s].events = b.events /\ midi'[s].events_lost = b.events_lost
    BY <2>1, <2>2 DEF Buffers
  <2>4. QED
    BY <2>3 DEF b
<1>5. MidiTyped'
  <2>1. midi' \in [Sources -> Buffers]
    BY <1>1, <1>4
  <2>2. QED
    BY <1>2, <1>4, <2>1 DEF MidiTyped, InOrder
<1>6. AllEvents' = AllEvents /\ LostEvents' = LostEvents
  <2>1. [s \in Sources |-> Len(midi'[s].events)] = [s \in Sources |-> Len(midi[s].events)]
    BY <1>4
  <2>2. [s \in Sources |-> midi'[s].events_lost] = [s \in Sources |-> midi[s].events_lost]
    BY <1>4
  <2>3. AllEvents' = AllEvents
    BY <2>1 DEF AllEvents, EachOf
  <2>4. LostEvents' = LostEvents
    <3>1. EachOf([s \in Sources |-> midi[s].events_lost])' = EachOf([s \in Sources |-> midi[s].events_lost])
      BY <2>2 DEF EachOf
    <3>2. QED
      BY <3>1 DEF LostEvents
  <2>5. QED
    BY <2>3, <2>4
<1>7. \A x \in AllEvents : EventAt(x)' = EventAt(x)
  <2>1. \A x \in AllEvents : x[1] \in Sources
    BY <1>2, AllAre
  <2>2. QED
    BY <1>4, <2>1 DEF EventAt
<1>8. \A x \in AllEvents : Rank(x)' = Rank(x)
  <2> SUFFICES ASSUME NEW x \in AllEvents PROVE Rank(x)' = Rank(x)
    OBVIOUS
  <2>1. \A y \in AllEvents : Before(y, x)' <=> Before(y, x)
    BY <1>7 DEF Before
  <2>2. {y \in AllEvents' : Before(y, x)'} = {y \in AllEvents : Before(y, x)}
    BY <1>6, <2>1
  <2>3. QED
    BY <2>2 DEF Rank
<1>9. NumEvents' = NumEvents
  BY <1>6 DEF NumEvents
<1>10. MixIsMerge'
  BY <1>1, <1>3, <1>6, <1>7, <1>8, <1>9 DEF MixIsMerge
<1>11. (mix_buffer \in Buffers /\ InOrder(mix_buffer))'
  BY <1>1, <1>3 DEF InOrder
<1>12. QED
  BY <1>1, <1>5, <1>10, <1>11 DEF MidiIInv

LEMMA MidiStep == MidiIInv /\ [MidiNext]_midiVars => MidiIInv'
<1> SUFFICES ASSUME MidiIInv, [MidiNext]_midiVars PROVE MidiIInv'
  OBVIOUS
<1>1. ASSUME NEW s \in Sources, NEW t \in EventTimes, NEW size \in DataSizes,
             WritesEvent(s, t, size)
      PROVE  MidiIInv'
  BY <1>1, WritesEventKeeps
<1>2. CASE Mixes
  BY <1>2, MixesKeeps
<1>3. CASE UNCHANGED midiVars
  <2>1. midi' = midi /\ mix_buffer' = mix_buffer /\ midi_phase' = midi_phase
    BY <1>3 DEF midiVars
  <2>2. AllEvents' = AllEvents /\ LostEvents' = LostEvents /\ NumEvents' = NumEvents
        /\ MidiTyped'
    BY <2>1 DEF AllEvents, LostEvents, NumEvents, MidiTyped, MidiIInv, EachOf, InOrder
  <2>3. MixIsMerge'
    BY <2>1, <2>2 DEF MidiIInv, MixIsMerge, Rank, Before, EventAt
  <2>4. QED
    BY <2>1, <2>2, <2>3 DEF MidiIInv, InOrder, DataLies, Apart
<1>4. QED
  BY <1>1, <1>2, <1>3 DEF MidiNext

LEMMA MidiAlways == MidiSpec => []MidiIInv
<1>1. MidiInit => MidiIInv
  BY MidiStarts
<1>2. MidiIInv /\ [MidiNext]_midiVars => MidiIInv'
  BY MidiStep
<1>3. QED
  BY <1>1, <1>2, PTL DEF MidiSpec

LEMMA MidiBuffers == ASSUME MidiIInv PROVE MidiTypeOK /\ EventsInOrder
<1> DEFINE all == {midi[s] : s \in Sources} \cup {mix_buffer}
<1>1. \A b \in all : b \in Buffers /\ InOrder(b)
  BY DEF MidiIInv, MidiTyped
<1>2. \A b \in all : /\ b.last_write_loc \in Nat /\ b.events_lost \in Nat
                     /\ \A i \in DOMAIN b.events :
                          b.events[i].time \in EventTimes /\ b.events[i].size \in DataSizes
  <2> SUFFICES ASSUME NEW b \in Buffers
               PROVE  /\ b.last_write_loc \in Nat /\ b.events_lost \in Nat
                      /\ \A i \in DOMAIN b.events :
                           b.events[i].time \in EventTimes /\ b.events[i].size \in DataSizes
    BY <1>1
  <2>1. QED
    BY EventFields DEF Events
<1>3. MidiTypeOK
  BY <1>2 DEF MidiTypeOK
<1>4. EventsInOrder
  BY <1>1 DEF EventsInOrder, InOrder
<1>5. QED
  BY <1>3, <1>4

LEMMA MidiLies == ASSUME BufferSize >= InfoSize, MidiIInv PROVE DataIsApart
<1> SUFFICES ASSUME midi_phase = "writing", NEW s \in Sources
             PROVE  /\ InfoSize + HeaderSize * Len(midi[s].events) <= BufferSize
                    /\ \A i \in Apart(midi[s]) :
                         /\ DataOf(midi[s].events[i]) \subseteq InfoSize .. BufferSize - 1
                         /\ \A j \in Apart(midi[s]) \ {i} :
                              DataOf(midi[s].events[i]) \cap DataOf(midi[s].events[j]) = {}
  BY DEF DataIsApart
<1>1. midi[s] \in Buffers /\ DataLies(midi[s])
  BY DEF MidiIInv, MidiTyped
<1>2. InfoSize + HeaderSize * Len(midi[s].events) <= BufferSize
  BY <1>1 DEF DataLies
<1>3. QED
  BY <1>1, <1>2, LyingIsApart

\* Whatever the buffer's size: each buffer's events are in the order of their
\* times, and a mixed one has those of its sources, each once, sorted by time and
\* then by connection, up to the first that does not fit; the rest are counted.
THEOREM MixesAreMerges == MidiSpec => [](MidiTypeOK /\ EventsInOrder /\ MixIsMerge)
<1> DEFINE Inv == MidiTypeOK /\ EventsInOrder /\ MixIsMerge
<1>1. MidiIInv => Inv
  BY MidiBuffers DEF MidiIInv
<1>2. MidiSpec => []MidiIInv
  BY MidiAlways
<1>3. QED
  BY <1>1, <1>2, PTL

\* In a buffer that holds its own header (jackd -M 1 and -M 2 make smaller ones) no
\* two events share data either, and all of it is behind that header and in the buffer.
THEOREM MidiIsRight ==
    ASSUME BufferSize >= InfoSize
    PROVE  MidiSpec => []MidiInv
<1>1. MidiIInv => MidiInv
  BY MidiBuffers, MidiLies DEF MidiIInv, MidiInv
<1>2. MidiSpec => []MidiIInv
  BY MidiAlways
<1>3. QED
  BY <1>1, <1>2, PTL

------------------------------------------------------------------------------
(* Latencies. In a graph without circles the latencies that a pass over the *)
(* clients leaves are the shortest and the longest way to the driver, and   *)
(* the totals are those of the connections (LatencyInv).                    *)
(*                                                                          *)
(* LatencyInv speaks of passes that are over. LatencyIInv follows one event *)
(* by event: the events still to come are the rest of a pass (PassInv);     *)
(* what was answered before, in the order in which a graph without circles  *)
(* is sorted, was right (AnswersAreRight), and stays so as neither a later  *)
(* client nor the driver changes what it was made of. For the driver, whose *)
(* callback sets the latencies that all others begin with, this needs that  *)
(* they were set to the same period before (DriverIsFresh). The totals stay *)
(* right as the driver's latencies do (TotalsAreKept).                      *)

\* A set of sums with a least and a largest one.
Ends(S) == S \subseteq Nat /\ \E lo, hi \in S : \A x \in S : lo <= x /\ x <= hi
LatencyRanges == [min : Nat, max : Nat]

LEMMA FiniteEnds ==
    ASSUME NEW S \in SUBSET Nat, IsFiniteSet(S), S # {}
    PROVE  Ends(S)
<1>1. PICK lo \in S : \A x \in S : lo <= x
  BY LeastExists
<1> DEFINE Above(n) == {y \in S : n <= y}
           B == {Above(n) : n \in S}
<1>2. B \subseteq FiniteSubsetsOf(S) /\ B # {}
  <2>1. ASSUME NEW n \in S PROVE Above(n) \in FiniteSubsetsOf(S)
    BY FS_Subset DEF FiniteSubsetsOf
  <2>2. QED
    BY <2>1
<1>3. PICK b \in B : \A c \in B : ~(<<c, b>> \in StrictSubsetOrdering(S))
  <2> HIDE DEF B
  <2>1. QED
    BY <1>2, WFMin, FS_StrictSubsetOrderingWellFounded
<1>4. PICK hi \in S : b = Above(hi)
  OBVIOUS
<1>5. ASSUME NEW k \in S, k > hi PROVE FALSE
  <2>1. Above(k) \in B /\ Above(k) \subseteq Above(hi) /\ hi \in Above(hi) /\ hi \notin Above(k)
    <3>1. hi \in Nat /\ k \in Nat /\ hi <= hi /\ ~(k <= hi)
      BY <1>5
    <3>2. \A y \in S : k <= y => hi <= y
      BY <1>5
    <3>3. QED
      BY <3>1, <3>2
  <2>2. <<Above(k), b>> \in StrictSubsetOrdering(S)
    BY <2>1, <1>4 DEF StrictSubsetOrdering
  <2>3. QED
    BY <2>1, <2>2, <1>3
<1>6. \A x \in S : x <= hi
  BY <1>5
<1>7. QED
  BY <1>1, <1>6 DEF Ends

LEMMA FiniteImage ==
    ASSUME NEW S, IsFiniteSet(S), NEW f
    PROVE  IsFiniteSet({f[x] : x \in S})
<1> DEFINE g == [x \in S |-> f[x]]
           T == {f[x] : x \in S}
<1>1. g \in Surjection(S, T)
  BY DEF Surjection
<1> HIDE DEF g, T
<1>2. IsFiniteSet(T)
  BY <1>1, FS_Surjection
<1>3. QED
  BY <1>2 DEF T

LEMMA MinMaxAre ==
    ASSUME NEW S \in SUBSET Nat, NEW lo \in S, NEW hi \in S, \A x \in S : lo <= x /\ x <= hi
    PROVE  Min(S) = lo /\ Max(S) = hi
<1>1. \A x \in S : (\A y \in S : x <= y) => x = lo
  OBVIOUS
<1>2. \A x \in S : (\A y \in S : x >= y) => x = hi
  OBVIOUS
<1>3. QED
  BY <1>1, <1>2 DEF Min, Max

LEMMA RangeOfIs ==
    ASSUME NEW S \in SUBSET Nat, NEW lo \in S, NEW hi \in S, \A x \in S : lo <= x /\ x <= hi
    PROVE  RangeOf(S) = [min |-> lo, max |-> hi]
<1> DEFINE ranges == {Exactly(n) : n \in S}
<1>1. {r.min : r \in ranges} = S /\ {r.max : r \in ranges} = S /\ ranges # {}
  <2>1. \A n \in S : Exactly(n).min = n /\ Exactly(n).max = n
    BY DEF Exactly
  <2>2. QED
    BY <2>1
<1> HIDE DEF ranges
<1>2. Spread(ranges) = [min |-> lo, max |-> hi]
  BY <1>1, MinMaxAre DEF Spread
<1>3. QED
  BY <1>2 DEF RangeOf, ranges

LEMMA RangeOfNothing == RangeOf({}) = Exactly(0)
BY DEF RangeOf, Spread

LEMMA RangeOfOne ==
    ASSUME NEW n \in Nat
    PROVE  RangeOf({n}) = Exactly(n) /\ Ends({n})
BY RangeOfIs DEF Exactly, Ends

\* R gives everything in Q the range of the sums that S gives it.
RangesOf(Q, R, S) == \A q \in Q : Ends(S[q]) /\ R[q] = RangeOf(S[q])
ValuesOf(ranges, Q, R) == ranges = {R[q] : q \in Q}
AllOf(all, Q, S) == all = UNION {S[q] : q \in Q}

\* A range that spreads over others, of which each is one of sums, is that of all
\* the sums.
LEMMA SpreadOfSpreads ==
    ASSUME NEW Q, IsFiniteSet(Q), Q # {}, NEW R, NEW S, RangesOf(Q, R, S),
           NEW ranges, ValuesOf(ranges, Q, R), NEW all, AllOf(all, Q, S)
    PROVE  Ends(all) /\ Spread(ranges) = RangeOf(all)
<1>0. /\ \A q \in Q : Ends(S[q]) /\ R[q] = RangeOf(S[q])
      /\ \A r : r \in ranges <=> \E q \in Q : r = R[q]
      /\ \A x : x \in all <=> \E q \in Q : x \in S[q]
  BY DEF RangesOf, ValuesOf, AllOf
<1> DEFINE mins == {r.min : r \in ranges}
           maxs == {r.max : r \in ranges}
<1>1. ASSUME NEW q \in Q
      PROVE  /\ S[q] \subseteq Nat /\ R[q].min \in S[q] /\ R[q].max \in S[q]
             /\ \A x \in S[q] : R[q].min <= x /\ x <= R[q].max
  <2>1. Ends(S[q]) /\ R[q] = RangeOf(S[q])
    BY <1>0
  <2>2. PICK lo \in S[q], hi \in S[q] : \A x \in S[q] : lo <= x /\ x <= hi
    BY <2>1 DEF Ends
  <2>3. R[q] = [min |-> lo, max |-> hi]
    BY <2>1, <2>2, RangeOfIs DEF Ends
  <2>4. QED
    BY <2>1, <2>2, <2>3 DEF Ends
<1>2. ranges # {}
  BY <1>0
<1>3. IsFiniteSet(mins) /\ IsFiniteSet(maxs) /\ mins # {} /\ maxs # {}
  <2> DEFINE lows == [q \in Q |-> R[q].min]
             highs == [q \in Q |-> R[q].max]
  <2>1. mins = {lows[q] : q \in Q} /\ maxs = {highs[q] : q \in Q}
    BY <1>0
  <2> HIDE DEF mins, maxs, lows, highs
  <2>2. QED
    BY <2>1, FiniteImage
<1>4. mins \subseteq all /\ maxs \subseteq all /\ all \subseteq Nat
  BY <1>0, <1>1
<1>5. Ends(mins) /\ Ends(maxs)
  <2> HIDE DEF mins, maxs
  <2>1. QED
    BY <1>3, <1>4, FiniteEnds
<1>6. PICK lo \in mins : \A x \in mins : lo <= x
  <2> HIDE DEF mins
  <2>1. QED
    BY <1>5 DEF Ends
<1>7. PICK hi \in maxs : \A x \in maxs : x <= hi
  <2> HIDE DEF maxs
  <2>1. QED
    BY <1>5 DEF Ends
<1>8. ASSUME NEW x \in all PROVE lo <= x /\ x <= hi
  <2>1. PICK q \in Q : x \in S[q]
    BY <1>0
  <2>2. R[q].min \in mins /\ R[q].max \in maxs
    BY <1>0
  <2>3. R[q].min <= x /\ x <= R[q].max /\ x \in Nat /\ R[q].min \in Nat /\ R[q].max \in Nat
    BY <1>1, <2>1
  <2>4. lo <= R[q].min /\ R[q].max <= hi /\ lo \in Nat /\ hi \in Nat
    <3> HIDE DEF mins, maxs
    <3>1. QED
      BY <1>4, <1>6, <1>7, <2>2
  <2>5. QED
    BY <2>3, <2>4
<1>9. lo \in all /\ hi \in all
  BY <1>4, <1>6, <1>7
<1>10. RangeOf(all) = [min |-> lo, max |-> hi] /\ Ends(all)
  <2> HIDE DEF mins, maxs
  <2>1. QED
    BY <1>4, <1>8, <1>9, RangeOfIs DEF Ends
<1>11. Spread(ranges) = [min |-> lo, max |-> hi]
  <2>1. mins \in SUBSET Nat /\ maxs \in SUBSET Nat
    <3> HIDE DEF mins, maxs
    <3>1. QED
      BY <1>4
  <2>2. Min(mins) = lo /\ Max(maxs) = hi
    <3> HIDE DEF mins, maxs
    <3>1. \A x \in mins : (\A y \in mins : x <= y) => x = lo
      BY <1>6, <2>1
    <3>2. \A x \in maxs : (\A y \in maxs : x >= y) => x = hi
      BY <1>7, <2>1
    <3>3. QED
      BY <1>6, <1>7, <2>1, <3>1, <3>2 DEF Min, Max
  <2>3. Spread(ranges) = [min |-> Min(mins), max |-> Max(maxs)]
    BY <1>2 DEF Spread
  <2>4. QED
    BY <2>2, <2>3
<1>12. QED
  BY <1>10, <1>11

LEMMA PlusRange ==
    ASSUME NEW S, Ends(S), NEW n \in Nat
    PROVE  /\ Ends({x + n : x \in S})
           /\ Plus(RangeOf(S), n) = RangeOf({x + n : x \in S})
<1>1. PICK lo \in S, hi \in S : \A x \in S : lo <= x /\ x <= hi
  BY DEF Ends
<1> DEFINE T == {x + n : x \in S}
<1>2. S \subseteq Nat
  BY DEF Ends
<1>3. T \subseteq Nat /\ lo + n \in T /\ hi + n \in T /\ \A x \in T : lo + n <= x /\ x <= hi + n
  BY <1>1, <1>2
<1> HIDE DEF T
<1>4. RangeOf(T) = [min |-> lo + n, max |-> hi + n] /\ Ends(T)
  BY <1>3, RangeOfIs DEF Ends
<1>5. RangeOf(S) = [min |-> lo, max |-> hi]
  BY <1>1, <1>2, RangeOfIs
<1>6. QED
  BY <1>4, <1>5 DEF Plus, T

\* What is added up to every place of a route.
Adding(n, r, a) == a = [i \in 0 .. n |-> IF i = 0 THEN 0 ELSE a[i - 1] + Delay[r[i]]]

LEMMA AddingExists ==
    ASSUME NEW n \in Nat, NEW r
    PROVE  \E a : Adding(n, r, a)
<1> DEFINE bad == {m \in Nat : ~\E a : Adding(m, r, a)}
<1> SUFFICES ASSUME bad # {} PROVE FALSE
  OBVIOUS
<1>1. PICK m \in bad : \A k \in bad : m <= k
  <2>1. bad \in SUBSET Nat
    OBVIOUS
  <2> HIDE DEF bad
  <2>2. QED
    BY <2>1, LeastExists
<1>2. CASE m = 0
  <2> DEFINE a == [i \in 0 .. 0 |-> 0]
  <2>1. Adding(0, r, a)
    BY DEF Adding
  <2>2. QED
    BY <1>2, <2>1
<1>3. CASE m # 0
  <2>1. m \in Nat /\ m - 1 \in Nat /\ m - 1 \notin bad
    BY <1>1, <1>3
  <2>2. PICK a : Adding(m - 1, r, a)
    BY <2>1
  <2> DEFINE b == [i \in 0 .. m |-> IF i < m THEN a[i] ELSE a[m - 1] + Delay[r[m]]]
  <2>3. ASSUME NEW i \in 0 .. m
        PROVE  b[i] = IF i = 0 THEN 0 ELSE b[i - 1] + Delay[r[i]]
    <3>1. CASE i = 0
      <4>1. a[0] = 0
        BY <2>1, <2>2 DEF Adding
      <4>2. QED
        BY <1>3, <2>1, <3>1, <4>1
    <3>2. CASE i # 0 /\ i < m
      <4>1. i \in 0 .. m - 1 /\ i - 1 \in 0 .. m - 1 /\ i - 1 < m
        BY <2>1, <3>2
      <4>2. a[i] = a[i - 1] + Delay[r[i]]
        BY <2>2, <3>2, <4>1 DEF Adding
      <4>3. QED
        BY <3>2, <4>1, <4>2
    <3>3. CASE i = m
      BY <1>3, <2>1, <3>3
    <3>4. i = 0 \/ (i # 0 /\ i < m) \/ i = m
      BY <2>1
    <3>5. QED
      BY <3>1, <3>2, <3>3, <3>4, Zenon
  <2>4. Adding(m, r, b)
    <3>1. b = [i \in 0 .. m |-> b[i]]
      OBVIOUS
    <3> HIDE DEF b
    <3>2. QED
      BY <2>3, <3>1 DEF Adding
  <2>5. QED
    BY <1>1, <2>4
<1>4. QED
  BY <1>2, <1>3

LEMMA AlongIs ==
    ASSUME NEW n \in Nat, NEW r \in [1 .. n -> LatencyClients]
    PROVE  \E a : Adding(n, r, a) /\ Along(r) = a[n]
<1>1. Len(r) = n
  OBVIOUS
<1> DEFINE added[i \in 0 .. Len(r)] == IF i = 0 THEN 0 ELSE added[i - 1] + Delay[r[i]]
<1>2. \E a : a = [i \in 0 .. Len(r) |-> IF i = 0 THEN 0 ELSE a[i - 1] + Delay[r[i]]]
  BY <1>1, AddingExists DEF Adding
<1>3. added = [i \in 0 .. Len(r) |-> IF i = 0 THEN 0 ELSE added[i - 1] + Delay[r[i]]]
  BY <1>2, Zenon
<1>4. Along(r) = added[Len(r)]
  BY Zenon DEF Along
<1> HIDE DEF added
<1>5. QED
  BY <1>1, <1>3, <1>4 DEF Adding

\* It is the only function that adds so.
LEMMA AlongOf ==
    ASSUME NEW n \in Nat, NEW r \in [1 .. n -> LatencyClients], NEW b,
           b[0] = 0, \A i \in 1 .. n : b[i] = b[i - 1] + Delay[r[i]]
    PROVE  Along(r) = b[n]
<1>1. PICK a : Adding(n, r, a) /\ Along(r) = a[n]
  BY AlongIs
<1> DEFINE bad == {i \in 0 .. n : a[i] # b[i]}
<1>2. bad = {}
  <2> SUFFICES ASSUME bad # {} PROVE FALSE
    OBVIOUS
  <2>1. PICK m \in bad : \A k \in bad : m <= k
    <3>1. bad \in SUBSET Nat
      OBVIOUS
    <3> HIDE DEF bad
    <3>2. QED
      BY <3>1, LeastExists
  <2>2. m # 0
    BY <1>1 DEF Adding
  <2>3. m \in 1 .. n /\ m - 1 \in 0 .. n /\ m - 1 \notin bad
    BY <2>1, <2>2
  <2>4. a[m] = a[m - 1] + Delay[r[m]]
    BY <1>1, <2>2, <2>3 DEF Adding
  <2>5. QED
    BY <2>3, <2>4
<1>3. QED
  BY <1>1, <1>2

LEMMA AlongSteps ==
    ASSUME NEW n \in Nat, NEW r \in [1 .. n -> LatencyClients]
    PROVE  \E a \in [0 .. n -> Nat] :
              /\ a[0] = 0 /\ Along(r) = a[n]
              /\ \A i \in 1 .. n : a[i] = a[i - 1] + Delay[r[i]]
<1>1. PICK a : Adding(n, r, a) /\ Along(r) = a[n]
  BY AlongIs
<1>2. a[0] = 0 /\ \A i \in 1 .. n : a[i] = a[i - 1] + Delay[r[i]]
  BY <1>1 DEF Adding
<1> DEFINE bad == {i \in 0 .. n : a[i] \notin Nat}
<1>3. bad = {}
  <2> SUFFICES ASSUME bad # {} PROVE FALSE
    OBVIOUS
  <2>1. PICK m \in bad : \A k \in bad : m <= k
    <3>1. bad \in SUBSET Nat
      OBVIOUS
    <3> HIDE DEF bad
    <3>2. QED
      BY <3>1, LeastExists
  <2>2. m # 0
    BY <1>2
  <2>3. m \in 1 .. n /\ m - 1 \in 0 .. n /\ m - 1 \notin bad
    BY <2>1, <2>2
  <2>4. Delay[r[m]] \in Nat
    BY <2>3, LatencyAssumption
  <2>5. QED
    BY <1>2, <2>3, <2>4
<1>4. a \in [0 .. n -> Nat]
  <2>1. \A i \in 0 .. n : a[i] \in Nat
    BY <1>3
  <2>2. DOMAIN a = 0 .. n /\ a = [i \in DOMAIN a |-> a[i]]
    BY <1>1 DEF Adding
  <2>3. QED
    BY <2>1, <2>2
<1>5. QED
  BY <1>1, <1>2, <1>4

LEMMA AlongOne ==
    ASSUME NEW c \in LatencyClients
    PROVE  <<c>> \in [1 .. 1 -> LatencyClients] /\ Along(<<c>>) = Delay[c]
<1> DEFINE r == <<c>>
           b == [i \in 0 .. 1 |-> IF i = 0 THEN 0 ELSE Delay[c]]
<1>1. r \in [1 .. 1 -> LatencyClients] /\ r[1] = c
  OBVIOUS
<1>2. Delay[c] \in Nat
  BY LatencyAssumption
<1>3. b[0] = 0 /\ b[1] = Delay[c]
  OBVIOUS
<1> HIDE DEF r, b
<1>4. \A i \in 1 .. 1 : b[i] = b[i - 1] + Delay[r[i]]
  BY <1>1, <1>2, <1>3
<1>5. Along(r) = b[1]
  BY <1>1, <1>3, <1>4, AlongOf
<1>6. QED
  BY <1>1, <1>3, <1>5 DEF r

\* One client more at the end, or at the beginning.
LEMMA AlongLonger ==
    ASSUME NEW n \in Nat, NEW r \in [1 .. n -> LatencyClients], NEW c \in LatencyClients,
           NEW s \in [1 .. n + 1 -> LatencyClients],
           \/ s[n + 1] = c /\ \A i \in 1 .. n : s[i] = r[i]
           \/ s[1] = c /\ \A i \in 1 .. n : s[i + 1] = r[i]
    PROVE  Along(r) \in Nat /\ Along(s) = Along(r) + Delay[c]
<1>1. PICK a \in [0 .. n -> Nat] :
              /\ a[0] = 0 /\ Along(r) = a[n]
              /\ \A i \in 1 .. n : a[i] = a[i - 1] + Delay[r[i]]
  BY AlongSteps
<1>2. Delay[c] \in Nat /\ n + 1 \in Nat
  BY LatencyAssumption
<1>3. CASE s[n + 1] = c /\ \A i \in 1 .. n : s[i] = r[i]
  <2> DEFINE b == [i \in 0 .. n + 1 |-> IF i <= n THEN a[i] ELSE a[n] + Delay[c]]
  <2>1. \A i \in 0 .. n : b[i] = a[i]
    OBVIOUS
  <2>2. b[n + 1] = a[n] + Delay[c]
    OBVIOUS
  <2> HIDE DEF b
  <2>3. ASSUME NEW i \in 1 .. n + 1 PROVE b[i] = b[i - 1] + Delay[s[i]]
    <3>1. CASE i = n + 1
      <4>1. n + 1 - 1 = n /\ n \in 0 .. n
        OBVIOUS
      <4>2. QED
        BY <1>3, <2>1, <2>2, <3>1, <4>1
    <3>2. CASE i # n + 1
      <4>1. i \in 1 .. n /\ i \in 0 .. n /\ i - 1 \in 0 .. n
        BY <3>2
      <4>2. QED
        BY <1>1, <1>3, <2>1, <4>1
    <3>3. QED
      BY <3>1, <3>2
  <2>4. b[0] = 0
    BY <1>1, <2>1
  <2>5. Along(s) = b[n + 1]
    BY <1>2, <2>3, <2>4, AlongOf
  <2>6. QED
    BY <1>1, <2>2, <2>5
<1>4. CASE s[1] = c /\ \A i \in 1 .. n : s[i + 1] = r[i]
  <2> DEFINE b == [i \in 0 .. n + 1 |-> IF i = 0 THEN 0 ELSE a[i - 1] + Delay[c]]
  <2>1. b[0] = 0 /\ \A i \in 0 .. n : b[i + 1] = a[i] + Delay[c]
    OBVIOUS
  <2> HIDE DEF b
  <2>2. ASSUME NEW i \in 1 .. n + 1 PROVE b[i] = b[i - 1] + Delay[s[i]]
    <3>1. CASE i = 1
      <4>1. b[0 + 1] = a[0] + Delay[c]
        BY <2>1
      <4>2. QED
        BY <1>1, <1>2, <1>4, <2>1, <3>1, <4>1
    <3>2. CASE i # 1
      <4> DEFINE k == i - 1
      <4>1. k \in 1 .. n /\ k - 1 \in 0 .. n /\ k \in 0 .. n /\ i = k + 1 /\ k - 1 + 1 = k
        BY <3>2
      <4> HIDE DEF k
      <4>2. b[k + 1] = a[k] + Delay[c] /\ b[k - 1 + 1] = a[k - 1] + Delay[c] /\ s[k + 1] = r[k]
        BY <1>4, <2>1, <4>1
      <4>3. a[k] = a[k - 1] + Delay[r[k]] /\ a[k - 1] \in Nat /\ Delay[r[k]] \in Nat
        BY <1>1, <4>1, LatencyAssumption
      <4>4. b[k + 1] = b[k] + Delay[s[k + 1]]
        BY <1>2, <4>1, <4>2, <4>3
      <4>5. i - 1 = k
        BY DEF k
      <4>6. QED
        BY <4>1, <4>4, <4>5
    <3>3. QED
      BY <3>1, <3>2
  <2>3. Along(s) = b[n + 1]
    BY <1>2, <2>1, <2>2, AlongOf
  <2>4. n \in 0 .. n
    OBVIOUS
  <2>5. QED
    BY <1>1, <2>1, <2>3, <2>4
<1>5. QED
  BY <1>3, <1>4

------------------------------------------------------------------------------
(* Orders and routes.                                                         *)

Many == Cardinality(LatencyClients)
Orders == SetToSeqs(LatencyClients)

LEMMA ManyIs == Many \in Nat
BY LatencyAssumption, FS_CardinalityType DEF Many

LEMMA OrderIs ==
    ASSUME NEW order \in Orders
    PROVE  /\ order \in [1 .. Many -> LatencyClients] /\ order \in Seq(LatencyClients) /\ Len(order) = Many
           /\ \A c \in LatencyClients : Position(order, c) \in 1 .. Many /\ order[Position(order, c)] = c
           /\ \A i \in 1 .. Many : Position(order, order[i]) = i
<1> DEFINE n == Many
           C == LatencyClients
<1>1. n \in Nat /\ IsFiniteSet(C) /\ Cardinality(C) = n
  BY ManyIs, LatencyAssumption DEF Many
<1>2. order \in [1 .. n -> C] /\ \A i, j \in 1 .. n : i # j => order[i] # order[j]
  BY DEF Orders, SetToSeqs, Many
<1>3. IsFiniteSet(1 .. n) /\ Cardinality(1 .. n) = n
  <2> HIDE DEF n
  <2>1. IsFiniteSet(1 .. n) /\ Cardinality(1 .. n) = IF 1 > n THEN 0 ELSE n - 1 + 1
    BY <1>1, FS_Interval
  <2>2. QED
    BY <1>1, <2>1
<1>4. order \in Surjection(1 .. n, C)
  <2> HIDE DEF n, C
  <2>1. order \in Injection(1 .. n, C)
    BY <1>2 DEF Injection, IsInjective
  <2>2. QED
    BY <1>1, <1>3, <2>1, FS_Injection
<1>5. \A c \in C : \E i \in 1 .. n : order[i] = c
  BY <1>4 DEF Surjection
<1> HIDE DEF n
<1>6. order \in Seq(C) /\ Len(order) = n /\ DOMAIN order = 1 .. n
  BY <1>1, <1>2
<1>7. \A c \in C : Position(order, c) \in 1 .. n /\ order[Position(order, c)] = c
  BY <1>5, <1>6 DEF Position
<1>8. \A i \in 1 .. n : Position(order, order[i]) = i
  BY <1>2, <1>7
<1>9. QED
  BY <1>2, <1>6, <1>7, <1>8 DEF n

\* The graph has no circle.
Acyclic == \A e \in Feeding : ~OnCircle(e)

LEMMA SortedIs ==
    ASSUME ltOrder \in Sorted, Acyclic
    PROVE  \A d, c \in LatencyClients : <<d, c>> \in Feeding => Position(ltOrder, d) < Position(ltOrder, c)
<1> SUFFICES ASSUME NEW d \in LatencyClients, NEW c \in LatencyClients, <<d, c>> \in Feeding
             PROVE  Position(ltOrder, d) < Position(ltOrder, c)
  OBVIOUS
<1> DEFINE e == <<d, c>>
<1>1. ~OnCircle(e) /\ e \in Feeding
  BY DEF Acyclic
<1>2. OnCircle(e) \/ Position(ltOrder, e[1]) < Position(ltOrder, e[2])
  BY <1>1 DEF Sorted
<1>3. QED
  BY <1>1, <1>2

\* r is a way of n clients through the graph.
Way(n, r) == r \in [1 .. n -> LatencyClients] /\ \A i \in 1 .. n - 1 : <<r[i], r[i + 1]>> \in Feeding

\* It visits nobody twice.
LEMMA WaysAreShort ==
    ASSUME ltOrder \in Sorted, Acyclic, NEW n \in Nat, NEW r, Way(n, r)
    PROVE  n <= Many
<1>1. ltOrder \in Orders /\ Many \in Nat
  BY ManyIs DEF Sorted, Orders
<1>2. \A c \in LatencyClients : Position(ltOrder, c) \in 1 .. Many
  BY <1>1, OrderIs
<1> DEFINE at(i) == Position(ltOrder, r[i])
           bad == {i \in 1 .. n : at(i) < i}
<1>3. \A i \in 1 .. n : r[i] \in LatencyClients /\ at(i) \in 1 .. Many
  BY <1>2 DEF Way
<1>4. bad = {}
  <2> SUFFICES ASSUME bad # {} PROVE FALSE
    OBVIOUS
  <2>1. PICK m \in bad : \A k \in bad : m <= k
    <3>1. bad \in SUBSET Nat
      OBVIOUS
    <3> HIDE DEF bad
    <3>2. QED
      BY <3>1, LeastExists
  <2>2. m # 1
    BY <1>1, <1>3
  <2> DEFINE k == m - 1
  <2>3. k \in 1 .. n - 1 /\ k \in 1 .. n /\ k \notin bad /\ k + 1 = m
    BY <2>1, <2>2
  <2>4. <<r[k], r[m]>> \in Feeding /\ r[k] \in LatencyClients /\ r[m] \in LatencyClients
    BY <1>3, <2>3 DEF Way
  <2>5. at(k) < at(m)
    BY <2>4, SortedIs
  <2>6. at(k) >= k /\ at(k) \in Nat /\ at(m) \in Nat /\ at(m) < m
    BY <1>1, <1>3, <2>3
  <2> HIDE DEF at, bad, k
  <2>7. QED
    BY <2>3, <2>5, <2>6
<1>5. CASE n = 0
  BY <1>1, <1>5
<1>6. CASE n # 0
  <2>1. n \in 1 .. n
    BY <1>6
  <2>2. at(n) >= n /\ at(n) \in 1 .. Many
    BY <1>1, <1>3, <1>4, <2>1
  <2> HIDE DEF at
  <2>3. QED
    BY <1>1, <2>2
<1>7. QED
  BY <1>5, <1>6

LEMMA RoutesAre ==
    ASSUME ltOrder \in Sorted, Acyclic
    PROVE  \A r : r \in Routes <=> \E n \in Nat : n >= 1 /\ Way(n, r)
<1>1. ASSUME NEW r, r \in Routes PROVE \E n \in Nat : n >= 1 /\ Way(n, r)
  <2>1. PICK n \in 1 .. Many : r \in [1 .. n -> LatencyClients]
    BY <1>1 DEF Routes, Many
  <2>2. n \in Nat /\ n >= 1
    BY <2>1, ManyIs
  <2>3. Len(r) = n
    BY <2>1, <2>2
  <2>4. Way(n, r)
    BY <1>1, <2>1, <2>3 DEF Routes, Way
  <2>5. QED
    BY <2>2, <2>4
<1>2. ASSUME NEW r, NEW n \in Nat, n >= 1, Way(n, r) PROVE r \in Routes
  <2>1. n <= Many
    BY <1>2, WaysAreShort
  <2>2. n \in 1 .. Many /\ r \in [1 .. n -> LatencyClients]
    BY <1>2, <2>1, ManyIs DEF Way
  <2>3. Len(r) = n
    BY <2>2
  <2>4. QED
    BY <1>2, <2>2, <2>3 DEF Routes, Way, Many
<1>3. QED
  BY <1>1, <1>2

\* Who is asked before c.
Preceding(c, mode) ==
    {d \in LatencyClients : IF mode = "capture" THEN <<d, c>> \in Feeding ELSE <<c, d>> \in Feeding}

LEMMA ThroughHas ==
    ASSUME NEW c, NEW mode
    PROVE  \A x : x \in Through(c, mode) <=>
              \E r \in Routes : Near(r, mode) = c
                 /\ \E n \in Outside(Far(r, mode), mode) : x = n + Along(r)
BY DEF Through

LtTypeOK ==
    /\ ltKind \in {"callback", "plain"}
    /\ ltConns \subseteq Outs \X Ins
    /\ ltRange \in [Modes -> [Ports -> LatencyRanges]]
    /\ ltLatency \in [Ports -> Nat] /\ ltTotal \in [Ports -> Nat]
    /\ ltFrames \in Nat /\ ltStale \in BOOLEAN
    /\ ltChanges \in [sorts : Nat, sizes : Nat, recomputes : Nat]

LEMMA OutsideIs ==
    ASSUME LtTypeOK, NEW c, NEW mode \in Modes
    PROVE  Outside(c, mode) \subseteq Nat
<1>1. \A q \in Terminal : q \in Ports
  BY DEF Terminal, Ports, Ins, Outs, Owners
<1>2. \A q \in Ports : ltRange[mode][q].max \in Nat
  BY DEF LtTypeOK, LatencyRanges
<1>3. QED
  BY <1>1, <1>2 DEF Outside

\* What goes through a client comes from outside, or through another before it.
LEMMA ThroughIs ==
    ASSUME LtTypeOK, ltOrder \in Sorted, Acyclic, NEW c \in LatencyClients, NEW mode \in Modes
    PROVE  Through(c, mode) =
             {n + Delay[c] : n \in Outside(c, mode) \cup UNION {Through(d, mode) : d \in Preceding(c, mode)}}
<1> DEFINE all == Outside(c, mode) \cup UNION {Through(d, mode) : d \in Preceding(c, mode)}
<1>1. ASSUME NEW x, x \in Through(c, mode) PROVE \E n \in all : x = n + Delay[c]
  <2>1. PICK r \in Routes : Near(r, mode) = c /\ \E n \in Outside(Far(r, mode), mode) : x = n + Along(r)
    BY <1>1, ThroughHas
  <2>2. PICK n \in Outside(Far(r, mode), mode) : x = n + Along(r)
    BY <2>1
  <2>3. PICK k \in Nat : k >= 1 /\ Way(k, r)
    BY RoutesAre
  <2>4. r \in [1 .. k -> LatencyClients] /\ Len(r) = k
    BY <2>3 DEF Way
  <2>5. CASE k = 1
    <3>1. r = <<r[1]>> /\ r[1] = c /\ Far(r, mode) = c
      BY <2>1, <2>4, <2>5 DEF Near, Far
    <3>2. Along(r) = Delay[c]
      BY <3>1, AlongOne
    <3>3. QED
      BY <2>2, <3>1, <3>2
  <2>6. CASE k # 1 /\ mode = "capture"
    <3> DEFINE j == k - 1
               s == [i \in 1 .. j |-> r[i]]
    <3>1. j \in Nat /\ j >= 1 /\ j + 1 = k
      BY <2>3, <2>6
    <3> HIDE DEF j
    <3>2. s \in [1 .. j -> LatencyClients] /\ Len(s) = j /\ (\A i \in 1 .. j : s[i] = r[i])
      BY <2>4, <3>1
    <3> HIDE DEF s
    <3>3. Way(j, s)
      <4>1. ASSUME NEW i \in 1 .. j - 1 PROVE <<s[i], s[i + 1]>> \in Feeding
        <5>1. i \in 1 .. j /\ i + 1 \in 1 .. j /\ i \in 1 .. k - 1
          BY <3>1
        <5>2. QED
          BY <2>3, <3>2, <5>1 DEF Way
      <4>2. QED
        BY <3>2, <4>1 DEF Way
    <3>4. s \in Routes
      BY <3>1, <3>3, RoutesAre
    <3>5. 1 \in 1 .. j /\ j \in 1 .. j /\ j \in 1 .. k - 1 /\ k \in 1 .. k
      BY <3>1
    <3>6. r[k] = c /\ Far(r, mode) = r[1] /\ Near(s, mode) = r[j] /\ Far(s, mode) = r[1]
      BY <2>1, <2>4, <2>6, <3>2, <3>5 DEF Near, Far
    <3>7. r[j] \in LatencyClients /\ <<r[j], c>> \in Feeding
      <4>1. r[j] = s[j] /\ <<r[j], r[j + 1]>> \in Feeding
        BY <2>3, <3>2, <3>5 DEF Way
      <4>2. QED
        BY <3>1, <3>2, <3>5, <3>6, <4>1
    <3>8. r[j] \in Preceding(c, mode)
      BY <2>6, <3>7 DEF Preceding
    <3>9. Along(s) \in Nat /\ Along(r) = Along(s) + Delay[c]
      BY <2>4, <3>1, <3>2, <3>6, AlongLonger
    <3>10. n + Along(s) \in Through(r[j], mode)
      BY <2>2, <3>4, <3>6, ThroughHas
    <3>11. n + Along(s) \in all
      BY <3>8, <3>10
    <3>12. n \in Nat /\ Delay[c] \in Nat
      BY <2>2, OutsideIs, LatencyAssumption
    <3>13. x = n + Along(s) + Delay[c]
      BY <2>2, <3>9, <3>12
    <3>14. QED
      BY <3>11, <3>13
  <2>7. CASE k # 1 /\ mode # "capture"
    <3> DEFINE j == k - 1
               s == [i \in 1 .. j |-> r[i + 1]]
    <3>1. j \in Nat /\ j >= 1 /\ j + 1 = k
      BY <2>3, <2>7
    <3> HIDE DEF j
    <3>2. s \in [1 .. j -> LatencyClients] /\ Len(s) = j /\ (\A i \in 1 .. j : r[i + 1] = s[i])
      <4>1. \A i \in 1 .. j : i + 1 \in 1 .. k
        BY <3>1
      <4>2. QED
        BY <2>4, <3>1, <4>1
    <3> HIDE DEF s
    <3>3. Way(j, s)
      <4>1. ASSUME NEW i \in 1 .. j - 1 PROVE <<s[i], s[i + 1]>> \in Feeding
        <5>1. i \in 1 .. j /\ i + 1 \in 1 .. j /\ i + 1 \in 1 .. k - 1
          BY <3>1
        <5>2. r[i + 1] = s[i] /\ r[i + 1 + 1] = s[i + 1]
          BY <3>2, <5>1
        <5>3. QED
          BY <2>3, <5>1, <5>2 DEF Way
      <4>2. QED
        BY <3>2, <4>1 DEF Way
    <3>4. s \in Routes
      BY <3>1, <3>3, RoutesAre
    <3>5. 1 \in 1 .. j /\ j \in 1 .. j /\ 1 \in 1 .. k - 1 /\ k \in 1 .. k /\ 1 \in 1 .. k
      BY <3>1
    <3> DEFINE d == s[1]
    <3>6. r[1] = c /\ r[1 + 1] = d /\ Far(r, mode) = r[k] /\ Near(s, mode) = d /\ Far(s, mode) = r[k]
      BY <2>1, <2>4, <2>7, <3>1, <3>2, <3>5 DEF Near, Far
    <3>7. d \in LatencyClients /\ <<c, d>> \in Feeding
      BY <2>3, <3>2, <3>5, <3>6 DEF Way
    <3> HIDE DEF d
    <3>8. d \in Preceding(c, mode)
      BY <2>7, <3>7 DEF Preceding
    <3>9. Along(s) \in Nat /\ Along(r) = Along(s) + Delay[c]
      <4>1. r \in [1 .. j + 1 -> LatencyClients]
        BY <2>4, <3>1
      <4>2. QED
        BY <3>1, <3>2, <3>6, <4>1, AlongLonger
    <3>10. n + Along(s) \in Through(d, mode)
      BY <2>2, <3>4, <3>6, ThroughHas
    <3>11. n + Along(s) \in all
      BY <3>8, <3>10
    <3>12. n \in Nat /\ Delay[c] \in Nat
      BY <2>2, OutsideIs, LatencyAssumption
    <3>13. x = n + Along(s) + Delay[c]
      BY <2>2, <3>9, <3>12
    <3>14. QED
      BY <3>11, <3>13
  <2>8. QED
    BY <2>5, <2>6, <2>7, Zenon
<1>2. ASSUME NEW n \in Outside(c, mode) PROVE n + Delay[c] \in Through(c, mode)
  <2> DEFINE r == <<c>>
  <2>1. r \in [1 .. 1 -> LatencyClients] /\ Len(r) = 1 /\ r[1] = c /\ Along(r) = Delay[c]
    BY AlongOne
  <2> HIDE DEF r
  <2>2. Way(1, r)
    BY <2>1 DEF Way
  <2>3. r \in Routes /\ Near(r, mode) = c /\ Far(r, mode) = c
    BY <2>1, <2>2, RoutesAre DEF Near, Far
  <2>4. QED
    BY <2>1, <2>3, ThroughHas
<1>3. ASSUME NEW d \in Preceding(c, mode), NEW x \in Through(d, mode) PROVE x + Delay[c] \in Through(c, mode)
  <2>1. PICK r \in Routes : Near(r, mode) = d /\ \E n \in Outside(Far(r, mode), mode) : x = n + Along(r)
    BY <1>3, ThroughHas
  <2>2. PICK n \in Outside(Far(r, mode), mode) : x = n + Along(r)
    BY <2>1
  <2>3. PICK k \in Nat : k >= 1 /\ Way(k, r)
    BY RoutesAre
  <2>4. r \in [1 .. k -> LatencyClients] /\ Len(r) = k /\ k + 1 \in Nat
        /\ (\A i \in 1 .. k - 1 : <<r[i], r[i + 1]>> \in Feeding)
    BY <2>3 DEF Way
  <2>5. n \in Nat /\ Delay[c] \in Nat
    BY <2>2, OutsideIs, LatencyAssumption
  <2>6. ASSUME NEW s, Way(k + 1, s), Near(s, mode) = c, Far(s, mode) = Far(r, mode),
               Along(r) \in Nat /\ Along(s) = Along(r) + Delay[c]
        PROVE  x + Delay[c] \in Through(c, mode)
    <3>1. s \in Routes
      BY <2>3, <2>4, <2>6, RoutesAre
    <3>2. x + Delay[c] = n + Along(s)
      BY <2>2, <2>5, <2>6
    <3>3. QED
      BY <2>2, <2>6, <3>1, <3>2, ThroughHas
  <2>7. CASE mode = "capture"
    <3> DEFINE s == [i \in 1 .. k + 1 |-> IF i <= k THEN r[i] ELSE c]
    <3>1. s \in [1 .. k + 1 -> LatencyClients] /\ Len(s) = k + 1 /\ s[k + 1] = c
          /\ (\A i \in 1 .. k : s[i] = r[i])
      BY <2>4
    <3> HIDE DEF s
    <3>2. r[k] = d /\ <<d, c>> \in Feeding
      BY <2>1, <2>4, <2>7, <1>3 DEF Near, Preceding
    <3>3. Way(k + 1, s)
      <4>1. ASSUME NEW i \in 1 .. k + 1 - 1 PROVE <<s[i], s[i + 1]>> \in Feeding
        <5>1. CASE i = k
          BY <2>3, <3>1, <3>2, <5>1
        <5>2. CASE i # k
          <6>1. i \in 1 .. k - 1 /\ i \in 1 .. k /\ i + 1 \in 1 .. k
            BY <2>3, <5>2
          <6>2. QED
            BY <2>4, <3>1, <6>1
        <5>3. QED
          BY <5>1, <5>2
      <4>2. QED
        BY <3>1, <4>1 DEF Way
    <3>4. Near(s, mode) = c /\ Far(s, mode) = Far(r, mode)
      BY <2>3, <2>7, <3>1 DEF Near, Far
    <3>5. Along(r) \in Nat /\ Along(s) = Along(r) + Delay[c]
      BY <2>4, <3>1, AlongLonger
    <3>6. QED
      BY <2>6, <3>3, <3>4, <3>5
  <2>8. CASE mode # "capture"
    <3> DEFINE s == [i \in 1 .. k + 1 |-> IF i = 1 THEN c ELSE r[i - 1]]
    <3>1. s \in [1 .. k + 1 -> LatencyClients] /\ Len(s) = k + 1 /\ s[1] = c
          /\ (\A i \in 1 .. k : s[i + 1] = r[i])
      <4>1. \A i \in 1 .. k : i + 1 \in 1 .. k + 1 /\ i + 1 # 1 /\ i + 1 - 1 = i
        BY <2>3
      <4>2. \A i \in 1 .. k + 1 : i # 1 => i - 1 \in 1 .. k
        BY <2>3
      <4>3. \A i \in 1 .. k + 1 : s[i] \in LatencyClients
        BY <2>4, <4>2
      <4>4. \A i \in 1 .. k : s[i + 1] = r[i + 1 - 1]
        BY <4>1
      <4>5. QED
        BY <2>4, <4>1, <4>3, <4>4
    <3> HIDE DEF s
    <3>2. r[1] = d /\ <<c, d>> \in Feeding
      BY <2>1, <2>4, <2>8, <1>3 DEF Near, Preceding
    <3>3. Way(k + 1, s)
      <4>1. ASSUME NEW i \in 1 .. k + 1 - 1 PROVE <<s[i], s[i + 1]>> \in Feeding
        <5>1. CASE i = 1
          <6>1. s[1 + 1] = r[1]
            BY <2>3, <3>1
          <6>2. QED
            BY <3>1, <3>2, <5>1, <6>1
        <5>2. CASE i # 1
          <6> DEFINE j == i - 1
          <6>1. j \in 1 .. k - 1 /\ j \in 1 .. k /\ i = j + 1 /\ i \in 1 .. k
            BY <2>3, <5>2
          <6> HIDE DEF j
          <6>2. s[i] = r[j] /\ s[i + 1] = r[i]
            BY <3>1, <6>1
          <6>3. QED
            BY <2>4, <6>1, <6>2
        <5>3. QED
          BY <5>1, <5>2
      <4>2. QED
        BY <3>1, <4>1 DEF Way
    <3>4. Near(s, mode) = c /\ Far(s, mode) = Far(r, mode)
      <4>1. s[k + 1] = r[k]
        BY <2>3, <3>1
      <4>2. QED
        BY <2>4, <2>8, <3>1, <4>1 DEF Near, Far
    <3>5. Along(r) \in Nat /\ Along(s) = Along(r) + Delay[c]
      BY <2>4, <3>1, AlongLonger
    <3>6. QED
      BY <2>6, <3>3, <3>4, <3>5
  <2>9. QED
    BY <2>7, <2>8
<1>4. ASSUME NEW n \in all PROVE n + Delay[c] \in Through(c, mode)
  BY <1>2, <1>3
<1>5. QED
  <2>1. Through(c, mode) = {n + Delay[c] : n \in all}
    <3> HIDE DEF all
    <3>1. QED
      BY <1>1, <1>4
  <2>2. QED
    BY <2>1

------------------------------------------------------------------------------
(* A client's turn.                                                           *)

LEMMA PortsOfOwners ==
    /\ IsFiniteSet(Ports)
    /\ \A c \in Owners : InPorts[c] \subseteq Ins /\ OutPorts[c] \subseteq Outs
    /\ \A a, b \in Owners : \A p \in InPorts[a] \cup OutPorts[a] : p \in InPorts[b] \cup OutPorts[b] => a = b
    /\ \A c \in Owners : \A p \in InPorts[c] \cup OutPorts[c] : ClientOf(p) = c
    /\ \A p \in Ports : ClientOf(p) \in Owners /\ p \in InPorts[ClientOf(p)] \cup OutPorts[ClientOf(p)]
<1>1. IsFiniteSet(Ports) /\ \A c \in Owners : InPorts[c] \subseteq Ins /\ OutPorts[c] \subseteq Outs
  BY LatencyAssumption DEF Ports, Ins, Outs
<1>2. ASSUME NEW a \in Owners, NEW b \in Owners, NEW p \in InPorts[a] \cup OutPorts[a],
             p \in InPorts[b] \cup OutPorts[b]
      PROVE  a = b
  BY <1>1, <1>2, LatencyAssumption
<1>3. ASSUME NEW c \in Owners, NEW p \in InPorts[c] \cup OutPorts[c]
      PROVE  ClientOf(p) = c
  BY <1>2 DEF ClientOf
<1>4. ASSUME NEW p \in Ports
      PROVE  ClientOf(p) \in Owners /\ p \in InPorts[ClientOf(p)] \cup OutPorts[ClientOf(p)]
  <2>1. \E c \in Owners : p \in InPorts[c] \cup OutPorts[c]
    BY DEF Ports, Ins, Outs
  <2>2. QED
    BY <2>1 DEF ClientOf
<1>5. QED
  BY <1>1, <1>2, <1>3, <1>4

\* What a port takes over from.
LEMMA NeighboursAre ==
    ASSUME LtTypeOK, NEW c \in Owners, NEW mode \in Modes, NEW p \in Taking(c, mode)
    PROVE  \A q \in ConnectedTo(p) :
              /\ q \in Ports
              /\ q \in Terminal => q \in Depending(Driver, mode)
              /\ q \notin Terminal =>
                    /\ ClientOf(q) \in LatencyClients /\ q \in Depending(ClientOf(q), mode)
                    /\ c \in LatencyClients => ClientOf(q) \in Preceding(c, mode)
<1> SUFFICES ASSUME NEW q \in ConnectedTo(p)
             PROVE  /\ q \in Ports
                    /\ q \in Terminal => q \in Depending(Driver, mode)
                    /\ q \notin Terminal =>
                          /\ ClientOf(q) \in LatencyClients /\ q \in Depending(ClientOf(q), mode)
                          /\ c \in LatencyClients => ClientOf(q) \in Preceding(c, mode)
  OBVIOUS
<1> DEFINE d == ClientOf(q)
<1>1. q \in Ports /\ d \in Owners /\ q \in InPorts[d] \cup OutPorts[d] /\ Driver \in Owners
  BY PortsOfOwners DEF ConnectedTo, Owners
<1>2. q \notin Terminal => d \in LatencyClients
  BY <1>1 DEF Terminal, Owners
<1>3. <<p, q>> \in ltConns \/ <<q, p>> \in ltConns
  BY DEF ConnectedTo
<1> HIDE DEF d
<1>4. CASE mode = "capture"
  <2>1. p \in InPorts[c] /\ p \in Ins /\ p \notin Outs
    BY <1>4, PortsOfOwners, LatencyAssumption DEF Taking
  <2>2. <<q, p>> \in ltConns /\ q \in Outs /\ q \notin Ins
    BY <1>3, <2>1, LatencyAssumption DEF LtTypeOK
  <2>3. \A a \in Owners : q \in InPorts[a] \cup OutPorts[a] => q \in OutPorts[a]
    BY <2>2, PortsOfOwners
  <2>4. q \in OutPorts[d] /\ (q \in Terminal => q \in OutPorts[Driver])
    BY <1>1, <2>3 DEF Terminal
  <2>5. q \notin Terminal /\ c \in LatencyClients => d \in Preceding(c, mode)
    BY <1>2, <1>4, <2>1, <2>2, <2>4 DEF Preceding, Feeding, Feeds
  <2>6. QED
    BY <1>1, <1>2, <1>4, <2>4, <2>5 DEF Depending, d
<1>5. CASE mode # "capture"
  <2>1. p \in OutPorts[c] /\ p \in Outs /\ p \notin Ins
    BY <1>5, PortsOfOwners, LatencyAssumption DEF Taking
  <2>2. <<p, q>> \in ltConns /\ q \in Ins /\ q \notin Outs
    BY <1>3, <2>1, LatencyAssumption DEF LtTypeOK
  <2>3. \A a \in Owners : q \in InPorts[a] \cup OutPorts[a] => q \in InPorts[a]
    BY <2>2, PortsOfOwners
  <2>4. q \in InPorts[d] /\ (q \in Terminal => q \in InPorts[Driver])
    BY <1>1, <2>3 DEF Terminal
  <2>5. q \notin Terminal /\ c \in LatencyClients => d \in Preceding(c, mode)
    BY <1>2, <1>5, <2>1, <2>2, <2>4 DEF Preceding, Feeding, Feeds
  <2>6. QED
    BY <1>1, <1>2, <1>5, <2>4, <2>5 DEF Depending, d
<1>6. QED
  BY <1>4, <1>5

LEMMA EarlierAreNeighbours ==
    ASSUME LtTypeOK, NEW c \in LatencyClients, NEW mode \in Modes, NEW d \in Preceding(c, mode)
    PROVE  \E p \in Taking(c, mode) : \E q \in ConnectedTo(p) \ Terminal : ClientOf(q) = d
<1>1. d \in LatencyClients /\ d \in Owners /\ c \in Owners /\ Driver \in Owners /\ d # Driver
  BY LatencyAssumption DEF Preceding, Owners
<1>2. ASSUME NEW q \in InPorts[d] \cup OutPorts[d]
      PROVE  q \in Ports /\ q \notin Terminal /\ ClientOf(q) = d
  BY <1>1, PortsOfOwners DEF Terminal, Ports
<1>3. CASE mode = "capture"
  <2>1. PICK o \in OutPorts[d], i \in InPorts[c] : <<o, i>> \in ltConns
    BY <1>3 DEF Preceding, Feeding, Feeds
  <2>2. QED
    BY <1>2, <1>3, <2>1 DEF Taking, ConnectedTo
<1>4. CASE mode # "capture"
  <2>1. PICK o \in OutPorts[c], i \in InPorts[d] : <<o, i>> \in ltConns
    BY <1>4 DEF Preceding, Feeding, Feeds
  <2>2. QED
    BY <1>2, <1>4, <2>1 DEF Taking, ConnectedTo
<1>5. QED
  BY <1>3, <1>4

\* The latencies that the driver gives are numbers.
SourcesExact == \A mode \in Modes : \A q \in Depending(Driver, mode) : ltRange[mode][q].min = ltRange[mode][q].max

\* A client's latencies are those of its routes.
IsRight(c, mode) ==
    /\ \A p \in Taking(c, mode) : ltRange[mode][p] = RangeOf(AlongRoutes(p, mode))
    /\ \A p \in Depending(c, mode) : ltRange[mode][p] = RangeOf(Through(c, mode))
    /\ Ends(Through(c, mode))

LEMMA TakesOver ==
    ASSUME LtTypeOK, SourcesExact, NEW c \in Owners, NEW mode \in Modes, NEW p \in Taking(c, mode),
           \A q \in ConnectedTo(p) \ Terminal : IsRight(ClientOf(q), mode)
    PROVE  /\ jack_port_recalculate_latency(p, mode) = RangeOf(AlongRoutes(p, mode))
           /\ ConnectedTo(p) # {} => Ends(AlongRoutes(p, mode))
<1> DEFINE near == ConnectedTo(p)
           given == [q \in near |-> ltRange[mode][q]]
           sums == [q \in near |-> IF q \in Terminal THEN {ltRange[mode][q].max} ELSE Through(ClientOf(q), mode)]
<1>1. IsFiniteSet(near)
  BY PortsOfOwners, FS_Subset DEF ConnectedTo
<1>2. AlongRoutes(p, mode) = UNION {sums[q] : q \in near}
  BY DEF AlongRoutes
<1>3. jack_port_recalculate_latency(p, mode) = Spread({given[q] : q \in near})
  BY DEF jack_port_recalculate_latency
<1>4. ASSUME NEW q \in near PROVE Ends(sums[q]) /\ given[q] = RangeOf(sums[q])
  <2>1. /\ q \in Ports
        /\ q \in Terminal => q \in Depending(Driver, mode)
        /\ q \notin Terminal => ClientOf(q) \in LatencyClients /\ q \in Depending(ClientOf(q), mode)
    BY NeighboursAre
  <2>2. CASE q \in Terminal
    <3> DEFINE r == ltRange[mode][q]
    <3>1. r \in LatencyRanges /\ r.min = r.max
      BY <2>1, <2>2 DEF LtTypeOK, SourcesExact
    <3> HIDE DEF r
    <3>2. r = Exactly(r.max) /\ r.max \in Nat
      BY <3>1 DEF LatencyRanges, Exactly
    <3>3. r = RangeOf({r.max}) /\ Ends({r.max})
      BY <3>2, RangeOfOne
    <3>4. sums[q] = {r.max} /\ given[q] = r
      BY <2>2 DEF r
    <3>5. QED
      BY <3>3, <3>4
  <2>3. CASE q \notin Terminal
    <3>1. IsRight(ClientOf(q), mode)
      BY <2>3
    <3>2. QED
      BY <2>1, <2>3, <3>1 DEF IsRight
  <2>4. QED
    BY <2>2, <2>3
<1> DEFINE all == UNION {sums[q] : q \in near}
           ranges == {given[q] : q \in near}
<1> HIDE DEF near, given, sums
<1>5. CASE near = {}
  <2>1. {given[q] : q \in near} = {} /\ UNION {sums[q] : q \in near} = {}
    BY <1>5
  <2>2. RangeOf({}) = Spread({})
    BY RangeOfNothing DEF Spread
  <2>3. QED
    BY <1>2, <1>3, <1>5, <2>1, <2>2 DEF near
<1>6. CASE near # {}
  <2>1. RangesOf(near, given, sums) /\ ValuesOf(ranges, near, given) /\ AllOf(all, near, sums)
    BY <1>4 DEF RangesOf, ValuesOf, AllOf
  <2>2. Ends(all) /\ Spread(ranges) = RangeOf(all)
    <3> HIDE DEF all, ranges
    <3>1. QED
      BY <1>1, <1>6, <2>1, SpreadOfSpreads
  <2>3. QED
    BY <1>2, <1>3, <2>2
<1>7. QED
  BY <1>5, <1>6

\* The sums that reach a client.
LEMMA ReachIs ==
    ASSUME LtTypeOK, NEW c \in LatencyClients, NEW mode \in Modes, Taking(c, mode) # {}
    PROVE  Outside(c, mode) \cup UNION {Through(d, mode) : d \in Preceding(c, mode)}
             = UNION {IF ConnectedTo(p) = {} THEN {0} ELSE AlongRoutes(p, mode) : p \in Taking(c, mode)}
<1> DEFINE all == Outside(c, mode) \cup UNION {Through(d, mode) : d \in Preceding(c, mode)}
           A(p) == IF ConnectedTo(p) = {} THEN {0} ELSE AlongRoutes(p, mode)
<1>1. c \in Owners
  BY DEF Owners
<1>2. ASSUME NEW x \in all PROVE \E p \in Taking(c, mode) : x \in A(p)
  <2>1. CASE \E p \in Taking(c, mode) : \E q \in Terminal \cap ConnectedTo(p) : x = ltRange[mode][q].max
    BY <2>1 DEF AlongRoutes
  <2>2. CASE x = 0 /\ \E p \in Taking(c, mode) : ConnectedTo(p) = {}
    BY <2>2
  <2>3. CASE \E d \in Preceding(c, mode) : x \in Through(d, mode)
    <3>1. PICK d \in Preceding(c, mode) : x \in Through(d, mode)
      BY <2>3
    <3>2. PICK p \in Taking(c, mode) : \E q \in ConnectedTo(p) \ Terminal : ClientOf(q) = d
      BY EarlierAreNeighbours
    <3>3. QED
      BY <3>1, <3>2 DEF AlongRoutes
  <2>4. x \in Outside(c, mode) \/ \E d \in Preceding(c, mode) : x \in Through(d, mode)
    OBVIOUS
  <2>5. QED
    BY <2>1, <2>2, <2>3, <2>4 DEF Outside
<1>3. ASSUME NEW p \in Taking(c, mode), NEW x \in A(p) PROVE x \in all
  <2>1. CASE ConnectedTo(p) = {}
    BY <2>1 DEF Outside
  <2>2. CASE \E q \in ConnectedTo(p) \cap Terminal : x = ltRange[mode][q].max
    BY <2>2 DEF Outside
  <2>3. CASE \E q \in ConnectedTo(p) \ Terminal : x \in Through(ClientOf(q), mode)
    <3>1. PICK q \in ConnectedTo(p) \ Terminal : x \in Through(ClientOf(q), mode)
      BY <2>3
    <3>2. ClientOf(q) \in Preceding(c, mode)
      BY <1>1, NeighboursAre
    <3>3. QED
      BY <3>1, <3>2
  <2>4. QED
    BY <2>1, <2>2, <2>3 DEF AlongRoutes
<1>4. QED
  BY <1>2, <1>3

\* A client that is asked after all those its latencies are made of answers right.
LEMMA TurnIsRight ==
    ASSUME LtTypeOK, SourcesExact, ltOrder \in Sorted, Acyclic,
           NEW c \in LatencyClients, NEW mode \in Modes, \A d \in Preceding(c, mode) : IsRight(d, mode)
    PROVE  /\ \A p \in Taking(c, mode) : Recalculated(c, mode)[p] = RangeOf(AlongRoutes(p, mode))
           /\ Plus(Spread({Recalculated(c, mode)[q] : q \in Taking(c, mode)}), Delay[c])
                = RangeOf(Through(c, mode))
           /\ Ends(Through(c, mode))
<1> DEFINE takes == Taking(c, mode)
           now == Recalculated(c, mode)
           through == [p \in takes |-> IF ConnectedTo(p) = {} THEN {0} ELSE AlongRoutes(p, mode)]
           reach == Outside(c, mode) \cup UNION {Through(d, mode) : d \in Preceding(c, mode)}
<1>1. c \in Owners /\ takes \subseteq Ports /\ IsFiniteSet(takes) /\ Delay[c] \in Nat
  <2>1. c \in Owners /\ Delay[c] \in Nat
    BY LatencyAssumption DEF Owners
  <2>2. takes \subseteq Ports
    BY <2>1, PortsOfOwners DEF Taking, Ports
  <2>3. IsFiniteSet(takes)
    <3> HIDE DEF takes
    <3>1. QED
      BY <2>2, PortsOfOwners, FS_Subset
  <2>4. QED
    BY <2>1, <2>2, <2>3
<1>2. ASSUME NEW p \in takes
      PROVE  /\ now[p] = RangeOf(AlongRoutes(p, mode))
             /\ Ends(through[p]) /\ now[p] = RangeOf(through[p])
  <2>1. \A q \in ConnectedTo(p) \ Terminal : IsRight(ClientOf(q), mode)
    BY <1>1, NeighboursAre
  <2>2. /\ jack_port_recalculate_latency(p, mode) = RangeOf(AlongRoutes(p, mode))
        /\ ConnectedTo(p) # {} => Ends(AlongRoutes(p, mode))
    BY <1>1, <2>1, TakesOver
  <2>3. now[p] = jack_port_recalculate_latency(p, mode)
    BY <1>1 DEF Recalculated
  <2>4. CASE ConnectedTo(p) = {}
    <3>1. AlongRoutes(p, mode) = {}
      BY <2>4 DEF AlongRoutes
    <3>2. RangeOf({}) = RangeOf({0}) /\ Ends({0})
      BY RangeOfNothing, RangeOfOne
    <3>3. QED
      BY <2>2, <2>3, <2>4, <3>1, <3>2
  <2>5. CASE ConnectedTo(p) # {}
    BY <2>2, <2>3, <2>5
  <2>6. QED
    BY <2>4, <2>5
<1>3. Through(c, mode) = {n + Delay[c] : n \in reach}
  BY ThroughIs
<1>4. Ends(reach) /\ Spread({now[p] : p \in takes}) = RangeOf(reach)
  <2>1. CASE takes # {}
    <3>1. reach = UNION {through[p] : p \in takes}
      <4>1. reach = UNION {IF ConnectedTo(p) = {} THEN {0} ELSE AlongRoutes(p, mode) : p \in takes}
        BY <2>1, ReachIs
      <4> HIDE DEF reach, takes
      <4>2. QED
        BY <4>1
    <3> DEFINE given == [p \in takes |-> now[p]]
               spread == {now[p] : p \in takes}
    <3>2. RangesOf(takes, given, through)
      BY <1>2 DEF RangesOf
    <3>3. ValuesOf(spread, takes, given)
      BY DEF ValuesOf
    <3>4. AllOf(reach, takes, through)
      BY <3>1 DEF AllOf
    <3>5. Ends(reach) /\ Spread(spread) = RangeOf(reach)
      <4> HIDE DEF reach, through, now, takes, given, spread
      <4>1. QED
        BY <1>1, <2>1, <3>2, <3>3, <3>4, SpreadOfSpreads
    <3>6. QED
      BY <3>5
  <2>2. CASE takes = {}
    <3>1. Outside(c, mode) = {0} /\ Preceding(c, mode) = {}
      BY <2>2, EarlierAreNeighbours DEF Outside
    <3>2. reach = {0} /\ {now[p] : p \in takes} = {}
      BY <2>2, <3>1
    <3> HIDE DEF reach, now, takes
    <3>3. Spread({}) = RangeOf({0}) /\ Ends({0})
      BY RangeOfOne DEF Spread
    <3>4. QED
      BY <3>2, <3>3
  <2>3. QED
    BY <2>1, <2>2
<1>5. QED
  <2> HIDE DEF reach, through
  <2>1. Plus(RangeOf(reach), Delay[c]) = RangeOf(Through(c, mode)) /\ Ends(Through(c, mode))
    BY <1>1, <1>3, <1>4, PlusRange
  <2>2. QED
    BY <1>2, <1>4, <2>1

------------------------------------------------------------------------------
(* A pass over the clients.                                                   *)

\* The j-th event of a pass.
TheEvent(order, j) ==
    IF j = 1 \/ j = Many + 2 THEN <<Driver, "capture">>
    ELSE IF j <= Many + 1 THEN <<order[j - 1], "capture">>
    ELSE IF j <= 2 * Many + 2 THEN <<order[2 * Many + 3 - j], "playback">>
    ELSE <<Driver, "playback">>

\* When a client is asked.
Turn(c, mode) == IF mode = "capture" THEN Position(ltOrder, c) + 1 ELSE 2 * Many + 3 - Position(ltOrder, c)
Pass == 2 * Many + 4

LEMMA PassIs ==
    ASSUME NEW order \in Orders
    PROVE  /\ Pass \in Nat /\ jack_compute_new_latency(order) \in Seq(Owners \X Modes)
           /\ Len(jack_compute_new_latency(order)) = Pass
           /\ \A j \in 1 .. Pass : jack_compute_new_latency(order)[j] = TheEvent(order, j)
<1> DEFINE n == Many
           list == <<Driver>> \o order
           there == Append(list, Driver)
           back == Append(Reverse(list), Driver)
           a == Asks(there, "capture")
           b == Asks(back, "playback")
<1>1. n \in Nat /\ order \in [1 .. n -> LatencyClients] /\ Len(order) = n /\ order \in Seq(Owners)
      /\ Driver \in Owners
  BY ManyIs, OrderIs DEF Owners
<1> HIDE DEF n
<1>2. list \in Seq(Owners) /\ Len(list) = n + 1 /\ list[1] = Driver
      /\ \A j \in 2 .. n + 1 : list[j] = order[j - 1]
  BY <1>1
<1> HIDE DEF list
<1>3. Reverse(list) \in Seq(Owners) /\ Len(Reverse(list)) = n + 1
      /\ \A j \in 1 .. n + 1 : Reverse(list)[j] = list[n + 2 - j]
  <2>1. Reverse(list) = [j \in 1 .. n + 1 |-> list[n + 1 - j + 1]]
    BY <1>1, <1>2 DEF Reverse
  <2>2. \A j \in 1 .. n + 1 : n + 1 - j + 1 = n + 2 - j /\ n + 2 - j \in 1 .. n + 1
    BY <1>1
  <2>3. \A j \in 1 .. n + 1 : list[j] \in Owners
    BY <1>1, <1>2
  <2>4. \A j \in 1 .. n + 1 : list[n + 2 - j] \in Owners
    BY <2>2, <2>3
  <2>5. Reverse(list) \in [1 .. n + 1 -> Owners]
    BY <2>1, <2>2, <2>4
  <2>6. QED
    BY <1>1, <2>1, <2>2, <2>5
<1>4. there \in Seq(Owners) /\ Len(there) = n + 2 /\ there[n + 2] = Driver
      /\ \A j \in 1 .. n + 1 : there[j] = list[j]
  BY <1>1, <1>2
<1>5. back \in Seq(Owners) /\ Len(back) = n + 2 /\ back[n + 2] = Driver
      /\ \A j \in 1 .. n + 1 : back[j] = list[n + 2 - j]
  <2> DEFINE turned == Reverse(list)
  <2>1. turned \in Seq(Owners) /\ Len(turned) = n + 1
        /\ \A j \in 1 .. n + 1 : turned[j] = list[n + 2 - j]
    BY <1>3
  <2> HIDE DEF turned
  <2>2. Append(turned, Driver) \in Seq(Owners) /\ Len(Append(turned, Driver)) = n + 2
        /\ Append(turned, Driver)[n + 2] = Driver
        /\ \A j \in 1 .. n + 1 : Append(turned, Driver)[j] = turned[j]
    BY <1>1, <2>1
  <2>3. QED
    BY <2>1, <2>2 DEF turned
<1> HIDE DEF there, back
<1>6. a \in Seq(Owners \X Modes) /\ Len(a) = n + 2 /\ \A j \in 1 .. n + 2 : a[j] = <<there[j], "capture">>
  BY <1>1, <1>4 DEF Asks, Modes
<1>7. b \in Seq(Owners \X Modes) /\ Len(b) = n + 2 /\ \A j \in 1 .. n + 2 : b[j] = <<back[j], "playback">>
  BY <1>1, <1>5 DEF Asks, Modes
<1>8. jack_compute_new_latency(order) = a \o b
  BY DEF jack_compute_new_latency, list, there, back
<1> HIDE DEF a, b
<1>9. a \o b \in Seq(Owners \X Modes) /\ Len(a \o b) = n + 2 + (n + 2)
      /\ (\A j \in 1 .. n + 2 : (a \o b)[j] = a[j])
      /\ (\A j \in n + 3 .. n + 2 + (n + 2) : (a \o b)[j] = b[j - (n + 2)])
  <2>1. a \o b \in Seq(Owners \X Modes) /\ Len(a \o b) = n + 2 + (n + 2)
    <3> DEFINE S == Owners \X Modes
    <3>1. a \in Seq(S) /\ b \in Seq(S) /\ Len(a) = n + 2 /\ Len(b) = n + 2
      BY <1>6, <1>7
    <3> HIDE DEF S
    <3>2. a \o b \in Seq(S)
      BY <3>1
    <3>3. Len(a \o b) = Len(a) + Len(b)
      BY <3>1
    <3>4. Len(a \o b) = n + 2 + (n + 2)
      BY <3>1, <3>3
    <3>5. QED
      BY <3>2, <3>4 DEF S
  <2>2. \A j \in 1 .. n + 2 : (a \o b)[j] = a[j]
    BY <1>1, <1>6, <1>7
  <2>3. \A j \in n + 3 .. n + 2 + (n + 2) : (a \o b)[j] = b[j - (n + 2)]
    BY <1>1, <1>6, <1>7
  <2>4. QED
    BY <2>1, <2>2, <2>3
<1>10. Pass = n + 2 + (n + 2)
  BY <1>1 DEF Pass, n
<1>11. ASSUME NEW j \in 1 .. Pass PROVE (a \o b)[j] = TheEvent(order, j)
  <2>1. j \in Nat /\ j >= 1 /\ j <= n + 2 + (n + 2)
    BY <1>1, <1>10
  <2>2. CASE j <= n + 1
    <3>1. (a \o b)[j] = <<list[j], "capture">>
      <4>1. j \in 1 .. n + 1 /\ j \in 1 .. n + 2
        BY <1>1, <2>1, <2>2
      <4>2. (a \o b)[j] = a[j] /\ a[j] = <<there[j], "capture">> /\ there[j] = list[j]
        BY <1>4, <1>6, <1>9, <4>1
      <4>3. QED
        BY <4>2, Zenon
    <3>2. CASE j = 1
      BY <1>2, <3>1, <3>2 DEF TheEvent
    <3>3. CASE j # 1
      <4>1. list[j] = order[j - 1] /\ j # n + 2
        BY <1>1, <1>2, <2>1, <2>2, <3>3
      <4>2. QED
        BY <2>2, <3>1, <3>3, <4>1 DEF TheEvent, n
    <3>4. QED
      BY <3>2, <3>3
  <2>3. CASE j = n + 2
    <3>1. (a \o b)[j] = <<Driver, "capture">>
      BY <1>1, <1>4, <1>6, <1>9, <2>1, <2>3
    <3>2. QED
      BY <2>3, <3>1 DEF TheEvent, n
  <2>4. CASE j > n + 2
    <3> DEFINE k == j - (n + 2)
    <3>1. k \in 1 .. n + 2 /\ j = k + n + 2 /\ j \in n + 3 .. n + 2 + (n + 2)
      BY <1>1, <2>1, <2>4
    <3>2. (a \o b)[j] = <<back[k], "playback">>
      BY <1>7, <1>9, <3>1
    <3> HIDE DEF k
    <3>3. CASE k <= n
      <4>1. k \in 1 .. n + 1 /\ n + 2 - k \in 2 .. n + 1
        BY <1>1, <3>1, <3>3
      <4>2. back[k] = list[n + 2 - k]
        BY <1>5, <4>1
      <4>3. list[n + 2 - k] = order[n + 2 - k - 1]
        <5>1. PICK m \in 2 .. n + 1 : m = n + 2 - k
          BY <4>1
        <5>2. list[m] = order[m - 1]
          BY <1>2
        <5>3. m - 1 = n + 2 - k - 1
          BY <1>1, <3>1, <5>1
        <5>4. QED
          BY <5>1, <5>2, <5>3, Zenon
      <4>4. n + 2 - k - 1 = 2 * n + 3 - j /\ j # 1 /\ j # n + 2 /\ ~(j <= n + 1) /\ j <= 2 * n + 2
        BY <1>1, <3>1, <3>3
      <4>5. QED
        BY <3>2, <4>2, <4>3, <4>4 DEF TheEvent, n
    <3>4. CASE ~(k <= n)
      <4>1. k = n + 1 \/ k = n + 2
        BY <1>1, <3>1, <3>4
      <4>2. back[k] = Driver
        <5>1. CASE k = n + 1
          <6>1. k \in 1 .. n + 1 /\ n + 2 - k = 1
            BY <1>1, <5>1
          <6>2. QED
            BY <1>2, <1>5, <6>1
        <5>2. QED
          BY <1>5, <4>1, <5>1
      <4>3. j # 1 /\ j # n + 2 /\ ~(j <= n + 1) /\ ~(j <= 2 * n + 2)
        BY <1>1, <3>1, <3>4
      <4>4. QED
        BY <3>2, <4>2, <4>3 DEF TheEvent, n
    <3>5. QED
      BY <3>3, <3>4
  <2>5. j <= n + 1 \/ j = n + 2 \/ j > n + 2
    BY <1>1, <2>1
  <2>6. QED
    BY <2>2, <2>3, <2>4, <2>5, Zenon
<1>12. Pass \in Nat
  BY <1>1, <1>10
<1>13. QED
  BY <1>8, <1>9, <1>10, <1>11, <1>12

LEMMA TurnsAre ==
    ASSUME ltOrder \in Sorted, NEW c \in LatencyClients, NEW mode \in Modes
    PROVE  /\ Turn(c, mode) \in Nat /\ TheEvent(ltOrder, Turn(c, mode)) = <<c, mode>>
           /\ mode = "capture" => Turn(c, mode) \in 2 .. Many + 1
           /\ mode = "playback" => Turn(c, mode) \in Many + 3 .. 2 * Many + 2
<1> DEFINE p == Position(ltOrder, c)
           n == Many
<1>1. n \in Nat /\ p \in 1 .. n /\ ltOrder[p] = c
  BY ManyIs, OrderIs DEF Sorted, Orders
<1>2. CASE mode = "capture"
  <2>1. Turn(c, mode) = p + 1
    BY <1>2 DEF Turn
  <2> HIDE DEF p
  <2>2. p + 1 # 1 /\ p + 1 # n + 2 /\ p + 1 <= n + 1 /\ p + 1 - 1 = p /\ p + 1 \in 2 .. n + 1
    BY <1>1
  <2>3. TheEvent(ltOrder, p + 1) = <<c, "capture">>
    BY <1>1, <2>2 DEF TheEvent
  <2>4. QED
    BY <1>2, <2>1, <2>2, <2>3
<1>3. CASE mode = "playback"
  <2> DEFINE j == 2 * n + 3 - p
  <2>1. Turn(c, mode) = j
    BY <1>3 DEF Turn
  <2> HIDE DEF p
  <2>2. j \in n + 3 .. 2 * n + 2 /\ j # 1 /\ j # n + 2 /\ ~(j <= n + 1) /\ j <= 2 * n + 2 /\ 2 * n + 3 - j = p
    BY <1>1
  <2> HIDE DEF j
  <2>3. TheEvent(ltOrder, j) = <<c, "playback">>
    BY <1>1, <2>2 DEF TheEvent
  <2>4. j \in Nat
    BY <1>1, <2>2
  <2>5. QED
    BY <1>3, <2>1, <2>2, <2>3, <2>4
<1>4. QED
  BY <1>2, <1>3 DEF Modes

\* Whose turn it is.
LEMMA EventsAre ==
    ASSUME ltOrder \in Sorted, NEW j \in 1 .. Pass, NEW c, NEW mode, TheEvent(ltOrder, j) = <<c, mode>>
    PROVE  /\ mode \in Modes
           /\ \/ c = Driver /\ mode = "capture" /\ (j = 1 \/ j = Many + 2)
              \/ c = Driver /\ mode = "playback" /\ (j = 2 * Many + 3 \/ j = 2 * Many + 4)
              \/ c \in LatencyClients /\ j = Turn(c, mode)
<1> DEFINE n == Many
<1>1. n \in Nat /\ ltOrder \in Orders /\ j \in 1 .. 2 * n + 4
  BY ManyIs DEF Sorted, Orders, Pass
<1>2. \A i \in 1 .. n : ltOrder[i] \in LatencyClients /\ Position(ltOrder, ltOrder[i]) = i
  BY <1>1, OrderIs
<1>3. CASE j = 1 \/ j = n + 2
  BY <1>3 DEF TheEvent, Modes
<1>4. CASE j # 1 /\ j # n + 2 /\ j <= n + 1
  <2>1. <<c, mode>> = <<ltOrder[j - 1], "capture">>
    BY <1>4 DEF TheEvent
  <2>2. c = ltOrder[j - 1] /\ mode = "capture"
    BY <2>1
  <2>3. j - 1 \in 1 .. n /\ j - 1 + 1 = j
    BY <1>1, <1>4
  <2>4. c \in LatencyClients /\ Turn(c, mode) = j
    BY <1>2, <2>2, <2>3 DEF Turn
  <2>5. QED
    BY <2>2, <2>4 DEF Modes
<1>5. CASE j # 1 /\ j # n + 2 /\ ~(j <= n + 1) /\ j <= 2 * n + 2
  <2>1. <<c, mode>> = <<ltOrder[2 * n + 3 - j], "playback">>
    BY <1>5 DEF TheEvent
  <2>2. c = ltOrder[2 * n + 3 - j] /\ mode = "playback"
    BY <2>1
  <2>3. 2 * n + 3 - j \in 1 .. n /\ 2 * n + 3 - (2 * n + 3 - j) = j
    BY <1>1, <1>5
  <2>4. c \in LatencyClients /\ Turn(c, mode) = 2 * n + 3 - (2 * n + 3 - j)
    BY <1>2, <2>2, <2>3 DEF Turn
  <2>5. QED
    BY <2>2, <2>3, <2>4 DEF Modes
<1>6. CASE ~(j <= 2 * n + 2)
  <2>1. j # 1 /\ j # n + 2 /\ ~(j <= n + 1) /\ (j = 2 * n + 3 \/ j = 2 * n + 4)
    BY <1>1, <1>6
  <2>2. <<c, mode>> = <<Driver, "playback">>
    BY <1>6, <2>1 DEF TheEvent
  <2>3. QED
    BY <2>1, <2>2 DEF Modes
<1>7. QED
  BY <1>3, <1>4, <1>5, <1>6

LEMMA BeforeIsEarlier ==
    ASSUME ltOrder \in Sorted, Acyclic, NEW c \in LatencyClients, NEW mode \in Modes, NEW d \in Preceding(c, mode)
    PROVE  d \in LatencyClients /\ Turn(d, mode) < Turn(c, mode)
<1>1. d \in LatencyClients
  BY DEF Preceding
<1>2. Position(ltOrder, c) \in 1 .. Many /\ Position(ltOrder, d) \in 1 .. Many /\ Many \in Nat
  BY <1>1, ManyIs, OrderIs DEF Sorted, Orders
<1>3. CASE mode = "capture"
  <2>1. Position(ltOrder, d) < Position(ltOrder, c)
    BY <1>1, <1>3, SortedIs DEF Preceding
  <2>2. QED
    BY <1>1, <1>2, <1>3, <2>1 DEF Turn
<1>4. CASE mode # "capture"
  <2>1. Position(ltOrder, c) < Position(ltOrder, d)
    BY <1>1, <1>4, SortedIs DEF Preceding
  <2>2. QED
    BY <1>1, <1>2, <1>4, <2>1 DEF Turn
<1>5. QED
  BY <1>3, <1>4

------------------------------------------------------------------------------
(* The invariant.                                                             *)

\* How many events of the pass are answered.
Asked == Pass - Len(ltEvents)

PassInv ==
    /\ ltEvents \in Seq(Owners \X Modes) /\ Len(ltEvents) <= Pass
    /\ \A i \in 1 .. Len(ltEvents) : ltEvents[i] = TheEvent(ltOrder, Asked + i)

DriverFrom(mode) == IF mode = "capture" THEN 1 ELSE 2 * Many + 3
DriverLast(mode) == IF mode = "capture" THEN Many + 2 ELSE 2 * Many + 3

\* What the driver's callback gives is its period, once it was asked, and between two
\* changes of the period.
DriverIsFresh ==
    ltKind = "callback" =>
        \A mode \in Modes : DriverFrom(mode) <= Asked \/ ~ltStale =>
            \A q \in Depending(Driver, mode) : ltRange[mode][q] = Exactly(ltFrames) /\ ltLatency[q] = ltFrames

\* Whoever was asked is right.
AnswersAreRight ==
    Acyclic /\ ltChanges.sorts > 0 =>
        \A mode \in Modes : UpToDate(mode) =>
            \A c \in LatencyClients : Turn(c, mode) <= Asked => IsRight(c, mode)

DriverIsRight ==
    Acyclic /\ ltChanges.sorts > 0 /\ ltKind = "plain" =>
        \A mode \in Modes : DriverLast(mode) <= Asked =>
            \A p \in Taking(Driver, mode) : ltRange[mode][p] = RangeOf(AlongRoutes(p, mode))

TotalsAreKept == ~ltStale => \A p \in Ports : ltTotal[p] = jack_get_port_total_latency(p, ltConns)

LatencyIInv ==
    /\ LtTypeOK /\ ltOrder \in Sorted /\ PassInv /\ SourcesExact
    /\ DriverIsFresh /\ AnswersAreRight /\ DriverIsRight /\ TotalsAreKept

LEMMA GraphFrame ==
    ASSUME ltConns' = ltConns
    PROVE  /\ Feeding' = Feeding /\ Sorted' = Sorted /\ Acyclic' = Acyclic /\ Routes' = Routes
           /\ \A p : ConnectedTo(p)' = ConnectedTo(p)
<1>1. Feeding' = Feeding
  BY DEF Feeding, Feeds
<1>2. Reaches' = Reaches
  BY <1>1 DEF Reaches
<1>3. \A e : OnCircle(e)' <=> OnCircle(e)
  BY <1>2 DEF OnCircle, Circular
<1>4. Sorted' = Sorted
  BY <1>1, <1>3 DEF Sorted
<1>5. Acyclic' = Acyclic
  BY <1>1, <1>3 DEF Acyclic
<1>6. Routes' = Routes
  BY <1>1 DEF Routes
<1>7. \A p : ConnectedTo(p)' = ConnectedTo(p)
  BY DEF ConnectedTo
<1>8. QED
  BY <1>1, <1>4, <1>5, <1>6, <1>7

\* The driver's ports of one direction are not those of the other, nor a client's.
LEMMA DriversPorts ==
    ASSUME NEW mode \in Modes
    PROVE  /\ Taking(Driver, mode) \cup Depending(Driver, mode) = Terminal
           /\ Taking(Driver, mode) \cap Depending(Driver, mode) = {}
           /\ \A m \in Modes : m # mode =>
                 Taking(Driver, m) = Depending(Driver, mode) /\ Depending(Driver, m) = Taking(Driver, mode)
           /\ Driver \in Owners /\ Terminal \subseteq Ports
           /\ \A c \in LatencyClients :
                 /\ c \in Owners /\ Taking(c, mode) \cap Terminal = {} /\ Depending(c, mode) \cap Terminal = {}
                 /\ Taking(c, mode) \cup Depending(c, mode) = InPorts[c] \cup OutPorts[c]
                 /\ Taking(c, mode) \cap Depending(c, mode) = {} /\ InPorts[c] \cup OutPorts[c] \subseteq Ports
<1>1. Driver \in Owners /\ \A c \in LatencyClients : c \in Owners /\ c # Driver
  BY LatencyAssumption DEF Owners
<1>2. \A c \in Owners : /\ Taking(c, mode) \cup Depending(c, mode) = InPorts[c] \cup OutPorts[c]
                        /\ InPorts[c] \cup OutPorts[c] \subseteq Ports
                        /\ Taking(c, mode) \cap Depending(c, mode) = {}
  BY PortsOfOwners, LatencyAssumption DEF Taking, Depending, Ports
<1>3. \A c \in LatencyClients : (InPorts[c] \cup OutPorts[c]) \cap Terminal = {}
  BY <1>1, PortsOfOwners DEF Terminal
<1>4. \A m \in Modes : m # mode =>
         Taking(Driver, m) = Depending(Driver, mode) /\ Depending(Driver, m) = Taking(Driver, mode)
  BY DEF Modes, Taking, Depending
<1>5. Terminal = InPorts[Driver] \cup OutPorts[Driver]
  BY DEF Terminal
<1>6. QED
  BY <1>1, <1>2, <1>3, <1>4, <1>5

\* What the driver gives and who is connected make the routes' sums.
LEMMA RoutesFrame ==
    ASSUME LtTypeOK, ltConns' = ltConns, NEW mode \in Modes,
           \A q \in Depending(Driver, mode) : ltRange'[mode][q] = ltRange[mode][q]
    PROVE  /\ \A c : Through(c, mode)' = Through(c, mode)
           /\ \A c \in Owners : \A p \in Taking(c, mode) : AlongRoutes(p, mode)' = AlongRoutes(p, mode)
<1>1. Routes' = Routes /\ \A p : ConnectedTo(p)' = ConnectedTo(p)
  BY GraphFrame
<1>2. ASSUME NEW c \in Owners, NEW p \in Taking(c, mode), NEW q \in Terminal \cap ConnectedTo(p)
      PROVE  ltRange'[mode][q] = ltRange[mode][q]
  BY NeighboursAre
<1>3. ASSUME NEW c \in Owners PROVE Outside(c, mode)' = Outside(c, mode)
  <2> DEFINE T == Terminal \cap UNION {ConnectedTo(p) : p \in Taking(c, mode)}
  <2>1. \A q \in T : ltRange'[mode][q].max = ltRange[mode][q].max
    BY <1>2
  <2>2. {ltRange'[mode][q].max : q \in T} = {ltRange[mode][q].max : q \in T}
    <3> HIDE DEF T
    <3>1. QED
      BY <2>1
  <2>3. T' = T
    BY <1>1
  <2>4. QED
    BY <1>1, <2>2, <2>3 DEF Outside
<1>4. \A r \in Routes : Far(r, mode) \in Owners
  <2> SUFFICES ASSUME NEW r \in Routes PROVE Far(r, mode) \in Owners
    OBVIOUS
  <2>1. PICK n \in 1 .. Many : r \in [1 .. n -> LatencyClients]
    BY DEF Routes, Many
  <2>2. n \in Nat /\ n >= 1
    BY <2>1, ManyIs
  <2>3. Len(r) = n /\ r[1] \in LatencyClients /\ r[n] \in LatencyClients
    BY <2>1, <2>2
  <2>4. QED
    BY <2>3 DEF Far, Owners
<1>5. ASSUME NEW c PROVE Through(c, mode)' = Through(c, mode)
  <2>1. \A r \in Routes : {n + Along(r) : n \in Outside(Far(r, mode), mode)'}
                             = {n + Along(r) : n \in Outside(Far(r, mode), mode)}
    BY <1>3, <1>4
  <2>2. Through(c, mode)' = UNION {{n + Along(r) : n \in Outside(Far(r, mode), mode)'} :
                                      r \in {r \in Routes : Near(r, mode) = c}}
    BY <1>1 DEF Through, Along, Near, Far
  <2>3. QED
    BY <2>1, <2>2 DEF Through
<1>6. ASSUME NEW c \in Owners, NEW p \in Taking(c, mode) PROVE AlongRoutes(p, mode)' = AlongRoutes(p, mode)
  <2>1. {ltRange'[mode][q].max : q \in ConnectedTo(p) \cap Terminal}
          = {ltRange[mode][q].max : q \in ConnectedTo(p) \cap Terminal}
    BY <1>2
  <2>2. \A q : Through(ClientOf(q), mode)' = Through(ClientOf(q), mode)
    BY <1>5
  <2>3. QED
    BY <1>1, <2>1, <2>2 DEF AlongRoutes
<1>7. QED
  BY <1>5, <1>6

LEMMA RightStays ==
    ASSUME LtTypeOK, ltConns' = ltConns, NEW mode \in Modes,
           \A q \in Depending(Driver, mode) : ltRange'[mode][q] = ltRange[mode][q],
           NEW c \in LatencyClients, IsRight(c, mode),
           \A p \in InPorts[c] \cup OutPorts[c] : ltRange'[mode][p] = ltRange[mode][p]
    PROVE  IsRight(c, mode)'
<1>1. Through(c, mode)' = Through(c, mode)
      /\ \A p \in Taking(c, mode) : AlongRoutes(p, mode)' = AlongRoutes(p, mode)
  BY RoutesFrame DEF Owners
<1>2. Taking(c, mode) \cup Depending(c, mode) = InPorts[c] \cup OutPorts[c]
  BY DriversPorts
<1>3. QED
  BY <1>1, <1>2 DEF IsRight

------------------------------------------------------------------------------
(* Its steps.                                                                 *)

LEMMA SpreadType ==
    ASSUME NEW ranges \in SUBSET LatencyRanges, IsFiniteSet(ranges)
    PROVE  Spread(ranges) \in LatencyRanges
<1>1. CASE ranges = {}
  BY <1>1 DEF Spread, Exactly, LatencyRanges
<1>2. CASE ranges # {}
  <2> DEFINE mins == {r.min : r \in ranges}
             maxs == {r.max : r \in ranges}
             lows == [r \in ranges |-> r.min]
             highs == [r \in ranges |-> r.max]
  <2>1. mins = {lows[r] : r \in ranges} /\ maxs = {highs[r] : r \in ranges}
    OBVIOUS
  <2>2. mins \in SUBSET Nat /\ maxs \in SUBSET Nat /\ mins # {} /\ maxs # {}
    BY <1>2 DEF LatencyRanges
  <2>3. Spread(ranges) = [min |-> Min(mins), max |-> Max(maxs)]
    BY <1>2 DEF Spread
  <2> HIDE DEF mins, maxs, lows, highs
  <2>4. IsFiniteSet(mins) /\ IsFiniteSet(maxs)
    BY <2>1, FiniteImage
  <2>5. Ends(mins) /\ Ends(maxs)
    BY <2>2, <2>4, FiniteEnds
  <2>6. PICK lo \in mins, hi \in mins : \A x \in mins : lo <= x /\ x <= hi
    BY <2>5 DEF Ends
  <2>7. PICK low \in maxs, high \in maxs : \A x \in maxs : low <= x /\ x <= high
    BY <2>5 DEF Ends
  <2>8. Min(mins) = lo /\ Max(maxs) = high
    BY <2>2, <2>6, <2>7, MinMaxAre
  <2>9. QED
    BY <2>2, <2>3, <2>6, <2>7, <2>8 DEF LatencyRanges
<1>3. QED
  BY <1>1, <1>2

LEMMA RecalculatedType ==
    ASSUME LtTypeOK, NEW c, NEW mode \in Modes
    PROVE  Recalculated(c, mode) \in [Ports -> LatencyRanges]
<1>1. ASSUME NEW p \in Ports PROVE jack_port_recalculate_latency(p, mode) \in LatencyRanges
  <2> DEFINE near == ConnectedTo(p)
             given == [q \in near |-> ltRange[mode][q]]
             ranges == {given[q] : q \in near}
  <2>1. IsFiniteSet(near) /\ ranges \subseteq LatencyRanges
    <3>1. near \subseteq Ports
      BY DEF ConnectedTo
    <3>2. \A q \in Ports : ltRange[mode][q] \in LatencyRanges
      BY DEF LtTypeOK
    <3> HIDE DEF near
    <3>3. IsFiniteSet(near)
      BY <3>1, PortsOfOwners, FS_Subset
    <3>4. QED
      BY <3>1, <3>2, <3>3
  <2>2. jack_port_recalculate_latency(p, mode) = Spread(ranges)
    BY DEF jack_port_recalculate_latency
  <2>3. IsFiniteSet(ranges)
    <3> HIDE DEF near, given
    <3>1. QED
      BY <2>1, FiniteImage
  <2> HIDE DEF ranges
  <2>4. QED
    BY <2>1, <2>2, <2>3, SpreadType
<1>2. \A p \in Ports : ltRange[mode][p] \in LatencyRanges
  BY DEF LtTypeOK
<1>3. QED
  BY <1>1, <1>2 DEF Recalculated

\* What a client's answer changes.
LEMMA ClientHandlesIs ==
    ASSUME LtTypeOK, NEW c \in LatencyClients, NEW mode \in Modes, ClientHandles(c, mode)
    PROVE  /\ ltRange' \in [Modes -> [Ports -> LatencyRanges]]
           /\ \A m \in Modes : m # mode => ltRange'[m] = ltRange[m]
           /\ \A p \in Ports : p \notin InPorts[c] \cup OutPorts[c] => ltRange'[mode][p] = ltRange[mode][p]
           /\ \A p \in Taking(c, mode) : ltRange'[mode][p] = Recalculated(c, mode)[p]
           /\ \A p \in Depending(c, mode) :
                 ltRange'[mode][p] = Plus(Spread({Recalculated(c, mode)[q] : q \in Taking(c, mode)}), Delay[c])
<1> DEFINE now == Recalculated(c, mode)
           spread == {now[p] : p \in Taking(c, mode)}
           through == Plus(Spread(spread), Delay[c])
           new == [p \in Ports |-> IF p \in Depending(c, mode) THEN through ELSE now[p]]
<1>1. /\ Taking(c, mode) \cup Depending(c, mode) = InPorts[c] \cup OutPorts[c]
      /\ Taking(c, mode) \cap Depending(c, mode) = {} /\ InPorts[c] \cup OutPorts[c] \subseteq Ports
  BY DriversPorts
<1>2. now \in [Ports -> LatencyRanges]
  BY RecalculatedType
<1>3. \A p \in Ports : p \notin Taking(c, mode) => now[p] = ltRange[mode][p]
  BY DEF Recalculated
<1>4. ltRange' = [ltRange EXCEPT ![mode] = new]
  BY DEF ClientHandles
<1> HIDE DEF now
<1>5. through \in LatencyRanges
  <2> DEFINE T == Taking(c, mode)
  <2>1. IsFiniteSet(T) /\ T \subseteq Ports
    <3>1. T \subseteq Ports
      BY <1>1
    <3> HIDE DEF T
    <3>2. QED
      BY <3>1, PortsOfOwners, FS_Subset
  <2>2. spread = {now[p] : p \in T} /\ spread \subseteq LatencyRanges
    BY <1>2, <2>1
  <2> HIDE DEF T, spread
  <2>3. IsFiniteSet(spread)
    BY <2>1, <2>2, FiniteImage
  <2>4. Spread(spread) \in LatencyRanges
    BY <2>2, <2>3, SpreadType
  <2>5. Delay[c] \in Nat
    BY LatencyAssumption
  <2>6. QED
    BY <2>4, <2>5 DEF Plus, LatencyRanges
<1> HIDE DEF spread
<1>6. through = Plus(Spread(spread), Delay[c])
  OBVIOUS
<1> HIDE DEF through
<1>7. new \in [Ports -> LatencyRanges]
  BY <1>2, <1>5
<1>8. /\ \A p \in Depending(c, mode) : new[p] = through
      /\ \A p \in Taking(c, mode) : new[p] = now[p]
      /\ \A p \in Ports : p \notin InPorts[c] \cup OutPorts[c] => new[p] = ltRange[mode][p]
  BY <1>1, <1>3
<1> HIDE DEF new
<1>9. /\ ltRange' \in [Modes -> [Ports -> LatencyRanges]] /\ ltRange'[mode] = new
      /\ \A m \in Modes : m # mode => ltRange'[m] = ltRange[m]
  BY <1>4, <1>7 DEF LtTypeOK
<1>10. \A p \in Depending(c, mode) : ltRange'[mode][p] = Plus(Spread(spread), Delay[c])
  BY <1>6, <1>8, <1>9
<1>11. QED
  BY <1>8, <1>9, <1>10 DEF now, spread

\* What the driver's answer changes.
LEMMA DriverHandlesIs ==
    ASSUME LtTypeOK, NEW mode \in Modes, DriverHandles(mode)
    PROVE  /\ ltRange' \in [Modes -> [Ports -> LatencyRanges]] /\ ltLatency' \in [Ports -> Nat]
           /\ \A m \in Modes : m # mode => ltRange'[m] = ltRange[m]
           /\ \A p \in Ports : p \notin Terminal => ltRange'[mode][p] = ltRange[mode][p]
           /\ ltKind = "plain" =>
                 /\ \A p \in Taking(Driver, mode) : ltRange'[mode][p] = Recalculated(Driver, mode)[p]
                 /\ \A p \in Depending(Driver, mode) : ltRange'[mode][p] = ltRange[mode][p]
                 /\ ltLatency' = ltLatency
           /\ ltKind = "callback" =>
                 /\ \A p \in Terminal : ltRange'[mode][p] = Exactly(ltFrames)
                 /\ \A p \in Depending(Driver, mode) : ltLatency'[p] = ltFrames
                 /\ \A p \in Ports : p \notin Depending(Driver, mode) => ltLatency'[p] = ltLatency[p]
<1> DEFINE now == Recalculated(Driver, mode)
           set == alsa_driver_latency_callback(mode)
           new == IF ltKind = "callback" THEN set ELSE now
<1>1. /\ Taking(Driver, mode) \cup Depending(Driver, mode) = Terminal
      /\ Taking(Driver, mode) \cap Depending(Driver, mode) = {} /\ Terminal \subseteq Ports
  BY DriversPorts
<1>2. now \in [Ports -> LatencyRanges]
  BY RecalculatedType
<1>3. \A p \in Ports : p \notin Taking(Driver, mode) => now[p] = ltRange[mode][p]
  BY DEF Recalculated
<1>4. ltRange' = [ltRange EXCEPT ![mode] = new]
  BY DEF DriverHandles
<1>5. ltFrames \in Nat /\ ltLatency \in [Ports -> Nat] /\ ltKind \in {"callback", "plain"}
  BY DEF LtTypeOK
<1>6. /\ set \in [Ports -> LatencyRanges]
      /\ \A p \in Terminal : set[p] = Exactly(ltFrames)
      /\ \A p \in Ports : p \notin Terminal => set[p] = now[p]
  <2>1. Exactly(ltFrames) \in LatencyRanges
    BY <1>5 DEF Exactly, LatencyRanges
  <2>2. set = [p \in Ports |-> IF p \in Terminal THEN Exactly(ltFrames) ELSE now[p]]
    BY DEF alsa_driver_latency_callback
  <2> HIDE DEF set, now
  <2>3. QED
    BY <1>1, <1>2, <2>1, <2>2
<1> HIDE DEF now, set
<1>7. new \in [Ports -> LatencyRanges] /\ \A p \in Ports : p \notin Terminal => new[p] = ltRange[mode][p]
  BY <1>1, <1>2, <1>3, <1>6
<1>8. ltKind = "plain" => new = now
  OBVIOUS
<1>9. ltKind = "callback" => new = set
  OBVIOUS
<1> HIDE DEF new
<1>10. /\ ltRange' \in [Modes -> [Ports -> LatencyRanges]] /\ ltRange'[mode] = new
       /\ \A m \in Modes : m # mode => ltRange'[m] = ltRange[m]
  BY <1>4, <1>7 DEF LtTypeOK
<1>11. ltLatency' = [p \in Ports |->
            IF ltKind = "callback" /\ p \in Depending(Driver, mode) THEN ltFrames ELSE ltLatency[p]]
  BY DEF DriverHandles
<1>12. ltLatency' \in [Ports -> Nat]
  BY <1>5, <1>11
<1>13. ltKind = "plain" =>
         /\ \A p \in Taking(Driver, mode) : ltRange'[mode][p] = now[p]
         /\ \A p \in Depending(Driver, mode) : ltRange'[mode][p] = ltRange[mode][p]
  BY <1>1, <1>3, <1>8, <1>10
<1>14. ltKind = "plain" => ltLatency' = ltLatency
  BY <1>5, <1>11
<1>15. ltKind = "callback" =>
         /\ \A p \in Terminal : ltRange'[mode][p] = Exactly(ltFrames)
         /\ \A p \in Depending(Driver, mode) : ltLatency'[p] = ltFrames
         /\ \A p \in Ports : p \notin Depending(Driver, mode) => ltLatency'[p] = ltLatency[p]
  BY <1>1, <1>6, <1>9, <1>10, <1>11
<1>16. QED
  BY <1>7, <1>10, <1>12, <1>13, <1>14, <1>15 DEF now

\* The next event is answered.
LEMMA DeliversIs ==
    ASSUME ltOrder \in Sorted, PassInv, Delivers
    PROVE  /\ Asked \in Nat /\ Asked' = Asked + 1 /\ Asked + 1 \in 1 .. Pass /\ PassInv'
           /\ \E c, mode : /\ TheEvent(ltOrder, Asked + 1) = <<c, mode>>
                           /\ IF c = Driver THEN DriverHandles(mode)
                              ELSE ClientHandles(c, mode) /\ UNCHANGED ltLatency
<1>1. ltEvents \in Seq(Owners \X Modes) /\ ltEvents # <<>> /\ ltEvents' = Tail(ltEvents) /\ ltOrder' = ltOrder
  BY DEF PassInv, Delivers
<1>2. Pass \in Nat /\ Len(ltEvents) \in Nat /\ Len(ltEvents) <= Pass /\ Len(ltEvents) >= 1
  BY <1>1, ManyIs DEF PassInv, Pass
<1>3. ltEvents' \in Seq(Owners \X Modes) /\ Len(ltEvents') = Len(ltEvents) - 1
      /\ \A i \in 1 .. Len(ltEvents) - 1 : ltEvents'[i] = ltEvents[i + 1]
  <2> DEFINE S == Owners \X Modes
  <2>1. ltEvents \in Seq(S)
    BY <1>1
  <2> HIDE DEF S
  <2>2. Tail(ltEvents) \in Seq(S) /\ Len(Tail(ltEvents)) = Len(ltEvents) - 1
        /\ \A i \in 1 .. Len(ltEvents) - 1 : Tail(ltEvents)[i] = ltEvents[i + 1]
    BY <1>1, <2>1
  <2>3. QED
    BY <1>1, <2>2 DEF S
<1>4. Asked \in Nat /\ Asked' = Asked + 1 /\ Asked + 1 \in 1 .. Pass
  BY <1>2, <1>3 DEF Asked, Pass
<1>5. Head(ltEvents) = ltEvents[1] /\ ltEvents[1] \in Owners \X Modes
  BY <1>1, <1>2
<1>6. ltEvents[1] = TheEvent(ltOrder, Asked + 1)
  BY <1>2 DEF PassInv
<1>7. PassInv'
  <2>1. ASSUME NEW i \in 1 .. Len(ltEvents') PROVE ltEvents'[i] = TheEvent(ltOrder, Asked' + i)
    <3>1. i \in 1 .. Len(ltEvents) - 1 /\ i + 1 \in 1 .. Len(ltEvents) /\ Asked + (i + 1) = Asked' + i
      BY <1>2, <1>3, <1>4
    <3>2. ltEvents'[i] = ltEvents[i + 1] /\ ltEvents[i + 1] = TheEvent(ltOrder, Asked + (i + 1))
      BY <1>3, <3>1 DEF PassInv
    <3>3. QED
      BY <3>1, <3>2
  <2>2. Len(ltEvents') <= Pass
    BY <1>2, <1>3
  <2>3. QED
    BY <1>1, <1>3, <2>1, <2>2 DEF PassInv, Pass
<1>8. PICK c \in Owners, mode \in Modes : ltEvents[1] = <<c, mode>>
  BY <1>5
<1>9. Head(ltEvents)[1] = c /\ Head(ltEvents)[2] = mode
  BY <1>5, <1>8
<1>10. IF c = Driver THEN DriverHandles(mode) ELSE ClientHandles(c, mode) /\ UNCHANGED ltLatency
  BY <1>9 DEF Delivers
<1>11. QED
  BY <1>4, <1>6, <1>7, <1>8, <1>10

\* The graph stays, and so does who is asked when.
LEMMA DeliversKeeps ==
    ASSUME Delivers
    PROVE  /\ UNCHANGED <<ltKind, ltConns, ltOrder, ltTotal, ltFrames, ltChanges, ltStale>>
           /\ Sorted' = Sorted /\ Acyclic' = Acyclic
           /\ \A m : UpToDate(m)' = UpToDate(m)
           /\ \A c, m : Turn(c, m)' = Turn(c, m)
<1>1. UNCHANGED <<ltKind, ltConns, ltOrder, ltTotal, ltFrames, ltChanges, ltStale>>
  BY DEF Delivers
<1>2. QED
  BY <1>1, GraphFrame DEF UpToDate, Turn

LEMMA ClientAnswers ==
    ASSUME LatencyIInv, Delivers, Asked \in Nat, Asked' = Asked + 1, PassInv',
           NEW c \in LatencyClients, NEW mode \in Modes, Turn(c, mode) = Asked + 1,
           ClientHandles(c, mode), ltLatency' = ltLatency
    PROVE  LatencyIInv'
<1>1. LtTypeOK /\ ltOrder \in Sorted /\ PassInv /\ SourcesExact
  BY DEF LatencyIInv
<1>2. /\ UNCHANGED <<ltKind, ltConns, ltOrder, ltTotal, ltFrames, ltChanges, ltStale>>
      /\ Sorted' = Sorted /\ Acyclic' = Acyclic
      /\ \A m : UpToDate(m)' = UpToDate(m)
      /\ \A d, m : Turn(d, m)' = Turn(d, m)
  BY DeliversKeeps
<1>3. /\ ltRange' \in [Modes -> [Ports -> LatencyRanges]]
      /\ \A m \in Modes : m # mode => ltRange'[m] = ltRange[m]
      /\ \A p \in Ports : p \notin InPorts[c] \cup OutPorts[c] => ltRange'[mode][p] = ltRange[mode][p]
      /\ \A p \in Taking(c, mode) : ltRange'[mode][p] = Recalculated(c, mode)[p]
      /\ \A p \in Depending(c, mode) :
            ltRange'[mode][p] = Plus(Spread({Recalculated(c, mode)[q] : q \in Taking(c, mode)}), Delay[c])
  BY <1>1, ClientHandlesIs
<1>4. \A m \in Modes : \A p \in Ports :
         p \notin InPorts[c] \cup OutPorts[c] => ltRange'[m][p] = ltRange[m][p]
  BY <1>3
<1>5. Terminal \subseteq Ports /\ \A p \in Terminal : p \notin InPorts[c] \cup OutPorts[c]
  BY DriversPorts
<1>6. \A m \in Modes : Taking(Driver, m) \subseteq Terminal /\ Depending(Driver, m) \subseteq Terminal
  BY DriversPorts
<1>7. \A m \in Modes : \A p \in Taking(Driver, m) \cup Depending(Driver, m) : ltRange'[m][p] = ltRange[m][p]
  BY <1>4, <1>5, <1>6
<1>8. LtTypeOK' /\ ltOrder' \in Sorted'
  BY <1>1, <1>2, <1>3 DEF LtTypeOK
<1>9. SourcesExact'
  BY <1>1, <1>7 DEF SourcesExact
<1>10. Many \in Nat /\ (\A m \in Modes : Turn(c, mode) # DriverFrom(m) /\ Turn(c, mode) # DriverLast(m)
                                         /\ DriverFrom(m) \in Nat /\ DriverLast(m) \in Nat)
  BY <1>1, ManyIs, TurnsAre DEF DriverFrom, DriverLast, Modes
<1>11. DriverIsFresh'
  <2>1. DriverIsFresh
    BY DEF LatencyIInv
  <2>2. \A m \in Modes : DriverFrom(m) <= Asked' => DriverFrom(m) <= Asked
    BY <1>10
  <2>3. QED
    BY <1>2, <1>7, <2>1, <2>2 DEF DriverIsFresh, DriverFrom
<1>12. AnswersAreRight'
  <2> SUFFICES ASSUME Acyclic, ltChanges.sorts > 0, NEW m \in Modes, UpToDate(m),
                      NEW d \in LatencyClients, Turn(d, m) <= Asked + 1
               PROVE  IsRight(d, m)'
    BY <1>2 DEF AnswersAreRight
  <2>1. \A e \in LatencyClients : \A k \in Modes : UpToDate(k) /\ Turn(e, k) <= Asked => IsRight(e, k)
    BY DEF LatencyIInv, AnswersAreRight
  <2>2. \A q \in Depending(Driver, m) : ltRange'[m][q] = ltRange[m][q]
    BY <1>7
  <2>3. CASE d = c /\ m = mode
    <3>1. ASSUME NEW b \in Preceding(c, mode) PROVE IsRight(b, mode)
      <4>1. b \in LatencyClients /\ Turn(b, mode) < Turn(c, mode)
        BY <1>1, BeforeIsEarlier
      <4>2. Turn(b, mode) \in Nat
        BY <1>1, <4>1, TurnsAre
      <4>3. Turn(b, mode) <= Asked
        BY <4>1, <4>2
      <4>4. QED
        BY <2>1, <2>3, <4>1, <4>3
    <3>2. /\ \A p \in Taking(c, mode) : Recalculated(c, mode)[p] = RangeOf(AlongRoutes(p, mode))
          /\ Plus(Spread({Recalculated(c, mode)[q] : q \in Taking(c, mode)}), Delay[c])
               = RangeOf(Through(c, mode))
          /\ Ends(Through(c, mode))
      BY <1>1, <3>1, TurnIsRight
    <3>3. Through(c, mode)' = Through(c, mode)
          /\ \A p \in Taking(c, mode) : AlongRoutes(p, mode)' = AlongRoutes(p, mode)
      BY <1>1, <1>2, <2>2, <2>3, RoutesFrame DEF Owners
    <3>4. /\ \A p \in Taking(c, mode) : ltRange'[mode][p] = RangeOf(AlongRoutes(p, mode)')
          /\ \A p \in Depending(c, mode) : ltRange'[mode][p] = RangeOf(Through(c, mode)')
      BY <1>3, <3>2, <3>3
    <3>5. IsRight(c, mode)'
      BY <3>2, <3>3, <3>4 DEF IsRight
    <3>6. QED
      BY <2>3, <3>5
  <2>4. CASE ~(d = c /\ m = mode)
    <3>1. Turn(d, m) # Asked + 1
      <4>1. TheEvent(ltOrder, Turn(d, m)) = <<d, m>> /\ TheEvent(ltOrder, Turn(c, mode)) = <<c, mode>>
        BY <1>1, TurnsAre
      <4>2. QED
        BY <2>4, <4>1
    <3>2. Turn(d, m) \in Nat
      BY <1>1, TurnsAre
    <3>3. Turn(d, m) <= Asked
      BY <3>1, <3>2
    <3>4. IsRight(d, m)
      BY <2>1, <3>3
    <3>5. ASSUME NEW p \in InPorts[d] \cup OutPorts[d] PROVE ltRange'[m][p] = ltRange[m][p]
      <4>1. CASE m # mode
        BY <1>3, <4>1
      <4>2. CASE m = mode
        <5>1. d # c /\ d \in Owners /\ c \in Owners
          BY <2>4, <4>2 DEF Owners
        <5>2. p \in Ports /\ p \notin InPorts[c] \cup OutPorts[c]
          BY <5>1, PortsOfOwners, DriversPorts
        <5>3. QED
          BY <1>4, <5>2
      <4>3. QED
        BY <4>1, <4>2
    <3>6. QED
      BY <1>1, <1>2, <2>2, <3>4, <3>5, RightStays
  <2>5. QED
    BY <2>3, <2>4
<1>13. DriverIsRight'
  <2> SUFFICES ASSUME Acyclic, ltChanges.sorts > 0, ltKind = "plain", NEW m \in Modes, DriverLast(m) <= Asked + 1,
                      NEW p \in Taking(Driver, m)
               PROVE  ltRange'[m][p] = RangeOf(AlongRoutes(p, m)')
    BY <1>2 DEF DriverIsRight, DriverLast
  <2>1. DriverLast(m) <= Asked
    BY <1>10
  <2>2. ltRange[m][p] = RangeOf(AlongRoutes(p, m))
    BY <2>1 DEF LatencyIInv, DriverIsRight
  <2>3. AlongRoutes(p, m)' = AlongRoutes(p, m)
    <3>1. Driver \in Owners /\ \A q \in Depending(Driver, m) : ltRange'[m][q] = ltRange[m][q]
      BY <1>7 DEF Owners
    <3>2. QED
      BY <1>1, <1>2, <3>1, RoutesFrame
  <2>4. QED
    BY <1>7, <2>2, <2>3
<1>14. TotalsAreKept'
  <2>1. TotalsAreKept
    BY DEF LatencyIInv
  <2>2. QED
    BY <1>2, <2>1 DEF TotalsAreKept, jack_get_port_total_latency, AtOtherEnd
<1>15. QED
  BY <1>8, <1>9, <1>11, <1>12, <1>13, <1>14 DEF LatencyIInv

LEMMA DriverAnswers ==
    ASSUME LatencyIInv, Delivers, Asked \in Nat, Asked' = Asked + 1, PassInv', NEW mode \in Modes,
           \/ mode = "capture" /\ (Asked + 1 = 1 \/ Asked + 1 = Many + 2)
           \/ mode = "playback" /\ (Asked + 1 = 2 * Many + 3 \/ Asked + 1 = 2 * Many + 4),
           DriverHandles(mode)
    PROVE  LatencyIInv'
<1>1. LtTypeOK /\ ltOrder \in Sorted /\ PassInv /\ SourcesExact
      /\ DriverIsFresh /\ AnswersAreRight /\ DriverIsRight /\ TotalsAreKept
  BY DEF LatencyIInv
<1>2. /\ UNCHANGED <<ltKind, ltConns, ltOrder, ltTotal, ltFrames, ltChanges, ltStale>>
      /\ Sorted' = Sorted /\ Acyclic' = Acyclic
      /\ \A m : UpToDate(m)' = UpToDate(m)
      /\ \A d, m : Turn(d, m)' = Turn(d, m)
  BY DeliversKeeps
<1>3. /\ ltRange' \in [Modes -> [Ports -> LatencyRanges]] /\ ltLatency' \in [Ports -> Nat]
      /\ \A m \in Modes : m # mode => ltRange'[m] = ltRange[m]
      /\ \A p \in Ports : p \notin Terminal => ltRange'[mode][p] = ltRange[mode][p]
  BY <1>1, DriverHandlesIs
<1>4. ltKind = "plain" =>
        /\ \A p \in Taking(Driver, mode) : ltRange'[mode][p] = Recalculated(Driver, mode)[p]
        /\ \A p \in Depending(Driver, mode) : ltRange'[mode][p] = ltRange[mode][p]
        /\ ltLatency' = ltLatency
  BY <1>1, DriverHandlesIs
<1>5. ltKind = "callback" =>
        /\ \A p \in Terminal : ltRange'[mode][p] = Exactly(ltFrames)
        /\ \A p \in Depending(Driver, mode) : ltLatency'[p] = ltFrames
        /\ \A p \in Ports : p \notin Depending(Driver, mode) => ltLatency'[p] = ltLatency[p]
  BY <1>1, DriverHandlesIs
<1>6. /\ ltKind = "plain" \/ ltKind = "callback"
      /\ ltFrames \in Nat /\ ltLatency \in [Ports -> Nat]
  BY <1>1 DEF LtTypeOK
<1>7. Driver \in Owners /\ Terminal \subseteq Ports
      /\ \A m \in Modes : /\ Taking(Driver, m) \subseteq Terminal /\ Depending(Driver, m) \subseteq Terminal
                          /\ m # mode => Depending(Driver, m) = Taking(Driver, mode)
      /\ Taking(Driver, mode) \cap Depending(Driver, mode) = {}
  BY DriversPorts
<1>8. Many \in Nat
  BY ManyIs
<1>9. \A d \in LatencyClients : \A m \in Modes : Turn(d, m) <= Asked + 1 => Turn(d, m) <= Asked
  <2> SUFFICES ASSUME NEW d \in LatencyClients, NEW m \in Modes, Turn(d, m) <= Asked + 1 PROVE Turn(d, m) <= Asked
    OBVIOUS
  <2>1. /\ Turn(d, m) \in Nat
        /\ m = "capture" => Turn(d, m) \in 2 .. Many + 1
        /\ m = "playback" => Turn(d, m) \in Many + 3 .. 2 * Many + 2
    BY <1>1, TurnsAre
  <2>2. m = "capture" \/ m = "playback"
    BY DEF Modes
  <2>3. QED
    BY <1>8, <2>1, <2>2
\* What the driver gives is what it gave, where its clients rely on it.
<1>10. ASSUME NEW m \in Modes, UpToDate(m), NEW d \in LatencyClients, Turn(d, m) <= Asked,
              NEW q \in Depending(Driver, m)
       PROVE  ltRange'[m][q] = ltRange[m][q]
  <2>1. CASE m # mode
    BY <1>3, <2>1
  <2>2. CASE m = mode /\ ltKind = "plain"
    BY <1>4, <2>2
  <2>3. CASE m = mode /\ ltKind = "callback"
    <3>1. DriverFrom(m) <= Asked \/ ~ltStale
      <4>1. CASE m = "capture"
        <5>1. Turn(d, m) \in 2 .. Many + 1
          BY <1>1, <4>1, TurnsAre
        <5>2. DriverFrom(m) = 1
          BY <4>1 DEF DriverFrom
        <5>3. QED
          BY <1>8, <1>10, <5>1, <5>2
      <4>2. CASE m # "capture"
        BY <1>10, <2>3, <4>2 DEF UpToDate
      <4>3. QED
        BY <4>1, <4>2
    <3>2. ltRange[m][q] = Exactly(ltFrames)
      BY <1>1, <2>3, <3>1 DEF DriverIsFresh
    <3>3. ltRange'[m][q] = Exactly(ltFrames)
      BY <1>5, <1>7, <2>3
    <3>4. QED
      BY <3>2, <3>3
  <2>4. QED
    BY <1>6, <2>1, <2>2, <2>3
<1>11. LtTypeOK' /\ ltOrder' \in Sorted'
  BY <1>1, <1>2, <1>3 DEF LtTypeOK
<1>12. SourcesExact'
  <2> SUFFICES ASSUME NEW m \in Modes, NEW q \in Depending(Driver, m)
               PROVE  ltRange'[m][q].min = ltRange'[m][q].max
    BY DEF SourcesExact
  <2>1. ltRange[m][q].min = ltRange[m][q].max
    BY <1>1 DEF SourcesExact
  <2>2. CASE m # mode \/ ltKind = "plain"
    BY <1>3, <1>4, <2>1, <2>2
  <2>3. CASE m = mode /\ ltKind = "callback"
    <3>1. ltRange'[m][q] = Exactly(ltFrames)
      BY <1>5, <1>7, <2>3
    <3>2. QED
      BY <3>1 DEF Exactly
  <2>4. QED
    BY <1>6, <2>2, <2>3
<1>13. DriverIsFresh'
  <2> SUFFICES ASSUME ltKind = "callback", NEW m \in Modes, DriverFrom(m) <= Asked + 1 \/ ~ltStale,
                      NEW q \in Depending(Driver, m)
               PROVE  ltRange'[m][q] = Exactly(ltFrames) /\ ltLatency'[q] = ltFrames
    BY <1>2 DEF DriverIsFresh, DriverFrom, Exactly
  <2>1. CASE m = mode
    BY <1>5, <1>7, <2>1
  <2>2. CASE m # mode
    <3>1. DriverFrom(m) <= Asked + 1 => DriverFrom(m) <= Asked
      BY <1>8, <2>2 DEF DriverFrom, Modes
    <3>2. ltRange[m][q] = Exactly(ltFrames) /\ ltLatency[q] = ltFrames
      BY <1>1, <3>1 DEF DriverIsFresh
    <3>3. q \in Ports /\ q \notin Depending(Driver, mode)
      BY <1>7, <2>2
    <3>4. QED
      BY <1>3, <1>5, <2>2, <3>2, <3>3
  <2>3. QED
    BY <2>1, <2>2
<1>14. AnswersAreRight'
  <2> SUFFICES ASSUME Acyclic, ltChanges.sorts > 0, NEW m \in Modes, UpToDate(m),
                      NEW d \in LatencyClients, Turn(d, m) <= Asked + 1
               PROVE  IsRight(d, m)'
    BY <1>2 DEF AnswersAreRight
  <2>1. Turn(d, m) <= Asked
    BY <1>9
  <2>2. IsRight(d, m)
    BY <1>1, <2>1 DEF AnswersAreRight
  <2>3. \A q \in Depending(Driver, m) : ltRange'[m][q] = ltRange[m][q]
    BY <1>10, <2>1
  <2>4. \A p \in InPorts[d] \cup OutPorts[d] : p \in Ports /\ p \notin Terminal
    BY DriversPorts
  <2>5. \A p \in InPorts[d] \cup OutPorts[d] : ltRange'[m][p] = ltRange[m][p]
    BY <1>3, <2>4
  <2>6. QED
    BY <1>1, <1>2, <2>2, <2>3, <2>5, RightStays
<1>15. DriverIsRight'
  <2> SUFFICES ASSUME Acyclic, ltChanges.sorts > 0, ltKind = "plain", NEW m \in Modes, DriverLast(m) <= Asked + 1,
                      NEW p \in Taking(Driver, m)
               PROVE  ltRange'[m][p] = RangeOf(AlongRoutes(p, m)')
    BY <1>2 DEF DriverIsRight, DriverLast
  <2>1. \A q \in Depending(Driver, m) : ltRange'[m][q] = ltRange[m][q]
    BY <1>3, <1>4
  <2>2. AlongRoutes(p, m)' = AlongRoutes(p, m)
    BY <1>1, <1>2, <1>7, <2>1, RoutesFrame
  <2>3. CASE m # mode
    <3>1. DriverLast(m) <= Asked
      BY <1>8, <2>3 DEF DriverLast, Modes
    <3>2. ltRange[m][p] = RangeOf(AlongRoutes(p, m))
      BY <1>1, <3>1 DEF DriverIsRight
    <3>3. ltRange'[m] = ltRange[m]
      BY <1>3, <2>3
    <3>4. QED
      BY <2>2, <3>2, <3>3
  <2>4. CASE m = mode
    <3>1. ASSUME NEW d \in LatencyClients PROVE IsRight(d, mode)
      <4>1. /\ Turn(d, m) \in Nat
            /\ m = "capture" => Turn(d, m) \in 2 .. Many + 1
            /\ m = "playback" => Turn(d, m) \in Many + 3 .. 2 * Many + 2
        BY <1>1, TurnsAre
      <4>2. m = "capture" \/ m = "playback"
        BY DEF Modes
      <4>3. Turn(d, m) <= Asked
        BY <1>8, <4>1, <4>2 DEF DriverLast
      <4>4. QED
        BY <1>1, <2>4, <4>3 DEF AnswersAreRight, UpToDate
    <3>2. ASSUME NEW q \in ConnectedTo(p) \ Terminal PROVE IsRight(ClientOf(q), mode)
      <4>1. ClientOf(q) \in LatencyClients
        BY <1>1, <1>7, NeighboursAre
      <4>2. QED
        BY <3>1, <4>1
    <3>3. jack_port_recalculate_latency(p, mode) = RangeOf(AlongRoutes(p, mode))
      BY <1>1, <1>7, <2>4, <3>2, TakesOver
    <3>4. Recalculated(Driver, mode)[p] = jack_port_recalculate_latency(p, mode)
      BY <1>7, <2>4 DEF Recalculated
    <3>5. ltRange'[m][p] = Recalculated(Driver, mode)[p]
      BY <1>4, <2>4
    <3>6. QED
      BY <2>2, <2>4, <3>3, <3>4, <3>5
  <2>5. QED
    BY <2>3, <2>4
<1>16. TotalsAreKept'
  <2> SUFFICES ASSUME ~ltStale PROVE ltLatency' = ltLatency
    BY <1>1, <1>2 DEF TotalsAreKept, jack_get_port_total_latency, AtOtherEnd
  <2>1. CASE ltKind = "callback"
    <3>1. \A q \in Depending(Driver, mode) : ltLatency[q] = ltFrames
      BY <1>1, <2>1 DEF DriverIsFresh
    <3>2. \A q \in Ports : ltLatency'[q] = ltLatency[q]
      BY <1>5, <2>1, <3>1
    <3>3. QED
      BY <1>3, <1>6, <3>2
  <2>2. QED
    BY <1>4, <1>6, <2>1
<1>17. PassInv'
  OBVIOUS
<1>18. QED
  BY <1>11, <1>12, <1>13, <1>14, <1>15, <1>16, <1>17 DEF LatencyIInv

LEMMA TotalType ==
    ASSUME LtTypeOK, NEW conns, NEW p \in Ports
    PROVE  jack_get_port_total_latency(p, conns) \in Nat
<1> DEFINE far == AtOtherEnd(p, conns)
           given == {ltLatency[q] : q \in far}
           all == {0} \cup given
<1>1. far \subseteq Ports
  BY DEF AtOtherEnd, Ports
<1>2. \A q \in Ports : ltLatency[q] \in Nat
  BY DEF LtTypeOK
<1> HIDE DEF far
<1>3. IsFiniteSet(far)
  BY <1>1, PortsOfOwners, FS_Subset
<1>4. given \in SUBSET Nat /\ IsFiniteSet(given)
  BY <1>1, <1>2, <1>3, FiniteImage
<1> HIDE DEF given
<1>5. all \in SUBSET Nat /\ all # {} /\ IsFiniteSet(all)
  <2>1. IsFiniteSet(given \cup {0}) /\ given \cup {0} = all
    BY <1>4, FS_AddElement
  <2>2. QED
    BY <1>4, <2>1
<1> HIDE DEF all
<1>6. PICK lo \in all, hi \in all : \A x \in all : lo <= x /\ x <= hi
  BY <1>5, FiniteEnds DEF Ends
<1>7. Max(all) \in Nat
  BY <1>5, <1>6, MinMaxAre
<1>8. QED
  BY <1>2, <1>7 DEF jack_get_port_total_latency, all, given, far

\* Nobody was asked yet.
LEMMA NewPass ==
    ASSUME ltOrder' \in Sorted', ltEvents' = jack_compute_new_latency(ltOrder')
    PROVE  /\ PassInv' /\ Asked' = 0
           /\ \A c \in LatencyClients, mode \in Modes : ~(Turn(c, mode)' <= Asked')
           /\ \A mode \in Modes : ~(DriverFrom(mode) <= Asked') /\ ~(DriverLast(mode) <= Asked')
<1>1. ltOrder' \in Orders
  BY DEF Sorted, Orders
<1>2. PICK order \in Orders : order = ltOrder'
  BY <1>1
<1>3. /\ Pass \in Nat /\ ltEvents' \in Seq(Owners \X Modes) /\ Len(ltEvents') = Pass
      /\ \A j \in 1 .. Pass : ltEvents'[j] = TheEvent(order, j)
  BY <1>2, PassIs
<1>4. Asked' = 0
  BY <1>3 DEF Asked, Pass
<1>5. PassInv'
  BY <1>2, <1>3, <1>4 DEF PassInv, Pass
<1>6. Many \in Nat
  BY ManyIs
<1>7. ASSUME NEW c \in LatencyClients, NEW mode \in Modes PROVE ~(Turn(c, mode)' <= Asked')
  <2>1. Position(order, c) \in 1 .. Many
    BY OrderIs
  <2>2. Turn(c, mode)' = IF mode = "capture" THEN Position(order, c) + 1 ELSE 2 * Many + 3 - Position(order, c)
    BY <1>2 DEF Turn
  <2>3. QED
    BY <1>4, <1>6, <2>1, <2>2
<1>8. \A mode \in Modes : ~(DriverFrom(mode) <= Asked') /\ ~(DriverLast(mode) <= Asked')
  BY <1>4, <1>6 DEF DriverFrom, DriverLast
<1>9. QED
  BY <1>4, <1>5, <1>7, <1>8

\* All were asked.
LEMMA PassIsOver ==
    ASSUME PassInv, ltOrder \in Sorted, ltEvents = <<>>
    PROVE  /\ \A c \in LatencyClients, mode \in Modes : Turn(c, mode) <= Asked
           /\ \A mode \in Modes : DriverFrom(mode) <= Asked /\ DriverLast(mode) <= Asked
<1>1. Many \in Nat /\ Asked = 2 * Many + 4
  BY ManyIs DEF Asked, Pass
<1>2. ASSUME NEW c \in LatencyClients, NEW mode \in Modes PROVE Turn(c, mode) <= Asked
  <2>1. /\ Turn(c, mode) \in Nat
        /\ mode = "capture" => Turn(c, mode) \in 2 .. Many + 1
        /\ mode = "playback" => Turn(c, mode) \in Many + 3 .. 2 * Many + 2
    BY TurnsAre
  <2>2. mode = "capture" \/ mode = "playback"
    BY DEF Modes
  <2>3. QED
    BY <1>1, <2>1, <2>2
<1>3. \A mode \in Modes : DriverFrom(mode) <= Asked /\ DriverLast(mode) <= Asked
  BY <1>1 DEF DriverFrom, DriverLast
<1>4. QED
  BY <1>2, <1>3

\* A new pass, over a graph that may be another one. The period is a new one only
\* where that is noted.
LEMMA PassStarts ==
    ASSUME LatencyIInv, ltEvents = <<>>, LtTypeOK', ltOrder' \in Sorted', TotalsAreKept',
           ltEvents' = jack_compute_new_latency(ltOrder'),
           UNCHANGED <<ltKind, ltRange, ltLatency>>, ltStale' \/ ltFrames' = ltFrames
    PROVE  LatencyIInv'
<1>1. PassInv /\ ltOrder \in Sorted /\ SourcesExact /\ DriverIsFresh
  BY DEF LatencyIInv
<1>2. /\ PassInv' /\ Asked' = 0
      /\ \A c \in LatencyClients, mode \in Modes : ~(Turn(c, mode)' <= Asked')
      /\ \A mode \in Modes : ~(DriverFrom(mode) <= Asked') /\ ~(DriverLast(mode) <= Asked')
  BY NewPass
<1>3. \A mode \in Modes : DriverFrom(mode) <= Asked
  BY <1>1, PassIsOver
<1>4. DriverIsFresh'
  <2> SUFFICES ASSUME ltKind = "callback", NEW mode \in Modes, ~ltStale', NEW q \in Depending(Driver, mode)
               PROVE  ltRange'[mode][q] = Exactly(ltFrames') /\ ltLatency'[q] = ltFrames'
    BY <1>2 DEF DriverIsFresh, DriverFrom, Exactly
  <2>1. ltRange[mode][q] = Exactly(ltFrames) /\ ltLatency[q] = ltFrames
    BY <1>1, <1>3 DEF DriverIsFresh
  <2>2. QED
    BY <2>1
<1>5. AnswersAreRight'
  BY <1>2 DEF AnswersAreRight
<1>6. DriverIsRight'
  BY <1>2 DEF DriverIsRight, DriverLast
<1>7. SourcesExact'
  BY <1>1 DEF SourcesExact
<1>8. QED
  BY <1>2, <1>4, <1>5, <1>6, <1>7 DEF LatencyIInv

LEMMA SortsKeepsLatencies == ASSUME LatencyIInv, Sorts PROVE LatencyIInv'
<1>1. LtTypeOK
  BY DEF LatencyIInv
<1>2. /\ ltEvents = <<>> /\ ltOrder' \in Sorted' /\ ltEvents' = jack_compute_new_latency(ltOrder')
      /\ ltStale' = FALSE /\ UNCHANGED <<ltKind, ltRange, ltLatency, ltFrames>>
      /\ ltTotal' = [p \in Ports |-> jack_get_port_total_latency(p, ltConns')]
      /\ ltChanges' = [ltChanges EXCEPT !.sorts = @ + 1]
  BY DEF Sorts, jack_compute_all_port_total_latencies
<1>3. ltConns' \subseteq Outs \X Ins
  BY <1>1 DEF Sorts, LtTypeOK
<1>4. \A p \in Ports : jack_get_port_total_latency(p, ltConns') \in Nat
  BY <1>1, TotalType
<1>5. ltTotal' \in [Ports -> Nat] /\ \A p \in Ports : ltTotal'[p] = jack_get_port_total_latency(p, ltConns')
  BY <1>2, <1>4
<1>6. LtTypeOK'
  <2>1. ltChanges' \in [sorts : Nat, sizes : Nat, recomputes : Nat]
    <3>1. ltChanges \in [sorts : Nat, sizes : Nat, recomputes : Nat]
      BY <1>1 DEF LtTypeOK
    <3>2. ltChanges' = [ltChanges EXCEPT !.sorts = @ + 1]
      BY <1>2
    <3>3. QED
      BY <3>1, <3>2
  <2>2. QED
    BY <1>1, <1>2, <1>3, <1>5, <2>1 DEF LtTypeOK
<1>7. TotalsAreKept'
  BY <1>2, <1>5 DEF TotalsAreKept, jack_get_port_total_latency, AtOtherEnd
<1>8. QED
  BY <1>2, <1>6, <1>7, PassStarts

LEMMA RecomputesKeepsLatencies == ASSUME LatencyIInv, Recomputes PROVE LatencyIInv'
<1>1. LtTypeOK /\ ltOrder \in Sorted
  BY DEF LatencyIInv
<1>2. /\ ltEvents = <<>> /\ ltEvents' = jack_compute_new_latency(ltOrder)
      /\ ltStale' = FALSE /\ UNCHANGED <<ltKind, ltConns, ltOrder, ltRange, ltLatency, ltFrames>>
      /\ ltTotal' = [p \in Ports |-> jack_get_port_total_latency(p, ltConns)]
      /\ ltChanges' = [ltChanges EXCEPT !.recomputes = @ + 1]
  BY DEF Recomputes, jack_compute_all_port_total_latencies
<1>3. \A p \in Ports : jack_get_port_total_latency(p, ltConns) \in Nat
  BY <1>1, TotalType
<1>4. ltTotal' \in [Ports -> Nat] /\ \A p \in Ports : ltTotal'[p] = jack_get_port_total_latency(p, ltConns)
  BY <1>2, <1>3
<1>5. LtTypeOK'
  <2>1. ltChanges' \in [sorts : Nat, sizes : Nat, recomputes : Nat]
    <3>1. ltChanges \in [sorts : Nat, sizes : Nat, recomputes : Nat]
      BY <1>1 DEF LtTypeOK
    <3>2. ltChanges' = [ltChanges EXCEPT !.recomputes = @ + 1]
      BY <1>2
    <3>3. QED
      BY <3>1, <3>2
  <2>2. QED
    BY <1>1, <1>2, <1>4, <2>1 DEF LtTypeOK
<1>6. TotalsAreKept'
  BY <1>2, <1>4 DEF TotalsAreKept, jack_get_port_total_latency, AtOtherEnd
<1>7. ltOrder' \in Sorted'
  BY <1>1, <1>2, GraphFrame
<1>8. QED
  BY <1>2, <1>5, <1>6, <1>7, PassStarts

LEMMA SizeChangesKeepsLatencies == ASSUME LatencyIInv, SizeChanges PROVE LatencyIInv'
<1>1. LtTypeOK /\ ltOrder \in Sorted
  BY DEF LatencyIInv
<1>2. /\ ltEvents = <<>> /\ ltEvents' = jack_compute_new_latency(ltOrder) /\ ltFrames' \in Periods
      /\ ltStale' = TRUE /\ UNCHANGED <<ltKind, ltConns, ltOrder, ltRange, ltLatency, ltTotal>>
      /\ ltChanges' = [ltChanges EXCEPT !.sizes = @ + 1]
  BY DEF SizeChanges
<1>3. LtTypeOK'
  <2>1. ltChanges' \in [sorts : Nat, sizes : Nat, recomputes : Nat]
    BY <1>1, <1>2 DEF LtTypeOK
  <2>2. ltFrames' \in Nat /\ ltStale' \in BOOLEAN
    BY <1>2, LatencyAssumption
  <2>3. QED
    BY <1>1, <1>2, <2>1, <2>2 DEF LtTypeOK
<1>4. TotalsAreKept'
  BY <1>2 DEF TotalsAreKept
<1>5. ltOrder' \in Sorted'
  BY <1>1, <1>2, GraphFrame
<1>6. QED
  BY <1>2, <1>3, <1>4, <1>5, PassStarts

\* Only totals change.
LEMMA TotalsOnly ==
    ASSUME LatencyIInv, LtTypeOK', TotalsAreKept',
           UNCHANGED <<ltKind, ltConns, ltOrder, ltRange, ltLatency, ltEvents, ltFrames, ltChanges, ltStale>>
    PROVE  LatencyIInv'
<1>1. LtTypeOK /\ ltOrder \in Sorted /\ PassInv /\ SourcesExact
      /\ DriverIsFresh /\ AnswersAreRight /\ DriverIsRight
  BY DEF LatencyIInv
<1>2. Sorted' = Sorted /\ Acyclic' = Acyclic /\ Asked' = Asked
      /\ \A c, m : Turn(c, m)' = Turn(c, m) /\ UpToDate(m)' = UpToDate(m)
  BY GraphFrame DEF Asked, Turn, UpToDate
<1>3. AnswersAreRight'
  <2> SUFFICES ASSUME Acyclic, ltChanges.sorts > 0, NEW m \in Modes, UpToDate(m),
                      NEW d \in LatencyClients, Turn(d, m) <= Asked
               PROVE  IsRight(d, m)'
    BY <1>2 DEF AnswersAreRight
  <2>1. IsRight(d, m)
    BY <1>1 DEF AnswersAreRight
  <2>2. QED
    BY <1>1, <2>1, RightStays
<1>4. DriverIsRight'
  <2> SUFFICES ASSUME Acyclic, ltChanges.sorts > 0, ltKind = "plain", NEW m \in Modes, DriverLast(m) <= Asked,
                      NEW p \in Taking(Driver, m)
               PROVE  ltRange'[m][p] = RangeOf(AlongRoutes(p, m)')
    BY <1>2 DEF DriverIsRight, DriverLast
  <2>1. ltRange[m][p] = RangeOf(AlongRoutes(p, m))
    BY <1>1 DEF DriverIsRight
  <2>2. AlongRoutes(p, m)' = AlongRoutes(p, m)
    BY <1>1, RoutesFrame DEF Owners
  <2>3. QED
    BY <2>1, <2>2
<1>5. PassInv'
  BY <1>1, <1>2 DEF PassInv
<1>6. DriverIsFresh' /\ SourcesExact'
  BY <1>1, <1>2 DEF DriverIsFresh, SourcesExact, DriverFrom
<1>7. QED
  BY <1>1, <1>2, <1>3, <1>4, <1>5, <1>6 DEF LatencyIInv

LEMMA RecomputesOneKeepsLatencies == ASSUME LatencyIInv, RecomputesOne PROVE LatencyIInv'
<1>1. LtTypeOK /\ TotalsAreKept
  BY DEF LatencyIInv
<1>2. UNCHANGED <<ltKind, ltConns, ltOrder, ltRange, ltLatency, ltEvents, ltFrames, ltChanges, ltStale>>
  BY DEF RecomputesOne
<1>3. PICK p \in Ports : ltTotal' = [ltTotal EXCEPT ![p] = jack_get_port_total_latency(p, ltConns)]
  BY DEF RecomputesOne
<1> DEFINE total == jack_get_port_total_latency(p, ltConns)
<1>4. total \in Nat
  BY <1>1, TotalType
<1>5. ltTotal' \in [Ports -> Nat] /\ ltTotal'[p] = total
      /\ \A q \in Ports : q # p => ltTotal'[q] = ltTotal[q]
  <2> HIDE DEF total
  <2>1. QED
    BY <1>1, <1>3, <1>4 DEF LtTypeOK, total
<1>6. LtTypeOK'
  BY <1>1, <1>2, <1>5 DEF LtTypeOK
<1>7. \A q \in Ports : jack_get_port_total_latency(q, ltConns)' = jack_get_port_total_latency(q, ltConns)
  BY <1>2 DEF jack_get_port_total_latency, AtOtherEnd
<1>8. TotalsAreKept'
  <2> SUFFICES ASSUME ~ltStale, NEW q \in Ports PROVE ltTotal'[q] = jack_get_port_total_latency(q, ltConns)'
    BY <1>2 DEF TotalsAreKept
  <2>1. ltTotal[q] = jack_get_port_total_latency(q, ltConns)
    BY <1>1 DEF TotalsAreKept
  <2>2. QED
    BY <1>5, <1>7, <2>1
<1>9. QED
  BY <1>2, <1>6, <1>8, TotalsOnly

LEMMA DeliversKeepsLatencies == ASSUME LatencyIInv, Delivers PROVE LatencyIInv'
<1>1. ltOrder \in Sorted /\ PassInv
  BY DEF LatencyIInv
<1>2. Asked \in Nat /\ Asked' = Asked + 1 /\ Asked + 1 \in 1 .. Pass /\ PassInv'
  BY <1>1, DeliversIs
<1>3. PICK c, mode : /\ TheEvent(ltOrder, Asked + 1) = <<c, mode>>
                     /\ IF c = Driver THEN DriverHandles(mode)
                        ELSE ClientHandles(c, mode) /\ UNCHANGED ltLatency
  BY <1>1, DeliversIs
<1>4. PICK j \in 1 .. Pass : j = Asked + 1
  BY <1>2
<1>5. /\ mode \in Modes
      /\ \/ c = Driver /\ mode = "capture" /\ (j = 1 \/ j = Many + 2)
         \/ c = Driver /\ mode = "playback" /\ (j = 2 * Many + 3 \/ j = 2 * Many + 4)
         \/ c \in LatencyClients /\ j = Turn(c, mode)
  BY <1>1, <1>3, <1>4, EventsAre
<1>6. CASE c = Driver
  <2>1. c \notin LatencyClients /\ DriverHandles(mode)
    BY <1>3, <1>6, LatencyAssumption
  <2>2. \/ mode = "capture" /\ (Asked + 1 = 1 \/ Asked + 1 = Many + 2)
        \/ mode = "playback" /\ (Asked + 1 = 2 * Many + 3 \/ Asked + 1 = 2 * Many + 4)
    BY <1>4, <1>5, <2>1, Zenon
  <2>3. QED
    BY <1>2, <1>5, <2>1, <2>2, DriverAnswers
<1>7. CASE c # Driver
  <2>1. c \in LatencyClients /\ Turn(c, mode) = Asked + 1 /\ ClientHandles(c, mode) /\ ltLatency' = ltLatency
    BY <1>3, <1>4, <1>5, <1>7
  <2>2. QED
    BY <1>2, <1>5, <2>1, ClientAnswers
<1>8. QED
  BY <1>6, <1>7

LEMMA LatenciesStart == ASSUME LatencyInit PROVE LatencyIInv
<1>1. /\ ltKind \in DriverKinds /\ ltConns = {} /\ ltEvents = <<>> /\ ltStale = FALSE
      /\ ltOrder \in Orders /\ ltFrames \in Periods
      /\ ltTotal = ltLatency /\ ltChanges = [sorts |-> 0, sizes |-> 0, recomputes |-> 0]
      /\ ltLatency = [p \in Ports |-> IF p \in Terminal THEN ltFrames ELSE 0]
      /\ ltRange = [mode \in Modes |->
            [p \in Ports |-> Exactly(IF p \in Depending(Driver, mode) THEN ltFrames ELSE 0)]]
  BY DEF LatencyInit, Orders
<1>2. ltFrames \in Nat
  BY <1>1, LatencyAssumption
<1>3. \A mode \in Modes : Depending(Driver, mode) \subseteq Terminal /\ Terminal \subseteq Ports
  BY DriversPorts
<1>4. \A mode \in Modes : \A p \in Ports :
         ltRange[mode][p] = Exactly(IF p \in Depending(Driver, mode) THEN ltFrames ELSE 0)
  BY <1>1
<1>5. LtTypeOK
  <2>1. \A n \in Nat : Exactly(n) \in LatencyRanges
    BY DEF Exactly, LatencyRanges
  <2>2. \A mode \in Modes : \A p \in Ports :
           Exactly(IF p \in Depending(Driver, mode) THEN ltFrames ELSE 0) \in LatencyRanges
    BY <1>2, <2>1
  <2>3. ltRange \in [Modes -> [Ports -> LatencyRanges]]
    BY <1>1, <2>2
  <2>4. ltLatency \in [Ports -> Nat]
    BY <1>1, <1>2
  <2>5. QED
    BY <1>1, <1>2, <2>3, <2>4, LatencyAssumption DEF LtTypeOK
<1>6. ltOrder \in Sorted
  <2>1. Feeding = {}
    BY <1>1 DEF Feeding, Feeds
  <2>2. QED
    BY <1>1, <2>1 DEF Sorted, Orders
<1>7. PassInv
  <2>1. Many \in Nat /\ Pass \in Nat
    BY ManyIs DEF Pass
  <2>2. QED
    BY <1>1, <2>1 DEF PassInv
<1>8. SourcesExact
  <2>1. \A n : Exactly(n).min = Exactly(n).max
    BY DEF Exactly
  <2>2. QED
    BY <1>3, <1>4, <2>1 DEF SourcesExact
<1>9. DriverIsFresh
  BY <1>1, <1>3, <1>4 DEF DriverIsFresh
<1>10. ~(ltChanges.sorts > 0)
  BY <1>1
<1>11. AnswersAreRight /\ DriverIsRight
  BY <1>10 DEF AnswersAreRight, DriverIsRight
<1>12. TotalsAreKept
  <2> SUFFICES ASSUME NEW p \in Ports PROVE ltTotal[p] = jack_get_port_total_latency(p, ltConns)
    BY DEF TotalsAreKept
  <2>1. AtOtherEnd(p, ltConns) = {}
    BY <1>1 DEF AtOtherEnd
  <2>2. jack_get_port_total_latency(p, ltConns) = ltLatency[p] + Max({0})
    BY <2>1 DEF jack_get_port_total_latency
  <2>3. Max({0}) = 0
    BY MinMaxAre
  <2>4. ltLatency[p] \in Nat
    BY <1>5 DEF LtTypeOK
  <2>5. QED
    BY <1>1, <2>2, <2>3, <2>4
<1>13. QED
  BY <1>5, <1>6, <1>7, <1>8, <1>9, <1>11, <1>12 DEF LatencyIInv

LEMMA LatenciesGive == ASSUME LatencyIInv PROVE LatencyInv
<1>1. ltOrder \in Sorted /\ PassInv /\ AnswersAreRight /\ DriverIsRight /\ TotalsAreKept
  BY DEF LatencyIInv
<1>2. Settled => Acyclic /\ ltChanges.sorts > 0 /\ ltEvents = <<>>
  BY DEF Settled, Acyclic
<1>3. RangesAreOfRoutes
  <2> SUFFICES ASSUME Settled, NEW c \in LatencyClients, NEW mode \in Modes, UpToDate(mode)
               PROVE  IsRight(c, mode)
    BY DEF RangesAreOfRoutes, IsRight
  <2>1. Turn(c, mode) <= Asked
    BY <1>1, <1>2, PassIsOver
  <2>2. QED
    BY <1>1, <1>2, <2>1 DEF AnswersAreRight
<1>4. DriverKnowsItsRoutes
  <2> SUFFICES ASSUME Settled, ltKind = "plain", NEW mode \in Modes, NEW p \in Taking(Driver, mode)
               PROVE  ltRange[mode][p] = RangeOf(AlongRoutes(p, mode))
    BY DEF DriverKnowsItsRoutes
  <2>1. DriverLast(mode) <= Asked
    BY <1>1, <1>2, PassIsOver
  <2>2. QED
    BY <1>1, <1>2, <2>1 DEF DriverIsRight
<1>5. TotalsAreFresh
  BY <1>1 DEF TotalsAreFresh, TotalsAreKept
<1>6. QED
  BY <1>3, <1>4, <1>5 DEF LatencyInv

\* Whatever the graph, the kind of the driver, the delays of the clients and the
\* changes of graph and period: after a pass (jack_compute_new_latency), in a graph
\* without circles, every port of a client has the range of the sums along the routes
\* between it and the driver, the ports of a driver without a callback as well, and the
\* totals (jack_compute_all_port_total_latencies) are those of the connections until
\* the period changes.
THEOREM LatenciesAreOfRoutes == LatencySpec => []LatencyInv
<1>1. LatencyInit => LatencyIInv
  BY LatenciesStart
<1>2. LatencyIInv /\ [LatencyNext]_latencyVars => LatencyIInv'
  <2> SUFFICES ASSUME LatencyIInv, [LatencyNext]_latencyVars PROVE LatencyIInv'
    OBVIOUS
  <2>1. CASE Sorts
    BY <2>1, SortsKeepsLatencies
  <2>2. CASE Recomputes
    BY <2>2, RecomputesKeepsLatencies
  <2>3. CASE RecomputesOne
    BY <2>3, RecomputesOneKeepsLatencies
  <2>4. CASE SizeChanges
    BY <2>4, SizeChangesKeepsLatencies
  <2>5. CASE Delivers
    BY <2>5, DeliversKeepsLatencies
  <2>6. CASE UNCHANGED latencyVars
    <3>1. UNCHANGED <<ltKind, ltConns, ltOrder, ltRange, ltLatency, ltEvents, ltFrames, ltChanges, ltStale>>
          /\ ltTotal' = ltTotal
      BY <2>6 DEF latencyVars
    <3>2. LtTypeOK' /\ TotalsAreKept'
      <4>1. LtTypeOK /\ TotalsAreKept
        BY DEF LatencyIInv
      <4>2. LtTypeOK'
        BY <3>1, <4>1 DEF LtTypeOK
      <4>3. TotalsAreKept'
        BY <3>1, <4>1 DEF TotalsAreKept, jack_get_port_total_latency, AtOtherEnd
      <4>4. QED
        BY <4>2, <4>3
    <3>3. QED
      BY <3>1, <3>2, TotalsOnly
  <2>7. QED
    BY <2>1, <2>2, <2>3, <2>4, <2>5, <2>6 DEF LatencyNext
<1>3. LatencyIInv => LatencyInv
  BY LatenciesGive
<1>4. QED
  BY <1>1, <1>2, <1>3, PTL DEF LatencySpec
==============================================================================
