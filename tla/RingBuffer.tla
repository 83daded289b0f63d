------------------------------ MODULE RingBuffer ------------------------------
(* The lock-free ring buffer of libjack (libjack/ringbuffer.c) with its one    *)
(* reader and its one writer. Each works on a pointer of its own and takes a   *)
(* look at the other's, which may move at once; the bytes are copied and the   *)
(* pointer moved in separate steps, twice where the copy wraps around. Bytes   *)
(* are numbered, so that a byte that is lost or overwritten can be told.       *)
EXTENDS Integers

CONSTANTS
    Size,           \* rb->size, a power of two: & size_mask is % Size
    MaxBytes        \* bound: bytes that are written in all

ASSUME RingAssumption == Size \in Nat /\ Size > 1 /\ MaxBytes \in Nat

VARIABLES
    write_ptr, read_ptr, buf,
    w_at, w_n, w_rest,      \* the writer, what it copies now and afterwards
    r_at, r_n, r_rest,      \* the reader
    written, taken          \* bytes written and read so far

ringVars == <<write_ptr, read_ptr, buf, w_at, w_n, w_rest, r_at, r_n, r_rest,
              written, taken>>

Cells == 0 .. Size - 1
Least(a, b) == IF a > b THEN b ELSE a

\* jack_ringbuffer_create rounds up, to 2 at least.
jack_ringbuffer_create(sz) ==
    CHOOSE s \in {2 ^ k : k \in 1 .. 16} :
        s >= sz /\ (s = 2 \/ s < 2 * sz)

jack_ringbuffer_read_space(w, r) ==
    IF w > r THEN w - r ELSE (w - r + Size) % Size

jack_ringbuffer_write_space(w, r) ==
    IF w > r THEN ((r - w + Size) % Size) - 1
    ELSE IF w < r THEN r - w - 1
    ELSE Size - 1

\* What is copied first, and what after the end of the buffer.
FirstPart(ptr, n) == IF ptr + n > Size THEN Size - ptr ELSE n
SecondPart(ptr, n) == IF ptr + n > Size THEN (ptr + n) % Size ELSE 0

RingInit ==
    /\ write_ptr = 0 /\ read_ptr = 0
    /\ buf = [i \in Cells |-> 0]
    /\ w_at = "idle" /\ w_n = 0 /\ w_rest = 0
    /\ r_at = "idle" /\ r_n = 0 /\ r_rest = 0
    /\ written = 0 /\ taken = 0

\* jack_ringbuffer_write, until it has decided on its two parts; cnt or fewer.
BeginsWrite(cnt) ==
    LET n == Least(cnt, jack_ringbuffer_write_space(write_ptr, read_ptr))
    IN  /\ w_at = "idle"
        /\ n > 0
        /\ written + n <= MaxBytes
        /\ w_at' = "copies"
        /\ w_n' = FirstPart(write_ptr, n)
        /\ w_rest' = SecondPart(write_ptr, n)
    /\ UNCHANGED <<write_ptr, read_ptr, buf, r_at, r_n, r_rest, written, taken>>

\* jack_ringbuffer_get_write_vector: its user fills both segments, or a part,
\* and calls jack_ringbuffer_write_advance once.
BeginsWriteVector(cnt) ==
    LET free == jack_ringbuffer_write_space(write_ptr, read_ptr)
        segments == FirstPart(write_ptr, free) + SecondPart(write_ptr, free)
    IN  /\ w_at = "idle"
        /\ cnt \in 1 .. segments
        /\ written + cnt <= MaxBytes
        /\ w_at' = "copies"
        /\ w_n' = cnt
        /\ w_rest' = 0
    /\ UNCHANGED <<write_ptr, read_ptr, buf, r_at, r_n, r_rest, written, taken>>

\* Where cell i is, seen from a pointer.
Ahead(i, ptr) == IF i >= ptr THEN i - ptr ELSE i - ptr + Size

WriterCopies ==
    /\ w_at = "copies"
    /\ w_at' = "moves"
    /\ buf' = [i \in Cells |-> IF Ahead(i, write_ptr) < w_n
                               THEN written + Ahead(i, write_ptr) ELSE buf[i]]
    /\ UNCHANGED <<write_ptr, read_ptr, w_n, w_rest, r_at, r_n, r_rest, written, taken>>

\* Mutant: the pointer may move before the bytes are there.
WriterMoves_Early ==
    /\ w_at \in {"copies", "moves"}
    /\ write_ptr' = (write_ptr + w_n) % Size
    /\ written' = written + w_n
    /\ w_at' = IF w_rest = 0 THEN "idle" ELSE "copies"
    /\ w_n' = w_rest
    /\ w_rest' = 0
    /\ UNCHANGED <<read_ptr, buf, r_at, r_n, r_rest, taken>>

WriterMoves ==
    /\ w_at = "moves"
    /\ write_ptr' = (write_ptr + w_n) % Size
    /\ written' = written + w_n
    /\ w_at' = IF w_rest = 0 THEN "idle" ELSE "copies"
    /\ w_n' = w_rest
    /\ w_rest' = 0
    /\ UNCHANGED <<read_ptr, buf, r_at, r_n, r_rest, taken>>

\* jack_ringbuffer_read
BeginsRead(cnt) ==
    LET n == Least(cnt, jack_ringbuffer_read_space(write_ptr, read_ptr))
    IN  /\ r_at = "idle"
        /\ n > 0
        /\ r_at' = "copies"
        /\ r_n' = FirstPart(read_ptr, n)
        /\ r_rest' = SecondPart(read_ptr, n)
    /\ UNCHANGED <<write_ptr, read_ptr, buf, w_at, w_n, w_rest, written, taken>>

\* jack_ringbuffer_get_read_vector and jack_ringbuffer_peek
BeginsReadVector(cnt) ==
    LET full == jack_ringbuffer_read_space(write_ptr, read_ptr)
        segments == FirstPart(read_ptr, full) + SecondPart(read_ptr, full)
    IN  /\ r_at = "idle"
        /\ cnt \in 1 .. segments
        /\ r_at' = "copies"
        /\ r_n' = cnt
        /\ r_rest' = 0
    /\ UNCHANGED <<write_ptr, read_ptr, buf, w_at, w_n, w_rest, written, taken>>

\* The bytes are copied and then the pointer moves.
ReaderMoves ==
    /\ r_at = "copies"
    /\ read_ptr' = (read_ptr + r_n) % Size
    /\ taken' = taken + r_n
    /\ r_at' = IF r_rest = 0 THEN "idle" ELSE "copies"
    /\ r_n' = r_rest
    /\ r_rest' = 0
    /\ UNCHANGED <<write_ptr, buf, w_at, w_n, w_rest, written>>

\* jack_ringbuffer_peek leaves the pointer.
Peeked ==
    /\ r_at = "copies"
    /\ r_rest = 0
    /\ r_at' = "idle"
    /\ r_n' = 0
    /\ UNCHANGED <<write_ptr, read_ptr, buf, w_at, w_n, w_rest, r_rest, written, taken>>

RingNext ==
    \/ \E cnt \in 1 .. Size : \/ BeginsWrite(cnt) \/ BeginsWriteVector(cnt)
                              \/ BeginsRead(cnt) \/ BeginsReadVector(cnt)
    \/ WriterCopies \/ WriterMoves \/ ReaderMoves \/ Peeked

RingSpec == RingInit /\ [][RingNext]_ringVars

------------------------------------------------------------------------------
\* Pointers, claims and cells are in range.
RingTypeOK ==
    /\ write_ptr \in Cells /\ read_ptr \in Cells
    /\ buf \in [Cells -> Nat]
    /\ w_at \in {"idle", "copies", "moves"} /\ w_n \in 0 .. Size /\ w_rest \in 0 .. Size
    /\ r_at \in {"idle", "copies"} /\ r_n \in 0 .. Size /\ r_rest \in 0 .. Size
    /\ written \in Nat /\ taken \in Nat

\* The two pointers alone tell how many bytes are there, at every moment, with
\* the other side in the middle of a copy: full is never taken for empty.
SpaceIsCount ==
    /\ jack_ringbuffer_read_space(write_ptr, read_ptr) = written - taken
    /\ jack_ringbuffer_write_space(write_ptr, read_ptr) = Size - 1 - (written - taken)

\* What a side decided to copy stays its own while the other goes on.
ClaimsHold ==
    /\ r_n + r_rest <= written - taken
    /\ w_n + w_rest <= Size - 1 - (written - taken)

\* The bytes between the pointers are those that were written, in order: what
\* the reader copies is never overwritten, whichever way it copies.
UnreadStay ==
    \A k \in Cells : k < written - taken => buf[(read_ptr + k) % Size] = taken + k

\* The ring buffer is a queue: its pointers count what is in it, what either side
\* claimed stays its own, and the bytes come out as they went in.
RingInv ==
    /\ RingTypeOK
    /\ SpaceIsCount
    /\ ClaimsHold
    /\ UnreadStay
==============================================================================
