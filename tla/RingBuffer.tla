----------------------------- MODULE RingBuffer ------------------------------
(***************************************************************************)
(* The ring buffer of nvim/rbuffer.c: two pointers into one array, each    *)
(* wrapped at its end, and a size that tells a full buffer from an empty   *)
(* one.  A client copies bytes to where rbuffer_write_ptr points and says  *)
(* how many with rbuffer_produced; it reads where rbuffer_read_ptr points  *)
(* and gives the bytes up with rbuffer_consumed.  Pointers are offsets     *)
(* from start_ptr.                                                         *)
(***************************************************************************)
EXTENDS Integers, Sequences

CONSTANTS Capacity,  \* of the array
          Byte       \* what it holds; memory starts with any

ASSUME RingAssumption == Capacity \in Nat \ {0}

VARIABLES data, readPtr, writePtr, size

ringVars == <<data, readPtr, writePtr, size>>

Offset == 0 .. Capacity - 1

(* Fault: a pointer at the end of the array is left there. *)
WrapLate(p) == IF p > Capacity THEN p - Capacity ELSE p

Wrap(p) == IF p >= Capacity THEN p - Capacity ELSE p

Space == Capacity - size

(* Fault: the bytes not read yet are forgotten. *)
WriteCountToEnd == IF size = Capacity THEN 0 ELSE Capacity - writePtr

(* rbuffer_write_ptr: the bytes that fit before the end of the array or    *)
(* the first byte to read.                                                 *)
WriteCount ==
    IF size = Capacity THEN 0
    ELSE IF writePtr >= readPtr THEN Capacity - writePtr
    ELSE readPtr - writePtr

(* rbuffer_read_ptr *)
ReadCount ==
    IF size = 0 THEN 0
    ELSE IF readPtr < writePtr THEN writePtr - readPtr
    ELSE Capacity - readPtr

(* rbuffer_get *)
Get(i) == data[Wrap(readPtr + i)]

(* What the buffer holds, first byte first. *)
Content == [i \in 1 .. size |-> Get(i - 1)]

(* A run of bytes is copied to the write pointer, and rbuffer_produced. *)
Produce(run) ==
    /\ Len(run) \in 1 .. WriteCount
    /\ data' = [o \in Offset |->
                  IF o \in writePtr .. writePtr + Len(run) - 1
                  THEN run[o - writePtr + 1]
                  ELSE data[o]]
    /\ writePtr' = Wrap(writePtr + Len(run))
    /\ size' = size + Len(run)
    /\ UNCHANGED readPtr

(* rbuffer_consumed *)
Consume(n) ==
    /\ n \in 1 .. size
    /\ readPtr' = Wrap(readPtr + n)
    /\ size' = size - n
    /\ UNCHANGED <<data, writePtr>>

(* rbuffer_reset: the content is moved to the start of the array. *)
Reset ==
    /\ data' = [o \in Offset |-> IF o < size THEN Get(o) ELSE data[o]]
    /\ readPtr' = 0
    /\ writePtr' = Wrap(size)
    /\ UNCHANGED size

RingInit ==
    /\ data \in [Offset -> Byte]
    /\ readPtr = 0 /\ writePtr = 0 /\ size = 0

RingNext == \/ \E n \in 1 .. Capacity : \/ Consume(n)
                                        \/ \E run \in [1 .. n -> Byte] : Produce(run)
            \/ Reset

RingSpec == RingInit /\ [][RingNext]_ringVars

-----------------------------------------------------------------------------
RingTypeOK ==
    /\ data \in [Offset -> Byte]
    /\ readPtr \in Offset /\ writePtr \in Offset
    /\ size \in 0 .. Capacity

(* The pointers and the size agree: no two of them tell a different        *)
(* content, and the write pointer never runs into bytes not yet read.      *)
PointersAgree == writePtr = Wrap(readPtr + size)

(* The two pointers and the size realise a bounded queue of bytes, wherever *)
(* they wrap.                                                               *)
Queue == INSTANCE ByteQueue WITH queue <- Content

ImplementsQueue == Queue!QueueSpec
=============================================================================
