------------------------------ MODULE SpscRing ------------------------------
(***************************************************************************)
(* modern/core/zs407_spsc.c: a lock-free byte ring shared by one producer   *)
(* and one consumer.  head and tail run freely modulo 2^32 (CursorModulus)  *)
(* and the slot of a cursor is its value modulo the capacity.  Each load of *)
(* the other side's cursor, each memcpy and each store of one's own cursor  *)
(* is a step of its own.  The loads are acquire and the stores are release, *)
(* so the bytes copied before a store are visible to whoever loads it.      *)
(***************************************************************************)
EXTENDS Integers, Sequences

CONSTANTS Capacity,        \* ring->capacity
          CursorModulus,   \* 2^32: the cursors are uint32_t
          Byte,            \* the values of a byte the runs tell apart
          MaxRequest       \* the longest input or output buffer of a caller

\* zs407_spsc_ring_init refuses a capacity below 2, above UINT32_MAX / 2 or
\* not a power of two; what the ring needs of a power of two is that it
\* divides the cursors' modulus.
ASSUME SpscAssumption ==
  /\ Capacity \in Nat /\ Capacity >= 2
  /\ CursorModulus \in Nat
  /\ \E k \in 2..CursorModulus : CursorModulus = k * Capacity
  /\ MaxRequest \in Nat /\ MaxRequest >= 1

VARIABLES
  data,     \* the storage, one byte per slot
  head,     \* the producer's cursor
  tail,     \* the consumer's cursor
  wpc,      \* where the producer is in zs407_spsc_ring_write
  input,    \* the bytes of the write in progress, <<>> between calls
  wcount,   \* how many of them the write accepted
  room,     \* what the producer's last zs407_spsc_ring_free returned
  rpc,      \* where the consumer is in zs407_spsc_ring_read
  output,   \* the bytes the read in progress, or the last one, copied out
  rcount,   \* how many bytes the read in progress takes
  ready     \* what the consumer's last zs407_spsc_ring_available returned

producer == <<wpc, input, wcount, room>>
consumer == <<rpc, output, rcount, ready>>
vars == <<data, head, tail, producer, consumer>>

Cursors == 0..(CursorModulus - 1)
Slots == 0..(Capacity - 1)
Transfers == UNION {[1..n -> Byte] : n \in 1..MaxRequest}
Smaller(a, b) == IF a < b THEN a ELSE b

-----------------------------------------------------------------------------
(* Cursor arithmetic.                                                        *)

\* cursor + count in uint32_t, for a count below the modulus
Advance(cursor, count) ==
  IF cursor + count < CursorModulus THEN cursor + count
                                    ELSE cursor + count - CursorModulus

\* A plain signed difference: wrong once head has wrapped and tail has not.
UsedUnwrapped(h, t) == IF h >= t THEN h - t ELSE 0

\* head - tail in uint32_t
Used(h, t) == IF h >= t THEN h - t ELSE h - t + CursorModulus

Free(h, t) == Capacity - Used(h, t)

Slot(cursor) == cursor % Capacity

\* The bytes moved by the first of the two memcpy calls: those before the
\* end of the storage.
FirstPart(cursor, count) == Smaller(Capacity - Slot(cursor), count)

\* memcpy(&mem[slot], bytes, Len(bytes))
CopyInto(mem, slot, bytes) ==
  [k \in Slots |-> IF slot <= k /\ k < slot + Len(bytes)
                   THEN bytes[k - slot + 1] ELSE mem[k]]

\* the bytes of a memcpy of count bytes out of mem, starting at slot
CopyOut(mem, slot, count) == [i \in 1..count |-> mem[slot + i - 1]]

-----------------------------------------------------------------------------
Init == /\ data \in [Slots -> Byte]
        /\ head = 0 /\ tail = 0
        /\ wpc = "idle" /\ input = <<>> /\ wcount = 0 /\ room = 0
        /\ rpc = "idle" /\ output = <<>> /\ rcount = 0 /\ ready = 0

\* The producer asks how much it may write.
QueryFree == /\ wpc = "idle"
             /\ room' = Free(head, tail)
             /\ UNCHANGED <<data, head, tail, wpc, input, wcount, consumer>>

\* zs407_spsc_ring_write up to the acquire load of tail
WriteLoad == /\ wpc = "idle"
             /\ input' \in Transfers
             /\ wcount' = Smaller(Len(input'), Free(head, tail))
             /\ wpc' = "first"
             /\ UNCHANGED <<data, head, tail, room, consumer>>

WriteFirst ==
  /\ wpc = "first"
  /\ data' = CopyInto(data, Slot(head),
                      SubSeq(input, 1, FirstPart(head, wcount)))
  /\ wpc' = "second"
  /\ UNCHANGED <<head, tail, input, wcount, room, consumer>>

WriteSecond ==
  /\ wpc = "second"
  /\ data' = CopyInto(data, 0,
                      SubSeq(input, FirstPart(head, wcount) + 1, wcount))
  /\ wpc' = "publish"
  /\ UNCHANGED <<head, tail, input, wcount, room, consumer>>

\* store_release(&ring->head, head + count), and the call returns
WritePublish == /\ wpc = "publish"
                /\ head' = Advance(head, wcount)
                /\ wpc' = "idle" /\ input' = <<>> /\ wcount' = 0 /\ room' = 0
                /\ UNCHANGED <<data, tail, consumer>>

\* The consumer asks how much it may read.
QueryAvailable ==
  /\ rpc = "idle"
  /\ ready' = Used(head, tail)
  /\ UNCHANGED <<data, head, tail, producer, rpc, output, rcount>>

\* zs407_spsc_ring_read up to the acquire load of head
ReadLoad == /\ rpc = "idle"
            /\ \E n \in 1..MaxRequest : rcount' = Smaller(n, Used(head, tail))
            /\ output' = <<>>
            /\ rpc' = "first"
            /\ UNCHANGED <<data, head, tail, producer, ready>>

ReadFirst ==
  /\ rpc = "first"
  /\ output' = CopyOut(data, Slot(tail), FirstPart(tail, rcount))
  /\ rpc' = "second"
  /\ UNCHANGED <<data, head, tail, producer, rcount, ready>>

\* The consumer gives the slots back before it has emptied the wrapped part.
ReadSecondPublishedEarly ==
  /\ rpc = "second"
  /\ tail' = Advance(tail, rcount)
  /\ output' = output \o CopyOut(data, 0, rcount - FirstPart(tail, rcount))
  /\ rpc' = "publish" /\ rcount' = 0
  /\ UNCHANGED <<data, head, producer, ready>>

ReadSecond ==
  /\ rpc = "second"
  /\ output' = output \o CopyOut(data, 0, rcount - FirstPart(tail, rcount))
  /\ rpc' = "publish"
  /\ UNCHANGED <<data, head, tail, producer, rcount, ready>>

\* store_release(&ring->tail, tail + count), and the call returns
ReadPublish == /\ rpc = "publish"
               /\ tail' = Advance(tail, rcount)
               /\ rpc' = "idle" /\ rcount' = 0 /\ ready' = 0
               /\ UNCHANGED <<data, head, producer, output>>

Produce == QueryFree \/ WriteLoad \/ WriteFirst \/ WriteSecond \/ WritePublish
Consume == QueryAvailable \/ ReadLoad \/ ReadFirst \/ ReadSecond \/ ReadPublish

Next == Produce \/ Consume

Spec == Init /\ [][Next]_vars

-----------------------------------------------------------------------------
(* Properties.                                                               *)

TypeOK == /\ data \in [Slots -> Byte]
          /\ head \in Cursors /\ tail \in Cursors
          /\ wpc \in {"idle", "first", "second", "publish"}
          /\ input \in Seq(Byte) /\ wcount \in 0..Capacity /\ room \in 0..Capacity
          /\ rpc \in {"idle", "first", "second", "publish"}
          /\ output \in Seq(Byte) /\ rcount \in 0..Capacity /\ ready \in 0..Capacity

\* The ring never holds more than its capacity, whatever the cursors wrapped
\* to, even counting the write in flight; and a read in flight never takes
\* more than the ring holds (zs407_spsc.c:73-76, 88-89).
Bounded == /\ Used(head, tail) + wcount <= Capacity
           /\ rcount <= Used(head, tail)

WriteSlots == IF wpc = "first" \/ wpc = "second"
              THEN {Slot(head + i) : i \in 0..(wcount - 1)} ELSE {}
ReadSlots == IF rpc = "first" \/ rpc = "second"
             THEN {Slot(tail + i) : i \in 0..(rcount - 1)} ELSE {}

\* The two sides never touch one slot at the same time, although neither
\* holds a lock while its memcpy calls run (zs407_spsc.c:61-62, 94-95).
ExclusiveSlots == WriteSlots \cap ReadSlots = {}

\* An answer of free or available stays a promise until its caller moves its
\* own cursor, however far the other side gets meanwhile (zs407_spsc.c:38-52).
PromiseKept == room <= Free(head, tail) /\ ready <= Used(head, tail)

\* The bytes between the cursors, in the order they will be read.
Contents == [i \in 1..Used(head, tail) |-> data[Slot(tail + i - 1)]]

Fifo == INSTANCE ByteFifo WITH
          queue <- Contents,
          offer <- input,
          got <- IF rpc = "idle" THEN output ELSE <<>>

\* The ring implements a bounded byte queue: every accepted byte is delivered
\* once, in order and unchanged, across every wrap of slots and cursors
\* (tests/host/test_spsc_threaded.c:63-68).
ImplementsFifo == Fifo!Spec
=============================================================================
