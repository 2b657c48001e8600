---------------------------- MODULE SpscRingProofs ----------------------------
(***************************************************************************)
(* The ring of SpscRing for every capacity, cursor modulus, byte alphabet   *)
(* and transfer length that SpscAssumption allows.                          *)
(***************************************************************************)
EXTENDS SpscRing, ModArithmetic, SequenceTheorems

-----------------------------------------------------------------------------
(* Cursor arithmetic. *)

\* What the assumption on the constants says in the shape the provers use.
LEMMA CapacityFacts ==
  /\ Capacity \in Nat /\ Capacity >= 2
  /\ CursorModulus \in Nat /\ CursorModulus >= 2 * Capacity
  <1>1. PICK k \in 2..CursorModulus : CursorModulus = k * Capacity
    BY SpscAssumption
  <1>2. k * Capacity >= 2 * Capacity BY <1>1, SpscAssumption
  <1> QED BY <1>1, <1>2, SpscAssumption

\* Moving head forward fills the ring by as much, as long as it fits.
LEMMA AdvanceHead ==
  ASSUME NEW h \in Cursors, NEW t \in Cursors, NEW n \in 0..Capacity,
         Used(h, t) + n <= Capacity
  PROVE  /\ Advance(h, n) \in Cursors
         /\ Used(Advance(h, n), t) = Used(h, t) + n
  BY CapacityFacts DEF Cursors, Advance, Used

\* Moving tail forward empties the ring by as much, as long as it is there.
LEMMA AdvanceTail ==
  ASSUME NEW h \in Cursors, NEW t \in Cursors, NEW n \in 0..Capacity,
         n <= Used(h, t), Used(h, t) <= Capacity
  PROVE  /\ Advance(t, n) \in Cursors
         /\ Used(h, Advance(t, n)) = Used(h, t) - n
  BY CapacityFacts DEF Cursors, Advance, Used

\* The slots reached from a cursor do not depend on whether it has wrapped.
LEMMA SlotOfAdvance ==
  ASSUME NEW c \in Cursors, NEW n \in 0..Capacity, NEW i \in Nat
  PROVE  Slot(Advance(c, n) + i) = Slot(c + n + i)
  <1>1. CASE c + n < CursorModulus
    BY <1>1, CapacityFacts DEF Advance, Cursors
  <1>2. CASE ~(c + n < CursorModulus)
    <2>1. PICK k \in 2..CursorModulus : CursorModulus = k * Capacity
      BY SpscAssumption
    <2> DEFINE x == c + n - CursorModulus + i
    <2>2. x \in Nat /\ Advance(c, n) + i = x
      BY <1>2, CapacityFacts DEF Advance, Cursors
    <2>3. c + n + i = x + k * Capacity
      BY <2>1, CapacityFacts DEF Cursors
    <2> HIDE DEF x
    <2>4. Capacity >= 1 /\ k \in Nat BY CapacityFacts
    <2>5. (x + k * Capacity) % Capacity = x % Capacity
      BY <2>2, <2>4, CapacityFacts, AddMultiple
    <2> QED BY <2>2, <2>3, <2>5 DEF Slot
  <1> QED BY <1>1, <1>2

\* Within one capacity, different offsets from a cursor are different slots.
LEMMA SlotsDistinct ==
  ASSUME NEW c \in Cursors, NEW i \in Nat, NEW j \in Nat,
         i < j, j - i < Capacity
  PROVE  Slot(c + i) # Slot(c + j)
  <1>1. /\ Capacity \in Nat /\ Capacity >= 1
        /\ c + i \in Nat /\ c + j \in Nat
        /\ c + i < c + j /\ (c + j) - (c + i) < Capacity
    BY CapacityFacts DEF Cursors
  <1>2. (c + i) % Capacity # (c + j) % Capacity
    BY <1>1, NearbyDistinct
  <1> QED BY <1>2 DEF Slot

\* Every cursor has a slot of the storage.
LEMMA SlotInRange ==
  ASSUME NEW c \in Nat
  PROVE  Slot(c) \in Slots
  BY CapacityFacts, DivMod DEF Slot, Slots

-----------------------------------------------------------------------------
(* The inductive invariant.  Bounded is what the steps preserve; the write in *)
(* flight also needs its count to stay within its input.                      *)

IndInv == TypeOK /\ Bounded /\ PromiseKept /\ wcount <= Len(input)

\* The smaller of two naturals is one of them and above neither.
LEMMA SmallerFacts ==
  ASSUME NEW a \in Int, NEW b \in Int
  PROVE  /\ Smaller(a, b) \in Int
         /\ Smaller(a, b) <= a /\ Smaller(a, b) <= b
         /\ Smaller(a, b) = a \/ Smaller(a, b) = b
  BY DEF Smaller

\* The fill level of two cursors is a natural number below the modulus.
LEMMA UsedType ==
  ASSUME NEW h \in Cursors, NEW t \in Cursors
  PROVE  Used(h, t) \in Nat
  BY CapacityFacts DEF Used, Cursors

\* The first memcpy stays within the storage and within the transfer.
LEMMA FirstPartFacts ==
  ASSUME NEW c \in Cursors, NEW n \in 0..Capacity
  PROVE  /\ Slot(c) \in Slots
         /\ FirstPart(c, n) \in 0..n
         /\ Slot(c) + FirstPart(c, n) <= Capacity
  <1>1. Slot(c) \in Slots BY SlotInRange DEF Cursors
  <1> QED BY <1>1, CapacityFacts DEF FirstPart, Smaller, Slots

\* A memcpy into the storage leaves bytes in every slot.
LEMMA CopyIntoType ==
  ASSUME NEW mem \in [Slots -> Byte], NEW slot \in Slots,
         NEW bytes \in Seq(Byte)
  PROVE  CopyInto(mem, slot, bytes) \in [Slots -> Byte]
  <1> SUFFICES ASSUME NEW k \in Slots, slot <= k, k < slot + Len(bytes)
               PROVE  bytes[k - slot + 1] \in Byte
    BY DEF CopyInto
  <1>1. k - slot + 1 \in 1..Len(bytes)
    BY CapacityFacts DEF Slots
  <1> QED BY <1>1

\* A memcpy out of the storage, within its bounds, yields bytes.
LEMMA CopyOutType ==
  ASSUME NEW mem \in [Slots -> Byte], NEW slot \in Slots, NEW n \in Nat,
         slot + n <= Capacity
  PROVE  CopyOut(mem, slot, n) \in Seq(Byte)
  <1> SUFFICES ASSUME NEW i \in 1..n PROVE mem[slot + i - 1] \in Byte
    BY DEF CopyOut
  <1>1. slot + i - 1 \in Slots BY CapacityFacts DEF Slots
  <1> QED BY <1>1

\* A caller's buffer is a sequence of bytes.
LEMMA TransfersAreSequences ==
  ASSUME NEW s \in Transfers
  PROVE  s \in Seq(Byte) /\ Len(s) \in Nat
  BY SpscAssumption DEF Transfers

\* The empty ring satisfies the inductive invariant.
LEMMA InitIndInv == Init => IndInv
  BY CapacityFacts
     DEF Init, IndInv, TypeOK, Bounded, PromiseKept, Used, Free, Cursors, Slots

\* Every step of the producer and of the consumer preserves it.
LEMMA NextIndInv == IndInv /\ [Next]_vars => IndInv'
  <1> SUFFICES ASSUME IndInv, [Next]_vars PROVE IndInv'
    OBVIOUS
  <1> USE CapacityFacts
  <1>0. /\ head \in Cursors /\ tail \in Cursors
        /\ Used(head, tail) \in 0..Capacity
        /\ wcount \in 0..Capacity /\ rcount \in 0..Capacity
        /\ input \in Seq(Byte) /\ output \in Seq(Byte)
        /\ data \in [Slots -> Byte]
    BY UsedType DEF IndInv, TypeOK, Bounded
  <1>1. CASE QueryFree
    BY <1>0, <1>1 DEF QueryFree, consumer, IndInv, TypeOK, Bounded, PromiseKept, Free
  <1>2. CASE WriteLoad
    <2>1. Smaller(Len(input'), Free(head, tail)) \in 0..Capacity
      BY <1>0, <1>2, TransfersAreSequences DEF WriteLoad, Smaller, Free
    <2>2. /\ wcount' \in 0..Capacity /\ wcount' <= Len(input')
          /\ Used(head, tail) + wcount' <= Capacity
          /\ input' \in Seq(Byte)
      BY <1>0, <1>2, <2>1, TransfersAreSequences DEF WriteLoad, Smaller, Free
    <2>3. /\ wpc' = "first" /\ Used(head, tail)' = Used(head, tail)
          /\ UNCHANGED <<data, head, tail, room, rpc, output, rcount, ready>>
      BY <1>2 DEF WriteLoad, consumer
    <2>4. TypeOK' BY <2>2, <2>3 DEF IndInv, TypeOK
    <2>5. Bounded' BY <2>2, <2>3 DEF IndInv, Bounded
    <2>6. PromiseKept' BY <2>3 DEF IndInv, PromiseKept, Free
    <2> QED BY <2>2, <2>4, <2>5, <2>6 DEF IndInv
  <1>3. CASE WriteFirst
    <2> DEFINE f == FirstPart(head, wcount)
    <2>0. f \in 0..wcount /\ wcount <= Len(input) /\ Slot(head) \in Slots
      BY <1>0, FirstPartFacts DEF IndInv
    <2>3. data' = CopyInto(data, Slot(head), SubSeq(input, 1, f))
      BY <1>3 DEF WriteFirst
    <2> HIDE DEF f
    <2>1. SubSeq(input, 1, f) \in Seq(Byte) BY <1>0, <2>0
    <2>2. data' \in [Slots -> Byte] BY <1>0, <2>0, <2>1, <2>3, CopyIntoType
    <2> QED BY <1>3, <2>2
            DEF WriteFirst, consumer, IndInv, TypeOK, Bounded, PromiseKept
  <1>4. CASE WriteSecond
    <2> DEFINE f == FirstPart(head, wcount)
    <2>0. f \in 0..wcount /\ wcount <= Len(input)
      BY <1>0, FirstPartFacts DEF IndInv
    <2>3. data' = CopyInto(data, 0, SubSeq(input, f + 1, wcount))
      BY <1>4 DEF WriteSecond
    <2> HIDE DEF f
    <2>1. SubSeq(input, f + 1, wcount) \in Seq(Byte)
      BY <1>0, <2>0
    <2>4. 0 \in Slots BY DEF Slots
    <2>2. data' \in [Slots -> Byte]
      BY <1>0, <2>1, <2>3, <2>4, CopyIntoType
    <2> QED BY <1>4, <2>2
            DEF WriteSecond, consumer, IndInv, TypeOK, Bounded, PromiseKept
  <1>5. CASE WritePublish
    <2>1. /\ head' \in Cursors
          /\ Used(head', tail) = Used(head, tail) + wcount
      BY <1>0, <1>5, AdvanceHead DEF WritePublish, IndInv, Bounded
    <2>2. input' \in Seq(Byte) /\ Len(input') = 0
      BY <1>5 DEF WritePublish
    <2>3. /\ wpc' = "idle" /\ wcount' = 0 /\ room' = 0
          /\ UNCHANGED <<data, tail, rpc, output, rcount, ready>>
      BY <1>5 DEF WritePublish, consumer
    <2>4. Used(head', tail') = Used(head, tail) + wcount BY <2>1, <2>3
    <2>5. /\ Used(head, tail) + wcount <= Capacity /\ rcount <= Used(head, tail)
          /\ ready <= Used(head, tail) /\ rcount \in 0..Capacity /\ ready \in 0..Capacity
      BY DEF IndInv, TypeOK, Bounded, PromiseKept
    <2>6. TypeOK' BY <2>1, <2>2, <2>3 DEF IndInv, TypeOK
    <2>7. Bounded' BY <1>0, <2>3, <2>4, <2>5 DEF Bounded
    <2>8. PromiseKept' BY <1>0, <2>3, <2>4, <2>5 DEF PromiseKept, Free
    <2> QED BY <2>2, <2>3, <2>6, <2>7, <2>8 DEF IndInv
  <1>6. CASE QueryAvailable
    BY <1>0, <1>6 DEF QueryAvailable, producer, IndInv, TypeOK, Bounded, PromiseKept
  <1>7. CASE ReadLoad
    <2>1. rcount' \in 0..Used(head, tail)
      BY <1>0, <1>7, SpscAssumption DEF ReadLoad, Smaller
    <2>2. output' \in Seq(Byte) BY <1>7 DEF ReadLoad
    <2>3. /\ rpc' = "first" /\ Used(head, tail)' = Used(head, tail)
          /\ UNCHANGED <<data, head, tail, wpc, input, wcount, room, ready>>
      BY <1>7 DEF ReadLoad, producer
    <2>4. rcount' \in 0..Capacity /\ rcount' <= Used(head, tail) BY <1>0, <2>1
    <2>5. TypeOK' BY <2>2, <2>3, <2>4 DEF IndInv, TypeOK
    <2>6. Bounded' BY <2>3, <2>4 DEF IndInv, Bounded
    <2>7. PromiseKept' BY <2>3 DEF IndInv, PromiseKept, Free
    <2> QED BY <2>3, <2>5, <2>6, <2>7 DEF IndInv
  <1>8. CASE ReadFirst
    <2> DEFINE f == FirstPart(tail, rcount)
    <2>0. f \in 0..rcount /\ Slot(tail) \in Slots /\ Slot(tail) + f <= Capacity
      BY <1>0, FirstPartFacts
    <2>3. output' = CopyOut(data, Slot(tail), f) BY <1>8 DEF ReadFirst
    <2> HIDE DEF f
    <2>1. output' \in Seq(Byte)
      BY <1>0, <2>0, <2>3, CopyOutType
    <2> QED BY <1>8, <2>1
            DEF ReadFirst, producer, IndInv, TypeOK, Bounded, PromiseKept
  <1>9. CASE ReadSecond
    <2> DEFINE n == rcount - FirstPart(tail, rcount)
    <2>0. FirstPart(tail, rcount) \in 0..rcount BY <1>0, FirstPartFacts
    <2>4. n \in 0..Capacity BY <1>0, <2>0
    <2>3. 0 \in Slots /\ n \in Nat /\ 0 + n <= Capacity
      BY <2>4 DEF Slots
    <2>1. CopyOut(data, 0, n) \in Seq(Byte)
      BY <1>0, <2>3, CopyOutType
    <2>2. output' \in Seq(Byte)
      BY <1>0, <1>9, <2>1 DEF ReadSecond
    <2> QED BY <1>9, <2>2
            DEF ReadSecond, producer, IndInv, TypeOK, Bounded, PromiseKept
  <1>10. CASE ReadPublish
    <2>1. /\ tail' \in Cursors
          /\ Used(head, tail') = Used(head, tail) - rcount
      BY <1>0, <1>10, AdvanceTail DEF ReadPublish, IndInv, Bounded
    <2>2. /\ rpc' = "idle" /\ rcount' = 0 /\ ready' = 0
          /\ UNCHANGED <<data, head, wpc, input, wcount, room, output>>
      BY <1>10 DEF ReadPublish, producer
    <2>3. Used(head', tail') = Used(head, tail) - rcount BY <2>1, <2>2
    <2>4. /\ Used(head, tail) + wcount <= Capacity /\ room <= Capacity - Used(head, tail)
          /\ rcount \in 0..Capacity /\ room \in 0..Capacity /\ rcount <= Used(head, tail)
      BY DEF IndInv, TypeOK, Bounded, PromiseKept, Free
    <2>5. TypeOK' BY <2>1, <2>2 DEF IndInv, TypeOK
    <2>6. Bounded' BY <1>0, <2>2, <2>3, <2>4 DEF Bounded
    <2>7. PromiseKept' BY <1>0, <2>2, <2>3, <2>4 DEF PromiseKept, Free
    <2> QED BY <2>2, <2>5, <2>6, <2>7 DEF IndInv
  <1>11. CASE UNCHANGED vars
    BY <1>11 DEF vars, producer, consumer, IndInv, TypeOK, Bounded, PromiseKept
  <1> QED BY <1>1, <1>2, <1>3, <1>4, <1>5, <1>6, <1>7, <1>8, <1>9, <1>10, <1>11
          DEF Next, Produce, Consume

\* The ring is type correct, never over-full, and its answers about room and
\* ready bytes are promises, in every reachable state (zs407_spsc.c:39-98).
THEOREM RingBounded == Spec => [](TypeOK /\ Bounded /\ PromiseKept)
  <1>1. IndInv => TypeOK /\ Bounded /\ PromiseKept BY DEF IndInv
  <1> QED BY InitIndInv, NextIndInv, <1>1, PTL DEF Spec

\* A slot of the write in flight holds none of the bytes stored so far.
LEMMA StoredApart ==
  ASSUME IndInv, NEW i \in 0..(wcount - 1), NEW j \in 0..(Used(head, tail) - 1)
  PROVE  Slot(head + i) # Slot(tail + j)
  <1> DEFINE u == Used(head, tail)
  <1>1. /\ head \in Cursors /\ tail \in Cursors
        /\ u \in 0..Capacity /\ j \in 0..(u - 1)
        /\ wcount \in 0..Capacity /\ u + wcount <= Capacity
    BY CapacityFacts, UsedType DEF IndInv, TypeOK, Bounded
  <1>2. head = Advance(tail, u)
    BY <1>1, CapacityFacts DEF Advance, Used, Cursors
  <1> HIDE DEF u
  <1>3. Slot(head + i) = Slot(tail + u + i)
    BY <1>1, <1>2, SlotOfAdvance
  <1>4. /\ u + i \in Nat /\ j \in Nat
        /\ j < u + i /\ (u + i) - j < Capacity
        /\ tail + u + i = tail + (u + i)
    BY <1>1, CapacityFacts DEF Cursors
  <1>5. Slot(tail + j) # Slot(tail + (u + i))
    BY <1>1, <1>4, SlotsDistinct
  <1> QED BY <1>3, <1>4, <1>5

\* The slots a write is filling and the slots a read is emptying are disjoint.
LEMMA IndInvExclusive == IndInv => ExclusiveSlots
  <1> SUFFICES ASSUME IndInv,
                      NEW i \in 0..(wcount - 1), NEW j \in 0..(rcount - 1)
               PROVE  Slot(head + i) # Slot(tail + j)
    BY DEF ExclusiveSlots, WriteSlots, ReadSlots
  <1>1. Used(head, tail) \in Nat /\ rcount \in Nat /\ rcount <= Used(head, tail)
    BY UsedType DEF IndInv, TypeOK, Bounded
  <1>2. j \in 0..(Used(head, tail) - 1) BY <1>1
  <1> QED BY <1>2, StoredApart

\* No slot is ever written and read at the same time, for every capacity.
THEOREM RingExclusive == Spec => []ExclusiveSlots
  BY InitIndInv, NextIndInv, IndInvExclusive, PTL DEF Spec

-----------------------------------------------------------------------------
(* Refinement of ByteFifo: what the two memcpy calls of each side have moved. *)

\* The bytes of the write in flight that are in the storage.
Written == CASE wpc = "second" -> FirstPart(head, wcount)
             [] wpc = "publish" -> wcount
             [] OTHER -> 0

WriteInv ==
  /\ wpc = "idle" => input = <<>> /\ wcount = 0
  /\ wpc # "idle" => input # <<>>
  /\ \A i \in 0..(Written - 1) : data[Slot(head + i)] = input[i + 1]

\* The bytes of the read in flight that are in the output.
Copied == IF rpc = "second" THEN FirstPart(tail, rcount) ELSE rcount

ReadInv ==
  rpc \in {"second", "publish"} =>
    /\ Len(output) = Copied
    /\ \A i \in 1..Copied : output[i] = data[Slot(tail + i - 1)]

TransferInv == IndInv /\ WriteInv /\ ReadInv

\* Before the end of the storage slots follow each other; behind it they start again at 0.
LEMMA SlotsOfTransfer ==
  ASSUME NEW c \in Cursors, NEW n \in 0..Capacity, NEW i \in 0..(n - 1)
  PROVE  Slot(c + i) = IF i < FirstPart(c, n) THEN Slot(c) + i ELSE i - FirstPart(c, n)
  <1>1. /\ Capacity \in Nat /\ Capacity >= 1 /\ c \in Nat /\ i \in 0..(Capacity - 1)
    BY CapacityFacts DEF Cursors
  <1>2. Slot(c) \in Slots BY <1>1, SlotInRange
  <1>3. IF Slot(c) + i >= Capacity THEN Slot(c + i) = Slot(c) + i - Capacity
                                   ELSE Slot(c + i) = Slot(c) + i
    BY <1>1, AddCarries DEF Slot
  <1> QED BY <1>1, <1>2, <1>3 DEF FirstPart, Smaller, Slots

\* What a memcpy into the storage leaves in a slot.
LEMMA SlotOfCopy ==
  ASSUME NEW mem \in [Slots -> Byte], NEW slot \in Slots, NEW bytes \in Seq(Byte),
         NEW k \in Slots
  PROVE  CopyInto(mem, slot, bytes)[k] =
           IF slot <= k /\ k < slot + Len(bytes) THEN bytes[k - slot + 1] ELSE mem[k]
  BY DEF CopyInto

\* The first copy of a write changes the slots of its bytes, to them, and no other.
LEMMA FirstCopy ==
  ASSUME NEW mem \in [Slots -> Byte], NEW c \in Cursors, NEW bytes \in Seq(Byte),
         NEW n \in 0..Capacity, n <= Len(bytes), NEW k \in Slots
  PROVE  LET f == FirstPart(c, n)
             copied == CopyInto(mem, Slot(c), SubSeq(bytes, 1, f))
         IN /\ \A i \in 0..(f - 1) : k = Slot(c + i) => copied[k] = bytes[i + 1]
            /\ copied[k] # mem[k] => \E i \in 0..(n - 1) : k = Slot(c + i)
  <1> DEFINE f == FirstPart(c, n)
             part == SubSeq(bytes, 1, f)
             copied == CopyInto(mem, Slot(c), part)
  <1>1. f \in 0..n /\ Slot(c) \in Slots /\ Slot(c) + f <= Capacity
    BY FirstPartFacts
  <1>2. part \in Seq(Byte) /\ Len(part) = f /\ \A i \in 1..f : part[i] = bytes[i]
    BY <1>1
  <1>3. \A i \in 0..(n - 1) : i < f => Slot(c + i) = Slot(c) + i
    BY SlotsOfTransfer
  <1>4. copied[k] = IF Slot(c) <= k /\ k < Slot(c) + f THEN part[k - Slot(c) + 1] ELSE mem[k]
    BY <1>1, <1>2, SlotOfCopy
  <1> HIDE DEF f, part, copied
  <1>0. Slot(c) \in Nat /\ k \in Nat /\ n \in Nat BY <1>1, CapacityFacts DEF Slots
  <1>5. ASSUME NEW i \in 0..(f - 1), k = Slot(c + i)
        PROVE  copied[k] = bytes[i + 1]
    <2>1. i \in 0..(n - 1) /\ i < f BY <1>0, <1>1
    <2>2. k = Slot(c) + i BY <1>3, <1>5, <2>1
    <2>3. copied[k] = part[i + 1] BY <1>0, <1>1, <1>4, <2>1, <2>2
    <2> QED BY <1>1, <1>2, <2>1, <2>3
  <1>6. ASSUME copied[k] # mem[k]
        PROVE  \E i \in 0..(n - 1) : k = Slot(c + i)
    <2>1. Slot(c) <= k /\ k < Slot(c) + f BY <1>4, <1>6
    <2>2. k - Slot(c) \in 0..(n - 1) /\ k - Slot(c) < f /\ k = Slot(c) + (k - Slot(c))
      BY <1>0, <1>1, <2>1
    <2> QED BY <1>3, <2>2
  <1> QED BY <1>5, <1>6 DEF f, part, copied

\* So does the second, and it leaves the slots of the first alone.
LEMMA SecondCopy ==
  ASSUME NEW mem \in [Slots -> Byte], NEW c \in Cursors, NEW bytes \in Seq(Byte),
         NEW n \in 0..Capacity, n <= Len(bytes), NEW k \in Slots
  PROVE  LET f == FirstPart(c, n)
             copied == CopyInto(mem, 0, SubSeq(bytes, f + 1, n))
         IN /\ \A i \in 0..(f - 1) : k = Slot(c + i) => copied[k] = mem[k]
            /\ \A i \in f..(n - 1) : k = Slot(c + i) => copied[k] = bytes[i + 1]
            /\ copied[k] # mem[k] => \E i \in 0..(n - 1) : k = Slot(c + i)
  <1> DEFINE f == FirstPart(c, n)
             part == SubSeq(bytes, f + 1, n)
             copied == CopyInto(mem, 0, part)
  <1>1. f \in 0..n /\ Slot(c) \in Slots /\ n \in 0..Capacity /\ Capacity \in Nat
    BY FirstPartFacts, CapacityFacts
  <1>9. f < n => f = Capacity - Slot(c)
    BY <1>1, CapacityFacts DEF FirstPart, Smaller, Slots
  <1>8. 0 \in Slots BY CapacityFacts DEF Slots
  <1>3. \A i \in 0..(n - 1) : Slot(c + i) = IF i < f THEN Slot(c) + i ELSE i - f
    BY SlotsOfTransfer
  <1> HIDE DEF f
  <1>2. part \in Seq(Byte) /\ Len(part) = n - f /\ \A i \in 1..(n - f) : part[i] = bytes[f + i]
    BY <1>1
  <1>4. copied[k] = IF 0 <= k /\ k < 0 + (n - f) THEN part[k - 0 + 1] ELSE mem[k]
    BY <1>2, <1>8, SlotOfCopy
  <1> HIDE DEF part, copied
  <1>0. Slot(c) \in 0..(Capacity - 1) /\ k \in 0..(Capacity - 1) /\ n \in Nat /\ f \in Nat
    BY <1>1 DEF Slots
  <1>5. ASSUME NEW i \in 0..(f - 1), k = Slot(c + i)
        PROVE  copied[k] = mem[k]
    <2>1. i \in 0..(n - 1) /\ i < f BY <1>0, <1>1
    <2>2. k = Slot(c) + i BY <1>3, <1>5, <2>1
    <2>3. ~(k < n - f) BY <1>0, <1>1, <1>9, <2>1, <2>2
    <2> QED BY <1>4, <2>3, <1>0, <1>1
  <1>6. ASSUME NEW i \in f..(n - 1), k = Slot(c + i)
        PROVE  copied[k] = bytes[i + 1]
    <2>1. i \in 0..(n - 1) /\ ~(i < f) BY <1>0, <1>1
    <2>2. k = i - f BY <1>3, <1>6, <2>1
    <2>3. copied[k] = part[i - f + 1] BY <1>0, <1>1, <1>4, <2>1, <2>2
    <2>4. i - f + 1 \in 1..(n - f) /\ f + (i - f + 1) = i + 1 BY <1>0, <1>1, <2>1
    <2> QED BY <1>2, <2>3, <2>4
  <1>7. ASSUME copied[k] # mem[k]
        PROVE  \E i \in 0..(n - 1) : k = Slot(c + i)
    <2>1. k < n - f BY <1>0, <1>1, <1>4, <1>7
    <2>2. f + k \in 0..(n - 1) /\ ~(f + k < f) /\ (f + k) - f = k
      BY <1>0, <1>1, <2>1
    <2> QED BY <1>3, <2>2
  <1> QED BY <1>5, <1>6, <1>7 DEF f, part, copied

\* Types of what the steps of a transfer use.
LEMMA TransferTypes ==
  ASSUME IndInv
  PROVE  /\ head \in Cursors /\ tail \in Cursors /\ Used(head, tail) \in 0..Capacity
         /\ wcount \in 0..Capacity /\ rcount \in 0..Capacity /\ Capacity \in Nat
         /\ Used(head, tail) + wcount <= Capacity /\ rcount <= Used(head, tail)
         /\ input \in Seq(Byte) /\ output \in Seq(Byte) /\ wcount <= Len(input)
         /\ data \in [Slots -> Byte]
  BY CapacityFacts, UsedType DEF IndInv, TypeOK, Bounded

\* A write in flight leaves the bytes between the cursors as they are.
LEMMA StoredKept ==
  ASSUME IndInv, WriteFirst \/ WriteSecond, NEW j \in 0..(Used(head, tail) - 1)
  PROVE  data'[Slot(tail + j)] = data[Slot(tail + j)]
  <1> USE TransferTypes
  <1> DEFINE k == Slot(tail + j)
  <1>1. tail + j \in Nat BY DEF Cursors
  <1>2. k \in Slots BY <1>1, SlotInRange
  <1>3. data'[k] # data[k] => \E i \in 0..(wcount - 1) : k = Slot(head + i)
    <2> HIDE DEF k
    <2>1. CASE WriteFirst BY <1>2, <2>1, FirstCopy DEF WriteFirst
    <2>2. CASE WriteSecond BY <1>2, <2>2, SecondCopy DEF WriteSecond
    <2> QED BY <2>1, <2>2
  <1> QED BY <1>3, StoredApart

LEMMA NextWriteInv == TransferInv /\ [Next]_vars => WriteInv'
  <1> SUFFICES ASSUME IndInv, WriteInv, [Next]_vars PROVE WriteInv'
    BY DEF TransferInv
  <1> USE TransferTypes
  <1>1. CASE WriteLoad
    <2>1. input' # <<>> BY <1>1, SpscAssumption DEF WriteLoad, Transfers
    <2> QED BY <1>1, <2>1 DEF WriteLoad, WriteInv, Written
  <1>2. CASE WriteFirst
    <2>1. FirstPart(head, wcount) \in 0..wcount BY FirstPartFacts
    <2>2. ASSUME NEW i \in 0..(FirstPart(head, wcount) - 1)
          PROVE  data'[Slot(head + i)] = input[i + 1]
      <3>1. head + i \in Nat BY DEF Cursors
      <3>2. Slot(head + i) \in Slots BY <3>1, SlotInRange
      <3> QED BY <1>2, <3>2, FirstCopy DEF WriteFirst
    <2> QED BY <1>2, <2>2 DEF WriteFirst, WriteInv, Written
  <1>3. CASE WriteSecond
    <2>1. FirstPart(head, wcount) \in 0..wcount BY FirstPartFacts
    <2>2. ASSUME NEW i \in 0..(wcount - 1)
          PROVE  data'[Slot(head + i)] = input[i + 1]
      <3>1. head + i \in Nat BY DEF Cursors
      <3>2. Slot(head + i) \in Slots BY <3>1, SlotInRange
      <3>3. CASE i < FirstPart(head, wcount)
        <4>1. i \in 0..(FirstPart(head, wcount) - 1) BY <2>1, <3>3
        <4>2. data[Slot(head + i)] = input[i + 1]
          BY <1>3, <4>1 DEF WriteSecond, WriteInv, Written
        <4> QED BY <1>3, <3>2, <4>1, <4>2, SecondCopy DEF WriteSecond
      <3>4. CASE ~(i < FirstPart(head, wcount))
        <4>1. i \in FirstPart(head, wcount)..(wcount - 1) BY <2>1, <3>4
        <4> QED BY <1>3, <3>2, <4>1, SecondCopy DEF WriteSecond
      <3> QED BY <3>3, <3>4
    <2> QED BY <1>3, <2>2 DEF WriteSecond, WriteInv, Written
  <1>4. CASE WritePublish BY <1>4 DEF WritePublish, WriteInv, Written
  <1>5. CASE QueryFree BY <1>5 DEF QueryFree, WriteInv, Written
  <1>6. CASE Consume
    <2>1. UNCHANGED <<data, head, producer>>
      BY <1>6 DEF Consume, QueryAvailable, ReadLoad, ReadFirst, ReadSecond, ReadPublish
    <2> QED BY <2>1 DEF producer, WriteInv, Written
  <1>7. CASE UNCHANGED vars BY <1>7 DEF vars, producer, WriteInv, Written
  <1> QED BY <1>1, <1>2, <1>3, <1>4, <1>5, <1>6, <1>7 DEF Next, Produce

LEMMA NextReadInv == TransferInv /\ [Next]_vars => ReadInv'
  <1> SUFFICES ASSUME IndInv, ReadInv, [Next]_vars PROVE ReadInv'
    BY DEF TransferInv
  <1> USE TransferTypes
  <1>0. FirstPart(tail, rcount) \in 0..rcount /\ Slot(tail) \in Slots BY FirstPartFacts
  <1>1. CASE WriteFirst \/ WriteSecond
    <2>1. UNCHANGED <<rpc, output, rcount, tail>>
      BY <1>1 DEF WriteFirst, WriteSecond, consumer
    <2>2. ASSUME NEW i \in 1..Copied
          PROVE  data'[Slot(tail + i - 1)] = data[Slot(tail + i - 1)]
      <3>1. i - 1 \in 0..(Used(head, tail) - 1) /\ tail + i - 1 = tail + (i - 1)
        BY <1>0 DEF Copied, Cursors
      <3> QED BY <1>1, <3>1, StoredKept
    <2> QED BY <2>1, <2>2 DEF ReadInv, Copied
  <1>2. CASE QueryFree \/ WriteLoad \/ WritePublish \/ QueryAvailable
    <2>1. UNCHANGED <<data, rpc, output, rcount, tail>>
      BY <1>2 DEF QueryFree, WriteLoad, WritePublish, QueryAvailable, consumer
    <2> QED BY <2>1 DEF ReadInv, Copied
  <1>3. CASE ReadLoad BY <1>3 DEF ReadLoad, ReadInv
  <1>4. CASE ReadFirst
    <2> DEFINE f == FirstPart(tail, rcount)
    <2>1. output' = [i \in 1..f |-> data[Slot(tail) + i - 1]]
      BY <1>4 DEF ReadFirst, CopyOut
    <2>2. UNCHANGED <<data, tail, rcount>> /\ rpc' = "second"
      BY <1>4 DEF ReadFirst, producer
    <2>3. ASSUME NEW i \in 1..f PROVE Slot(tail + i - 1) = Slot(tail) + i - 1
      <3>1. i - 1 \in 0..(rcount - 1) /\ i - 1 < f /\ tail + i - 1 = tail + (i - 1)
            /\ Slot(tail) \in Nat
        BY <1>0 DEF Cursors, Slots
      <3> QED BY <3>1, SlotsOfTransfer
    <2> HIDE DEF f
    <2>4. Len(output') = f /\ \A i \in 1..f : output'[i] = data[Slot(tail + i - 1)]
      BY <1>0, <2>1, <2>3 DEF f
    <2>5. Copied' = f BY <2>2 DEF Copied, f
    <2> QED BY <2>2, <2>4, <2>5 DEF ReadInv
  <1>5. CASE ReadSecond
    <2> DEFINE f == FirstPart(tail, rcount)
               rest == CopyOut(data, 0, rcount - f)
    <2>0. /\ f \in 0..rcount /\ Len(output) = f
          /\ \A i \in 1..f : output[i] = data[Slot(tail + i - 1)]
      BY <1>0, <1>5 DEF ReadSecond, ReadInv, Copied
    <2>1. UNCHANGED <<data, tail, rcount>> /\ rpc' = "publish" /\ output' = output \o rest
      BY <1>5 DEF ReadSecond, producer
    <2>2. \A i \in 0..(rcount - 1) : ~(i < f) => Slot(tail + i) = i - f
      BY SlotsOfTransfer
    <2> HIDE DEF f
    <2>3. rest = [i \in 1..(rcount - f) |-> data[0 + i - 1]] BY DEF CopyOut
    <2> HIDE DEF rest
    <2>4. Len(rest) = rcount - f /\ rest \in Seq(Byte)
      <3>1. rcount - f \in 0..Capacity BY <2>0
      <3>2. \A i \in 1..(rcount - f) : 0 + i - 1 \in Slots BY <3>1 DEF Slots
      <3> QED BY <2>3, <3>1, <3>2
    <2>5. /\ Len(output') = rcount
          /\ \A i \in 1..rcount : output'[i] = IF i <= f THEN output[i] ELSE rest[i - f]
      <3>1. output \in Seq(Byte) /\ Len(output) = f /\ f + (rcount - f) = rcount
        BY <2>0
      <3>2. Len(output \o rest) = Len(output) + Len(rest) BY <2>4, <3>1, ConcatProperties
      <3>3. \A i \in 1..rcount :
              (output \o rest)[i] = IF i <= f THEN output[i] ELSE rest[i - f]
        <4>1. \A i \in 1..(Len(output) + Len(rest)) :
                (output \o rest)[i] = IF i <= Len(output) THEN output[i]
                                      ELSE rest[i - Len(output)]
          BY <2>4, <3>1, ConcatProperties
        <4>2. Len(output) = f /\ Len(output) + Len(rest) = rcount BY <2>4, <3>1
        <4> QED BY <4>1, <4>2
      <3> QED BY <2>1, <2>4, <3>1, <3>2, <3>3
    <2>6. ASSUME NEW i \in 1..rcount PROVE output'[i] = data[Slot(tail + i - 1)]
      <3>1. CASE i <= f BY <2>0, <2>5, <3>1
      <3>2. CASE ~(i <= f)
        <4>1. i - 1 \in 0..(rcount - 1) /\ ~(i - 1 < f) /\ tail + i - 1 = tail + (i - 1)
          BY <2>0, <3>2 DEF Cursors
        <4>2. Slot(tail + i - 1) = i - 1 - f BY <2>2, <4>1
        <4>3. rest[i - f] = data[0 + (i - f) - 1] BY <2>0, <2>3, <3>2
        <4> QED BY <2>0, <2>5, <3>2, <4>2, <4>3
      <3> QED BY <3>1, <3>2
    <2> QED BY <2>1, <2>5, <2>6 DEF ReadInv, Copied
  <1>6. CASE ReadPublish BY <1>6 DEF ReadPublish, ReadInv
  <1>7. CASE UNCHANGED vars BY <1>7 DEF vars, consumer, ReadInv, Copied
  <1> QED BY <1>1, <1>2, <1>3, <1>4, <1>5, <1>6, <1>7 DEF Next, Produce, Consume

LEMMA NextTransferInv == TransferInv /\ [Next]_vars => TransferInv'
  BY NextIndInv, NextWriteInv, NextReadInv DEF TransferInv

LEMMA InitTransferInv == Init => TransferInv
  <1>1. Init => WriteInv BY DEF Init, WriteInv, Written
  <1>2. Init => ReadInv BY DEF Init, ReadInv
  <1> QED BY <1>1, <1>2, InitIndInv DEF TransferInv

\* The queue as a sequence.
LEMMA ContentsSequence ==
  ASSUME IndInv
  PROVE  /\ Contents \in Seq(Byte) /\ Len(Contents) = Used(head, tail)
         /\ \A i \in 1..Used(head, tail) : Contents[i] = data[Slot(tail + i - 1)]
  <1> USE TransferTypes
  <1>1. ASSUME NEW i \in 1..Used(head, tail) PROVE data[Slot(tail + i - 1)] \in Byte
    <2>1. tail + i - 1 \in Nat BY DEF Cursors
    <2>2. Slot(tail + i - 1) \in Slots BY <2>1, SlotInRange
    <2> QED BY <2>2
  <1>2. Used(head, tail) \in Nat BY CapacityFacts
  <1> QED BY <1>1, <1>2 DEF Contents

\* Storing head appends the accepted bytes to the queue.
LEMMA PublishAppends ==
  ASSUME TransferInv, WritePublish
  PROVE  Contents' = Contents \o SubSeq(input, 1, wcount)
  <1> DEFINE u == Used(head, tail)
             new == SubSeq(input, 1, wcount)
  <1>0. IndInv /\ WriteInv BY DEF TransferInv
  <1> USE TransferTypes, <1>0
  <1>1. Used(head', tail') = u + wcount BY AdvanceHead DEF WritePublish
  <1>2. new \in Seq(Byte) /\ Len(new) = wcount /\ \A i \in 1..wcount : new[i] = input[i]
    OBVIOUS
  <1>3. /\ Contents \in Seq(Byte) /\ Len(Contents) = u
        /\ \A i \in 1..u : Contents[i] = data[Slot(tail + i - 1)]
    BY ContentsSequence
  <1>4. head = Advance(tail, u) BY CapacityFacts DEF Advance, Used, Cursors
  <1>5. Contents' = [i \in 1..(u + wcount) |-> data[Slot(tail + i - 1)]]
    BY <1>1 DEF WritePublish, Contents
  <1>6. u \in 0..Capacity OBVIOUS
  <1> HIDE DEF u, new
  <1>7. ASSUME NEW i \in (u + 1)..(u + wcount)
        PROVE  data[Slot(tail + i - 1)] = new[i - u]
    <2>1. /\ i - u - 1 \in 0..(wcount - 1) /\ i - u \in 1..wcount
          /\ (i - u - 1) + 1 = i - u
          /\ tail + i - 1 = tail + u + (i - u - 1)
      BY <1>6 DEF Cursors
    <2>2. Slot(head + (i - u - 1)) = Slot(tail + u + (i - u - 1))
      BY <1>4, <1>6, <2>1, SlotOfAdvance
    <2>3. Slot(tail + i - 1) = Slot(head + (i - u - 1)) BY <2>1, <2>2
    <2>4. Written = wcount BY DEF Written, WritePublish
    <2>5. data[Slot(head + (i - u - 1))] = input[i - u] BY <2>1, <2>4 DEF WriteInv
    <2> QED BY <1>2, <2>1, <2>3, <2>5
  <1>8. /\ Len(Contents \o new) = u + wcount /\ Contents \o new \in Seq(Byte)
        /\ \A i \in 1..(u + wcount) :
             (Contents \o new)[i] = IF i <= u THEN Contents[i] ELSE new[i - u]
    BY <1>2, <1>3, ConcatProperties
  <1>9. \A i \in 1..(u + wcount) : (Contents \o new)[i] = data[Slot(tail + i - 1)]
    <2> SUFFICES ASSUME NEW i \in 1..(u + wcount)
                 PROVE  (Contents \o new)[i] = data[Slot(tail + i - 1)]
      OBVIOUS
    <2>1. CASE i <= u
      <3>1. i \in 1..u BY <1>6, <2>1
      <3> QED BY <1>3, <1>8, <2>1, <3>1
    <2>2. CASE ~(i <= u)
      <3>1. i \in (u + 1)..(u + wcount) BY <1>6, <2>2
      <3> QED BY <1>7, <1>8, <2>2, <3>1
    <2> QED BY <2>1, <2>2
  <1>10. Contents \o new = [i \in 1..(u + wcount) |-> (Contents \o new)[i]]
    <2> DEFINE q == Contents \o new
    <2>1. q \in Seq(Byte) /\ Len(q) = u + wcount BY <1>8
    <2> HIDE DEF q
    <2>2. q = [i \in 1..(u + wcount) |-> q[i]] BY <2>1
    <2> QED BY <2>2 DEF q
  <1> QED BY <1>5, <1>9, <1>10 DEF new

\* Storing tail takes the bytes of the output off its front.
LEMMA PublishDrops ==
  ASSUME TransferInv, ReadPublish
  PROVE  /\ output = SubSeq(Contents, 1, rcount)
         /\ Contents' = SubSeq(Contents, rcount + 1, Len(Contents))
  <1> DEFINE u == Used(head, tail)
  <1>0. IndInv /\ ReadInv BY DEF TransferInv
  <1> USE TransferTypes, <1>0
  <1>1. Used(head', tail') = u - rcount BY AdvanceTail DEF ReadPublish
  <1>3. /\ Contents \in Seq(Byte) /\ Len(Contents) = u
        /\ \A i \in 1..u : Contents[i] = data[Slot(tail + i - 1)]
    BY ContentsSequence
  <1>5. Contents' = [i \in 1..(u - rcount) |-> data[Slot(Advance(tail, rcount) + i - 1)]]
    BY <1>1 DEF ReadPublish, Contents
  <1>6. u \in 0..Capacity /\ rcount \in 0..u OBVIOUS
  <1> HIDE DEF u
  <1>7. output = SubSeq(Contents, 1, rcount)
    <2>1. Len(output) = rcount /\ \A i \in 1..rcount : output[i] = data[Slot(tail + i - 1)]
      BY DEF ReadPublish, ReadInv, Copied
    <2>5. \A i \in 1..rcount : i \in 1..u BY <1>6
    <2>2. \A i \in 1..rcount : output[i] = Contents[i] BY <1>3, <2>1, <2>5
    <2>3. SubSeq(Contents, 1, rcount) = [i \in 1..rcount |-> Contents[i]]
      BY <1>3, <1>6
    <2>4. output = [i \in 1..rcount |-> output[i]] BY <2>1
    <2> QED BY <2>2, <2>3, <2>4
  <1>8. ASSUME NEW i \in 1..(u - rcount)
        PROVE  data[Slot(Advance(tail, rcount) + i - 1)] = Contents[rcount + i]
    <2>1. /\ i - 1 \in Nat /\ Advance(tail, rcount) \in Nat
          /\ rcount + i \in 1..u /\ tail + rcount + (i - 1) = tail + (rcount + i) - 1
      BY <1>6, AdvanceTail DEF Cursors, u
    <2>2. Advance(tail, rcount) + i - 1 = Advance(tail, rcount) + (i - 1) BY <2>1
    <2>3. Slot(Advance(tail, rcount) + (i - 1)) = Slot(tail + rcount + (i - 1))
      BY <2>1, SlotOfAdvance
    <2> QED BY <1>3, <2>1, <2>2, <2>3
  <1>9. SubSeq(Contents, rcount + 1, Len(Contents))
          = [i \in 1..(u - rcount) |-> Contents[rcount + i]]
    BY <1>3, <1>6
  <1> QED BY <1>5, <1>7, <1>8, <1>9

\* A step of the ring is one of the queue, or none that it shows.
LEMMA RingStep == TransferInv /\ [Next]_vars => [Fifo!Next]_(Fifo!vars)
  <1> DEFINE got == IF rpc = "idle" THEN output ELSE <<>>
  <1> SUFFICES ASSUME TransferInv, [Next]_vars
               PROVE  \/ Fifo!Next
                      \/ UNCHANGED <<Contents, input, got>>
    BY DEF Fifo!vars
  <1>0. IndInv /\ WriteInv /\ ReadInv BY DEF TransferInv
  <1> USE TransferTypes, <1>0
  <1>1. CASE QueryFree \/ QueryAvailable \/ ReadFirst \/ ReadSecond
    <2>2. UNCHANGED <<data, head, tail, input>>
      BY <1>1 DEF QueryFree, QueryAvailable, ReadFirst, ReadSecond, producer, consumer
    <2>3. UNCHANGED Contents BY <2>2 DEF Contents
    <2>4. UNCHANGED got
      <3>1. CASE QueryFree \/ QueryAvailable
        BY <3>1 DEF QueryFree, QueryAvailable, consumer
      <3>2. CASE ReadFirst \/ ReadSecond
        BY <3>2 DEF ReadFirst, ReadSecond
      <3> QED BY <1>1, <3>1, <3>2
    <2> QED BY <2>2, <2>3, <2>4
  <1>2. CASE WriteLoad
    <2>1. UNCHANGED <<data, head, tail, rpc, output>> BY <1>2 DEF WriteLoad, consumer
    <2>2. UNCHANGED <<Contents, got>> BY <2>1 DEF Contents
    <2>3. input = <<>> /\ input' \in Fifo!Transfers
      BY <1>2 DEF WriteLoad, WriteInv, Transfers, Fifo!Transfers
    <2> QED BY <2>2, <2>3 DEF Fifo!Next, Fifo!Offer
  <1>3. CASE WriteFirst \/ WriteSecond
    <2>1. UNCHANGED <<head, tail, input, rpc, output>>
      BY <1>3 DEF WriteFirst, WriteSecond, consumer
    <2>2. ASSUME NEW i \in 1..Used(head, tail)
          PROVE  data'[Slot(tail + i - 1)] = data[Slot(tail + i - 1)]
      <3>1. i - 1 \in 0..(Used(head, tail) - 1) /\ tail + i - 1 = tail + (i - 1)
        BY DEF Cursors
      <3> QED BY <1>3, <3>1, StoredKept
    <2>3. UNCHANGED Contents BY <2>1, <2>2 DEF Contents
    <2> QED BY <2>1, <2>3
  <1>4. CASE WritePublish
    <2>1. Contents' = Contents \o SubSeq(input, 1, wcount) BY <1>4, PublishAppends
    <2>2. Len(Contents) + wcount <= Capacity BY ContentsSequence
    <2>3. wcount \in 0..Len(input) /\ input # <<>> /\ input' = <<>>
      BY <1>4 DEF WritePublish, WriteInv
    <2>4. UNCHANGED got BY <1>4 DEF WritePublish, consumer
    <2> QED BY <2>1, <2>2, <2>3, <2>4 DEF Fifo!Next, Fifo!Put
  <1>5. CASE ReadLoad
    <2>1. UNCHANGED <<data, head, tail, input>> BY <1>5 DEF ReadLoad, producer
    <2>2. UNCHANGED Contents BY <2>1 DEF Contents
    <2>3. got' = <<>> BY <1>5 DEF ReadLoad
    <2> QED BY <2>1, <2>2, <2>3 DEF Fifo!Next, Fifo!Ask
  <1>6. CASE ReadPublish
    <2>1. /\ output = SubSeq(Contents, 1, rcount)
          /\ Contents' = SubSeq(Contents, rcount + 1, Len(Contents))
      BY <1>6, PublishDrops
    <2>2. rcount \in 0..Len(Contents) BY ContentsSequence
    <2>3. got' = output /\ input' = input BY <1>6 DEF ReadPublish, producer
    <2> QED BY <2>1, <2>2, <2>3 DEF Fifo!Next, Fifo!Get
  <1>7. CASE UNCHANGED vars BY <1>7 DEF vars, producer, consumer, Contents
  <1> QED BY <1>1, <1>2, <1>3, <1>4, <1>5, <1>6, <1>7 DEF Next, Produce, Consume

\* The ring is a bounded byte queue for every capacity, cursor modulus, alphabet and length
\* of the transfers: every accepted byte is delivered once, in order and unchanged
\* (zs407_spsc.c:54-98, tests/host/test_spsc_threaded.c:63-68).
THEOREM RingImplementsFifo == Spec => ImplementsFifo
  <1>1. Init => Fifo!Init
    <2> SUFFICES ASSUME Init PROVE Fifo!Init OBVIOUS
    <2>1. Used(head, tail) = 0 BY DEF Init, Used
    <2>2. Contents = <<>> BY <2>1 DEF Contents
    <2> QED BY <2>2 DEF Init, Fifo!Init
  <1> QED BY <1>1, InitTransferInv, NextTransferInv, RingStep, PTL
          DEF Spec, ImplementsFifo, Fifo!Spec
=============================================================================
