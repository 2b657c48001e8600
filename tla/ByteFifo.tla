------------------------------ MODULE ByteFifo ------------------------------
(***************************************************************************)
(* What one producer and one consumer may assume of a bounded byte queue.   *)
(* A transfer is offered, an accepted prefix of it is appended in one step, *)
(* and a read removes a prefix of the queue in one step.  How many bytes a  *)
(* call moves is left open up to the capacity and the queue's length.       *)
(***************************************************************************)
EXTENDS Naturals, Sequences

CONSTANTS Byte,        \* the values a byte can have
          Capacity,    \* the most bytes the queue holds
          MaxRequest   \* the longest transfer a caller asks for

VARIABLES queue,   \* the bytes accepted and not yet delivered
          offer,   \* the producer's pending input, <<>> between calls
          got      \* what the consumer's last call delivered, <<>> during a call

vars == <<queue, offer, got>>

Transfers == UNION {[1..n -> Byte] : n \in 1..MaxRequest}

Init == queue = <<>> /\ offer = <<>> /\ got = <<>>

Offer == /\ offer = <<>>
         /\ offer' \in Transfers
         /\ UNCHANGED <<queue, got>>

Put == /\ offer # <<>>
       /\ \E n \in 0..Len(offer) :
            /\ Len(queue) + n <= Capacity
            /\ queue' = queue \o SubSeq(offer, 1, n)
       /\ offer' = <<>>
       /\ UNCHANGED got

Ask == got' = <<>> /\ UNCHANGED <<queue, offer>>

Get == \E n \in 0..Len(queue) :
         /\ got' = SubSeq(queue, 1, n)
         /\ queue' = SubSeq(queue, n + 1, Len(queue))
         /\ UNCHANGED offer

Next == Offer \/ Put \/ Ask \/ Get

Spec == Init /\ [][Next]_vars
=============================================================================
