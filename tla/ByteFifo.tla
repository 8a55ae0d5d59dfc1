------------------------------ MODULE ByteFifo ------------------------------
(***************************************************************************)
(* What one direction of a tunnelled channel promises about its buffered   *)
(* bytes: an unbounded first-in first-out queue.  Every byte is named by   *)
(* its position in the stream of bytes the buffer accepted (1, 2, 3, ...), *)
(* so the order and the identity of the bytes can be told apart.  Bytes    *)
(* leave the head of the queue only, either to the peer (Deliver) or into  *)
(* the drop counter (Discard).                                             *)
(***************************************************************************)
EXTENDS Integers, Sequences

CONSTANT MaxPut  \* the most bytes one Put appends

VARIABLES queue,      \* the bytes accepted and neither delivered nor dropped
          accepted,   \* how many bytes were accepted so far
          delivered,  \* the bytes handed to the peer, in order
          dropped     \* how many accepted bytes were discarded

fifoVars == <<queue, accepted, delivered, dropped>>

Init ==
  /\ queue = <<>>
  /\ accepted = 0
  /\ delivered = <<>>
  /\ dropped = 0

\* The next n bytes of the stream enter at the tail.
Put(n) ==
  /\ n \in 0..MaxPut
  /\ queue' = queue \o [i \in 1..n |-> accepted + i]
  /\ accepted' = accepted + n
  /\ UNCHANGED <<delivered, dropped>>

\* The first n bytes leave to the peer.
Deliver(n) ==
  /\ n \in 0..Len(queue)
  /\ delivered' = delivered \o SubSeq(queue, 1, n)
  /\ queue' = SubSeq(queue, n + 1, Len(queue))
  /\ UNCHANGED <<accepted, dropped>>

\* The first n bytes are given up and counted.
Discard(n) ==
  /\ n \in 0..Len(queue)
  /\ queue' = SubSeq(queue, n + 1, Len(queue))
  /\ dropped' = dropped + n
  /\ UNCHANGED <<accepted, delivered>>

Next ==
  \/ \E n \in 0..MaxPut : Put(n)
  \/ \E n \in 0..Len(queue) : Deliver(n) \/ Discard(n)

Spec == Init /\ [][Next]_fifoVars

-----------------------------------------------------------------------------
TypeOK ==
  /\ queue \in Seq(Nat)
  /\ accepted \in Nat
  /\ delivered \in Seq(Nat)
  /\ dropped \in Nat

\* The queue always holds exactly the newest Len(queue) accepted bytes.
QueueIsStreamSuffix ==
  /\ Len(queue) <= accepted
  /\ \A i \in 1..Len(queue) : queue[i] = accepted - Len(queue) + i

\* No byte is unaccounted for: each one is queued, delivered or dropped.
Conservation == accepted = Len(delivered) + Len(queue) + dropped

\* The peer sees the stream in order, without a duplicate, and never a byte
\* that is still (or again) in the queue.
InOrder ==
  /\ \A i \in 1..Len(delivered) : delivered[i] \in 1..(accepted - Len(queue))
  /\ \A i, j \in 1..Len(delivered) : i < j => delivered[i] < delivered[j]

FifoInv == TypeOK /\ QueueIsStreamSuffix /\ Conservation /\ InOrder
=============================================================================
