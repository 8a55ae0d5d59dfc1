--------------------------- MODULE DataRingBuffer ---------------------------
(***************************************************************************)
(* One DataRingBuffer (ring_buffer.h) as the transport pump uses it: a     *)
(* FreeRTOS byte ring, with a PrependBuffer (prepend_buffer.h) in front of *)
(* it that takes back what a send() or libssh2_channel_write() did not     *)
(* accept.  The same class serves both directions of a channel.  A byte is *)
(* its position in the accepted stream.                                    *)
(***************************************************************************)
EXTENDS Integers, Sequences

CONSTANTS RingCap,     \* capacity of the FreeRTOS ring (tunnelRingBufferSize)
          PrependCap,  \* SSH_TUNNEL_PREPEND_CAPACITY
          BufSize,     \* TransportPump::bufSize_, the shared work buffer
          MaxBytes     \* bound: bytes accepted over the life of the buffer

\* SSHTunnel::init refuses a work buffer larger than the prepend capacity,
\* and raises the ring to at least 8 KB.
ASSUME SizesAssumption ==
  /\ RingCap \in Nat \ {0}
  /\ PrependCap \in Nat \ {0}
  /\ BufSize \in 1..PrependCap
  /\ MaxBytes \in Nat

VARIABLES handle,     \* TRUE iff construction got all three allocations
          prep,       \* PrependBuffer: storage buf, fill len_, read offset off_
          ring,       \* content of the FreeRTOS ring
          accepted,   \* history: bytes accepted by write() from the producer
          delivered,  \* history: bytes the peer took
          dropped,    \* ChannelSlot::totalBytesDropped, this ring's share
          fellBack    \* history: restoreUnsent had to append at the tail

vars == <<handle, prep, ring, accepted, delivered, dropped, fellBack>>

Minimum(a, b) == IF a <= b THEN a ELSE b

-----------------------------------------------------------------------------
(* PrependBuffer *)

EmptyPrepend == [buf |-> [i \in 1..PrependCap |-> 0], len |-> 0, off |-> 0]

pending(p) == IF p.len > p.off THEN p.len - p.off ELSE 0

\* The bytes a reader of the prepend buffer would get, in order.
PendingBytes(p) == [i \in 1..pending(p) |-> p.buf[p.off + i]]

\* PrependBuffer::read of n <= pending(p) bytes: what is left behind.
PrependAfterRead(p, n) ==
  IF p.off + n >= p.len THEN [p EXCEPT !.len = 0, !.off = 0]
                        ELSE [p EXCEPT !.off = p.off + n]

FitsInFront(p, data) == Len(data) <= PrependCap - pending(p)

\* Faulty variant: the bytes already read are counted as pending.
writeToFrontKeepsRead(p, data) ==
  [buf |-> [i \in 1..PrependCap |->
              IF i <= Len(data) THEN data[i]
              ELSE IF i <= Len(data) + pending(p)
                   THEN p.buf[p.off + i - Len(data)]
                   ELSE p.buf[i]],
   len |-> Len(data) + p.len,
   off |-> 0]

\* Faulty variant: the bytes are put back where they are thought to come from,
\* before the read offset.
writeToFrontMovesBack(p, data) ==
  LET off == p.off - Len(data) IN
  [p EXCEPT !.buf = [i \in 1..PrependCap |->
                       IF i \in (off + 1)..p.off THEN data[i - off] ELSE p.buf[i]],
            !.off = off]

\* PrependBuffer::writeToFront: memmove the pending bytes up, memcpy the new
\* ones before them.
writeToFront(p, data) ==
  [buf |-> [i \in 1..PrependCap |->
              IF i <= Len(data) THEN data[i]
              ELSE IF i <= Len(data) + pending(p)
                   THEN p.buf[p.off + i - Len(data)]
                   ELSE p.buf[i]],
   len |-> Len(data) + pending(p),
   off |-> 0]

(* The FreeRTOS byte ring *)

available(r) == RingCap - Len(r)

\* DataRingBuffer::write stores the prefix that fits.
Fitting(r, data) == SubSeq(data, 1, Minimum(Len(data), available(r)))

size(p, r) == pending(p) + Len(r)

\* How many bytes xRingbufferReceiveUpTo may return when at most n are asked
\* for: at least one if there is any, fewer than asked for where the stored
\* bytes wrap around the end of the storage.
ReceiveUpTo(r, n) ==
  LET most == Minimum(n, Len(r)) IN IF most = 0 THEN {0} ELSE 1..most

-----------------------------------------------------------------------------
(* restoreUnsent: to the front, else (whole) to the tail. *)
Restored(p, r, data) ==
  IF Len(data) = 0
  THEN [prep |-> p, ring |-> r, kept |-> 0, fallback |-> FALSE]
  ELSE IF FitsInFront(p, data)
  THEN [prep |-> writeToFront(p, data), ring |-> r,
        kept |-> Len(data), fallback |-> FALSE]
  ELSE [prep |-> p, ring |-> r \o Fitting(r, data),
        kept |-> Len(Fitting(r, data)), fallback |-> TRUE]

\* accountRestoreDrop: how many of the bytes to be restored were not.
RestoreDrop(expected, restored) ==
  IF restored >= expected THEN 0 ELSE expected - restored

-----------------------------------------------------------------------------
\* DataRingBuffer(size): any of the allocations may fail; all are then undone.
Init ==
  /\ handle \in BOOLEAN
  /\ prep = EmptyPrepend
  /\ ring = <<>>
  /\ accepted = 0
  /\ delivered = <<>>
  /\ dropped = 0
  /\ fellBack = FALSE

\* A producer read rc <= min(available(), bufSize_) bytes from the SSH channel
\* or the local socket and appends them.
Write(rc) ==
  /\ handle
  /\ rc \in 1..Minimum(available(ring), BufSize)
  /\ accepted + rc <= MaxBytes
  /\ ring' = ring \o Fitting(ring, [i \in 1..rc |-> accepted + i])
  /\ accepted' = accepted + rc
  /\ UNCHANGED <<handle, prep, delivered, dropped, fellBack>>

\* Faulty variant: the ring is read before the prepend buffer.
ReadBytesRingFirst(len, k) ==
  SubSeq(ring, 1, k)
    \o SubSeq(PendingBytes(prep), 1, Minimum(len, pending(prep)))

\* What DataRingBuffer::read(len) puts into the work buffer when the ring
\* yields k bytes after the prepend buffer yielded what it could.
ReadBytes(len, k) ==
  SubSeq(PendingBytes(prep), 1, Minimum(len, pending(prep)))
    \o SubSeq(ring, 1, k)

PrependAfter(len) == PrependAfterRead(prep, Minimum(len, pending(prep)))

RingAfter(k) == SubSeq(ring, k + 1, Len(ring))

CanRead(len, k) ==
  /\ handle
  /\ size(prep, ring) > 0
  /\ k \in ReceiveUpTo(ring, len - Minimum(len, pending(prep)))

\* One chunk of a drain loop: read() up to len bytes, of which the peer takes
\* the first `sent` (none on EAGAIN; none on an SSH write error, which also
\* restores), and restore the rest.
DrainChunk(len, k, sent) ==
  /\ CanRead(len, k)
  /\ sent \in 0..Len(ReadBytes(len, k))
  /\ LET got  == ReadBytes(len, k)
         rest == SubSeq(got, sent + 1, Len(got))
         res  == Restored(PrependAfter(len), RingAfter(k), rest)
     IN  /\ prep' = res.prep
         /\ ring' = res.ring
         /\ delivered' = delivered \o SubSeq(got, 1, sent)
         /\ dropped' = dropped + RestoreDrop(Len(rest), res.kept)
         /\ fellBack' = (fellBack \/ res.fallback)
  /\ UNCHANGED <<handle, accepted>>

\* A local send() failed for good: the chunk just read is dropped.
DrainError(len, k) ==
  /\ CanRead(len, k)
  /\ prep' = PrependAfter(len)
  /\ ring' = RingAfter(k)
  /\ dropped' = dropped + Len(ReadBytes(len, k))
  /\ UNCHANGED <<handle, accepted, delivered, fellBack>>

\* finalizeClose / abandonSlot: count what is left, then delete the buffer.
Destroy ==
  /\ handle
  /\ handle' = FALSE
  /\ dropped' = dropped + size(prep, ring)
  /\ prep' = [prep EXCEPT !.len = 0, !.off = 0]
  /\ ring' = <<>>
  /\ UNCHANGED <<accepted, delivered, fellBack>>

Next ==
  \/ \E rc \in 1..BufSize : Write(rc)
  \/ \E len \in 1..BufSize : \E k \in 0..len : \E sent \in 0..len :
        DrainChunk(len, k, sent)
  \/ \E len \in 1..BufSize : \E k \in 0..len : DrainError(len, k)
  \/ Destroy

Spec == Init /\ [][Next]_vars

-----------------------------------------------------------------------------
(* Types and the invariant the proofs rest on. *)

PrependType == [buf : [1..PrependCap -> Nat], len : Nat, off : Nat]

TypeOK ==
  /\ handle \in BOOLEAN
  /\ prep \in PrependType
  /\ ring \in Seq(Nat)
  /\ accepted \in Nat
  /\ delivered \in Seq(Nat)
  /\ dropped \in Nat
  /\ fellBack \in BOOLEAN

\* Every access of the prepend storage stays inside it, and the ring never
\* holds more than its capacity: the memmove/memcpy of writeToFront and the
\* subtraction `cap_ - pendingLen` cannot leave the buffer or wrap.
InBounds ==
  /\ prep.off <= prep.len
  /\ prep.len <= PrependCap
  /\ Len(ring) <= RingCap

\* restoreUnsent always finds room in the prepend buffer: read() empties it
\* before touching the ring, so what comes back is never more than bufSize_
\* bytes.  Its fallback, which re-appends old bytes behind newer ones, is
\* never taken.
NoFallback == ~fellBack

\* The restored and the still buffered bytes are, together, the FIFO queue.
Fifo == INSTANCE ByteFifo WITH queue  <- PendingBytes(prep) \o ring,
                              MaxPut <- BufSize

\* Both rings of a channel are FIFO queues that lose nothing on EAGAIN or on
\* a partial send: the buffer implements ByteFifo.
RefinesFifo == Fifo!Spec

\* The bytes a peer receives are in stream order without duplicates, and each
\* accepted byte is buffered, delivered or counted in totalBytesDropped.
StreamIntact == Fifo!InOrder /\ Fifo!Conservation
=============================================================================
