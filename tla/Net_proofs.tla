------------------------------ MODULE Net_proofs ------------------------------
(***************************************************************************)
(* Theorems about the network adapters: the WLAN message queue as a ring   *)
(* that implements BoundedFifo, the network buffers, the network device.   *)
(***************************************************************************)
EXTENDS WlanQueue, NetBuf, NetDevice, FiniteSetTheorems, SequenceTheorems, TLAPS

-----------------------------------------------------------------------------
(* WlanQueue.                                                              *)

(* The ring's counters stay in their ranges and agree with each other, and *)
(* every slot between head and tail holds a pushed context.                *)
RingOK ==
  /\ elements \in [Indices -> Contexts \cup {Null}]
  /\ elementCount \in 0..MaxElements
  /\ headIndex \in Indices /\ tailIndex \in Indices
  /\ tailIndex = (IF headIndex + elementCount < MaxElements
                  THEN headIndex + elementCount
                  ELSE headIndex + elementCount - MaxElements)
  /\ \A i \in 1..elementCount : elements[Slot(i)] \in Contexts

(* What the proofs need of maxElements: a ring of any positive size.       *)
LEMMA RingHasSlot == MaxElements \in Nat \ {0} /\ Null \notin Contexts
<1>1. \A m \in Nat : MaxElements \in 1..m => MaxElements \in Nat \ {0}
  OBVIOUS
<1>2. MaxQueueSize \in Nat
  BY DEF MaxQueueSize
<1> QED
  BY <1>1, <1>2, WlanQueueAssumption

(* A push with room keeps the ring well formed.                            *)
LEMMA PushKeepsRing ==
  ASSUME RingOK, NEW c \in Contexts, PushStore(c)
  PROVE  RingOK'
<1> USE RingHasSlot DEF Indices
<1>1. elementCount' = elementCount + 1 /\ headIndex' = headIndex
  BY DEF PushStore
<1>2. elements' \in [Indices -> Contexts \cup {Null}]
  BY DEF RingOK, PushStore
<1>3. tailIndex' \in Indices
  BY DEF RingOK, PushStore, Wrap
<1>4. tailIndex' = (IF headIndex + elementCount + 1 < MaxElements
                    THEN headIndex + elementCount + 1
                    ELSE headIndex + elementCount + 1 - MaxElements)
  BY DEF RingOK, PushStore, Wrap
<1>5. \A i \in 1..(elementCount + 1) : elements'[Slot(i)] \in Contexts
  <2>1. SUFFICES ASSUME NEW i \in 1..(elementCount + 1)
                 PROVE  elements'[Slot(i)] \in Contexts
    OBVIOUS
  <2>2. CASE i = elementCount + 1
    <3>1. Slot(i) = tailIndex
      BY <2>2 DEF RingOK, Slot
    <3>2. QED
      BY <3>1 DEF RingOK, PushStore
  <2>3. CASE i \in 1..elementCount
    <3>1. Slot(i) # tailIndex /\ Slot(i) \in Indices
      BY <2>3 DEF RingOK, Slot, PushStore
    <3>2. elements'[Slot(i)] = elements[Slot(i)]
      BY <3>1 DEF RingOK, PushStore
    <3>3. QED
      BY <2>3, <3>2 DEF RingOK
  <2>4. QED
    BY <2>2, <2>3 DEF RingOK
<1>6. \A i \in 1..(elementCount + 1) : Slot(i)' = Slot(i)
  BY <1>1 DEF Slot
<1>7. elementCount' \in 0..MaxElements
  BY DEF RingOK, PushStore
<1>8. headIndex' \in Indices
  BY <1>1 DEF RingOK
<1>9. \A i \in 1..elementCount' : elements'[Slot(i)'] \in Contexts
  BY <1>1, <1>5, <1>6
<1>10. tailIndex' = (IF headIndex' + elementCount' < MaxElements
                     THEN headIndex' + elementCount'
                     ELSE headIndex' + elementCount' - MaxElements)
  BY <1>1, <1>4 DEF RingOK
<1>11. QED
  BY ONLY <1>2, <1>3, <1>7, <1>8, <1>9, <1>10 DEF RingOK

(* Where a pop moves the slots: the i-th element becomes the one before.   *)
LEMMA PopShifts ==
  ASSUME RingOK, elementCount > 0, headIndex' = Wrap(headIndex + 1),
         elementCount' = elementCount - 1
  PROVE  /\ headIndex' \in Indices
         /\ \A i \in 1..(elementCount - 1) : Slot(i)' = Slot(i + 1)
         /\ Slot(1) = headIndex
BY RingHasSlot DEF Indices, RingOK, Slot, Wrap

(* A pop keeps the ring well formed.                                       *)
LEMMA PopKeepsRing ==
  ASSUME RingOK, PopQueue
  PROVE  RingOK'
<1> USE RingHasSlot DEF Indices
<1>1. CASE elementCount > 0
  <2>1. /\ headIndex' = Wrap(headIndex + 1) /\ elementCount' = elementCount - 1
        /\ UNCHANGED <<elements, tailIndex>>
    BY <1>1 DEF PopQueue
  <2>2. /\ headIndex' \in Indices
        /\ \A i \in 1..(elementCount - 1) : Slot(i)' = Slot(i + 1)
    BY <1>1, <2>1, PopShifts
  <2>3. \A i \in 1..elementCount' : elements'[Slot(i)'] \in Contexts
    BY <1>1, <2>1, <2>2 DEF RingOK
  <2>4. tailIndex' = (IF headIndex' + elementCount' < MaxElements
                      THEN headIndex' + elementCount'
                      ELSE headIndex' + elementCount' - MaxElements)
    BY <1>1, <2>1 DEF RingOK, Wrap
  <2>5. elementCount' \in 0..MaxElements
    BY <1>1, <2>1 DEF RingOK
  <2>6. QED
    BY <2>1, <2>2, <2>3, <2>4, <2>5 DEF RingOK
<1>2. CASE ~(elementCount > 0)
  BY <1>2 DEF PopQueue, ring, RingOK, Slot
<1>3. QED
  BY <1>1, <1>2

(* A step that leaves the ring alone keeps it well formed.                 *)
LEMMA SameRing ==
  ASSUME RingOK, UNCHANGED ring
  PROVE  RingOK' /\ Contents' = Contents
BY DEF RingOK, ring, Slot, Contents

(* The counters of the ring agree and every slot between head and tail     *)
(* holds a pushed context, after any sequence of pushes and pops.          *)
LEMMA RingAlwaysOK == WSpec => []RingOK
<1>1. WInit => RingOK
  BY RingHasSlot DEF WInit, RingOK, Indices
<1>2. RingOK /\ [WNext]_wvars => RingOK'
  <2> SUFFICES ASSUME RingOK, [WNext]_wvars PROVE RingOK'
    OBVIOUS
  <2>1. ASSUME NEW c \in Contexts, PushQueue(c) PROVE RingOK'
    BY <2>1, PushKeepsRing, SameRing DEF PushQueue
  <2>2. CASE PopQueue
    BY <2>2, PopKeepsRing
  <2>3. CASE LockFails \/ UNCHANGED wvars
    BY <2>3, SameRing DEF LockFails, wvars
  <2>4. QED
    BY <2>1, <2>2, <2>3 DEF WNext
<1>3. QED
  BY <1>1, <1>2, PTL DEF WSpec

-----------------------------------------------------------------------------
(* Refinement.                                                             *)

(* The contents are a sequence of contexts.                                *)
LEMMA ContentsType ==
  RingOK => Contents \in Seq(Contexts) /\ Len(Contents) = elementCount
<1> SUFFICES ASSUME RingOK
             PROVE  Contents \in Seq(Contexts) /\ Len(Contents) = elementCount
  OBVIOUS
<1>1. elementCount \in Nat
  BY DEF RingOK
<1>2. \A i \in 1..elementCount : elements[Slot(i)] \in Contexts
  BY DEF RingOK
<1>3. Contents \in [1..elementCount -> Contexts]
  BY <1>2 DEF Contents
<1>4. QED
  BY <1>1, <1>3, SeqDef, LenProperties DEF Contents

(* A push with room appends.                                               *)
LEMMA PushAppends ==
  ASSUME RingOK, NEW c \in Contexts, PushStore(c)
  PROVE  Contents' = Append(Contents, c) /\ Len(Contents) < MaxElements
<1> USE RingHasSlot DEF Indices
<1>1. RingOK'
  BY PushKeepsRing
<1>a. RingOK' => (Contents \in Seq(Contexts) /\ Len(Contents) = elementCount)'
  BY ContentsType, PTL
<1>2. /\ Contents \in Seq(Contexts) /\ Len(Contents) = elementCount
      /\ Contents' \in Seq(Contexts) /\ Len(Contents') = elementCount'
  <2>1. Contents \in Seq(Contexts) /\ Len(Contents) = elementCount
    BY ContentsType
  <2>2. Contents' \in Seq(Contexts) /\ Len(Contents') = elementCount'
    BY ONLY <1>1, <1>a
  <2>3. QED
    BY ONLY <2>1, <2>2
<1>3. elementCount' = elementCount + 1 /\ headIndex' = headIndex /\ elementCount \in Nat
  BY DEF PushStore, RingOK
<1>4. \A i \in 1..elementCount : Contents'[i] = Contents[i]
  <2>1. SUFFICES ASSUME NEW i \in 1..elementCount PROVE Contents'[i] = Contents[i]
    OBVIOUS
  <2>2. Slot(i)' = Slot(i) /\ Slot(i) # tailIndex /\ Slot(i) \in Indices
    BY <1>3 DEF Slot, RingOK, PushStore
  <2>3. elements'[Slot(i)] = elements[Slot(i)]
    BY <2>2 DEF PushStore, RingOK
  <2>4. Contents'[i] = elements'[Slot(i)'] /\ Contents[i] = elements[Slot(i)]
    BY <1>3 DEF Contents
  <2>5. QED
    BY <2>2, <2>3, <2>4
<1>5. Contents'[elementCount + 1] = c
  <2>1. \A i \in Nat : i = elementCount + 1 => Slot(i)' = tailIndex
    BY <1>3 DEF Slot, RingOK
  <2>2. \A i \in 1..(elementCount + 1) : Contents'[i] = elements'[Slot(i)']
    BY <1>3 DEF Contents
  <2>3. elements'[tailIndex] = c
    BY DEF PushStore, RingOK
  <2>4. PICK n \in Nat : n = elementCount + 1 /\ n \in 1..(elementCount + 1)
    BY <1>3
  <2>5. Slot(n)' = tailIndex /\ Contents'[n] = elements'[Slot(n)']
    BY <2>1, <2>2, <2>4
  <2>6. QED
    BY <2>3, <2>4, <2>5
<1> DEFINE a == Append(Contents, c)
<1>6. /\ a \in Seq(Contexts) /\ Len(a) = elementCount + 1
      /\ (\A i \in 1..elementCount : a[i] = Contents[i]) /\ a[elementCount + 1] = c
  BY <1>2, <1>3
<1>7. \A i \in 1..(elementCount + 1) : i \in 1..elementCount \/ i = elementCount + 1
  BY <1>3
<1> HIDE DEF a
<1>8. Contents' = a
  <2>1. \A i \in 1..(elementCount + 1) : Contents'[i] = a[i]
    BY <1>4, <1>5, <1>6, <1>7
  <2>2. QED
    BY <1>2, <1>3, <1>6, <2>1, SeqEqual
<1>9. QED
  BY <1>2, <1>8 DEF PushStore, a

(* A pop of a non-empty ring removes the first element.                    *)
LEMMA PopRemoves ==
  ASSUME RingOK, elementCount > 0, PopQueue
  PROVE  Contents # <<>> /\ Contents' = Tail(Contents)
<1>1. RingOK'
  BY PopKeepsRing
<1>a. RingOK' => (Contents \in Seq(Contexts) /\ Len(Contents) = elementCount)'
  BY ContentsType, PTL
<1>2. /\ Contents \in Seq(Contexts) /\ Len(Contents) = elementCount
      /\ Contents' \in Seq(Contexts) /\ Len(Contents') = elementCount'
  <2>1. Contents \in Seq(Contexts) /\ Len(Contents) = elementCount
    BY ContentsType
  <2>2. Contents' \in Seq(Contexts) /\ Len(Contents') = elementCount'
    BY ONLY <1>1, <1>a
  <2>3. QED
    BY ONLY <2>1, <2>2
<1>3. /\ headIndex' = Wrap(headIndex + 1) /\ elementCount' = elementCount - 1
      /\ elements' = elements /\ elementCount \in Nat
  BY DEF PopQueue, RingOK
<1>4. \A i \in 1..(elementCount - 1) : Contents'[i] = Contents[i + 1]
  <2>1. \A i \in 1..(elementCount - 1) : Slot(i)' = Slot(i + 1)
    BY <1>3, PopShifts
  <2>2. \A i \in 1..(elementCount - 1) : Contents'[i] = elements'[Slot(i)']
    BY <1>3 DEF Contents
  <2>3. \A i \in 1..(elementCount - 1) : Contents[i + 1] = elements[Slot(i + 1)]
    BY <1>3 DEF Contents
  <2>4. QED
    BY <1>3, <2>1, <2>2, <2>3
<1>5. Contents # <<>>
  BY <1>2
<1> DEFINE b == Tail(Contents)
<1>6. /\ b \in Seq(Contexts) /\ Len(b) = elementCount - 1
      /\ \A i \in 1..(elementCount - 1) : b[i] = Contents[i + 1]
  BY <1>2, <1>5
<1> HIDE DEF b
<1>7. Contents' = b
  BY <1>2, <1>3, <1>4, <1>6, SeqEqual
<1>8. QED
  BY <1>5, <1>7 DEF b

(* PushQueue and PopQueue, wraps, full and empty calls included, are the   *)
(* Put and Get of a bounded first-in first-out queue, or leave it alone.   *)
THEOREM RingImplementsFifo == WSpec => IsFifo
<1>1. WInit => Fifo!FifoInit
  BY DEF WInit, Fifo!FifoInit, Contents
<1>2. RingOK /\ [WNext]_wvars => [Fifo!Put \/ Fifo!Get]_Contents
  <2> SUFFICES ASSUME RingOK, [WNext]_wvars PROVE [Fifo!Put \/ Fifo!Get]_Contents
    OBVIOUS
  <2>1. ASSUME NEW c \in Contexts, PushQueue(c) PROVE [Fifo!Put \/ Fifo!Get]_Contents
    <3>1. CASE PushStore(c)
      BY <3>1, PushAppends DEF Fifo!Put
    <3>2. CASE UNCHANGED ring
      BY <3>2, SameRing
    <3>3. QED
      BY <2>1, <3>1, <3>2 DEF PushQueue
  <2>2. CASE PopQueue
    <3>1. CASE elementCount > 0
      BY <2>2, <3>1, PopRemoves DEF Fifo!Get
    <3>2. CASE ~(elementCount > 0)
      BY <2>2, <3>2, SameRing DEF PopQueue
    <3>3. QED
      BY <3>1, <3>2
  <2>3. CASE LockFails \/ UNCHANGED wvars
    BY <2>3, SameRing DEF LockFails, wvars
  <2>4. QED
    BY <2>1, <2>2, <2>3 DEF WNext
<1>3. QED
  BY <1>1, <1>2, RingAlwaysOK, PTL DEF WSpec, IsFifo, Fifo!FifoSpec

-----------------------------------------------------------------------------
(* NetDevice.                                                              *)

NdInv ==
  /\ xmit # {} \/ started => registered
  /\ registered => dev

(* Whatever the framework, the kernel and the chip driver do, a net_device *)
(* is not freed under a transmission: unregister_netdev waits for it, and  *)
(* only what is not registered is freed.                                   *)
THEOREM XmitKeepsDevice == NdSpec => []XmitHasDevice
<1>1. NdInit => NdInv
  BY DEF NdInit, NdInv
<1>2. NdInv /\ [NdNext]_ndVars => NdInv'
  <2> SUFFICES ASSUME NdInv, [NdNext]_ndVars PROVE NdInv'
    OBVIOUS
  <2> USE DEF NdInv, netDev
  <2>1. CASE RegisterNetDeviceImpl \/ UnRegisterNetDeviceImpl \/ NetDevInit \/ NetDevDeInit
             \/ NetDevAdd \/ NetDevDelete
    BY <2>1 DEF RegisterNetDeviceImpl, UnRegisterNetDeviceImpl, NetDevInit, NetDevDeInit,
       NetDevAdd, NetDevDelete
  <2>2. CASE \E on \in BOOLEAN : SetStatus(on)
    BY <2>2 DEF SetStatus
  <2>3. CASE \E p \in Packets : \/ XmitBegin(p) \/ XmitEnd(p) \/ DriverFrees(p)
                                \/ ReceiveBegin(p) \/ ReceiveEnd(p)
    BY <2>3 DEF XmitBegin, XmitEnd, DriverFrees, ReceiveBegin, ReceiveEnd
  <2>4. CASE UNCHANGED ndVars
    BY <2>4 DEF ndVars
  <2> QED
    BY <2>1, <2>2, <2>3, <2>4 DEF NdNext
<1>3. NdInv => XmitHasDevice
  BY DEF NdInv, XmitHasDevice
<1> QED
  BY <1>1, <1>2, <1>3, PTL DEF NdSpec

-----------------------------------------------------------------------------
(* NetBuf: the segments.                                                   *)

Offsets == [data : Int, tail : Int, len : Int, end : Int, pushed : Int]

NbTypeOK ==
  /\ buf \in [Bufs -> Offsets] /\ live \subseteq Bufs
  /\ queued \in [BufQueues -> Seq(Bufs)]

\* What SegmentsOK says of one buffer.
InOrder(s) ==
  /\ 0 <= s.data /\ s.data <= s.tail /\ s.tail <= s.end
  /\ s.pushed >= 0 /\ s.len = s.tail - s.data + s.pushed

(* dev_alloc_skb.                                                          *)
LEMMA EmptyInOrder ==
  ASSUME NEW size \in Nat PROVE Empty(size) \in Offsets /\ InOrder(Empty(size))
<1>1. PICK z \in Int : z = 0
  OBVIOUS
<1>2. PICK e \in Int : e = Pad + size /\ e >= Pad
  BY NetBufAssumption
<1>3. Pad \in Int /\ Pad >= 0
  BY NetBufAssumption
<1>4. Empty(size) = [data |-> Pad, tail |-> Pad, len |-> z, end |-> e, pushed |-> z]
  BY <1>1, <1>2 DEF Empty
<1>5. /\ Empty(size) \in Offsets /\ Empty(size).data = Pad /\ Empty(size).tail = Pad
      /\ Empty(size).len = z /\ Empty(size).end = e /\ Empty(size).pushed = z
  BY <1>1, <1>3, <1>4 DEF Offsets
<1> QED
  BY <1>1, <1>2, <1>3, <1>5 DEF InOrder

(* NetBufPush and NetBufPop keep offsets, and keep them in order as long as *)
(* the operation is not longer than the segment it takes its bytes from.   *)
LEMMA PushInOrder ==
  ASSUME NEW s \in Offsets, NEW id \in Segments, NEW n \in Nat
  PROVE  /\ Pushed(s, id, n) \in Offsets
         /\ InOrder(s) /\ n <= Room(s, PushedFrom(id)) => InOrder(Pushed(s, id, n))
<1>1. CASE id = "HEAD"
  <2>0. PICK x \in Int, y \in Int : x = s.data + n /\ y = s.pushed + n
    BY DEF Offsets
  <2>1. Pushed(s, id, n) = [s EXCEPT !.data = x, !.pushed = y]
    BY <1>1, <2>0 DEF Pushed
  <2>2. /\ Pushed(s, id, n) \in Offsets /\ Pushed(s, id, n).data = x
        /\ Pushed(s, id, n).tail = s.tail /\ Pushed(s, id, n).len = s.len
        /\ Pushed(s, id, n).end = s.end /\ Pushed(s, id, n).pushed = y
    BY <2>1 DEF Offsets
  <2>3. Room(s, PushedFrom(id)) = s.tail - s.data
    BY <1>1 DEF Room, PushedFrom
  <2> QED
    BY <2>0, <2>2, <2>3 DEF InOrder, Offsets
<1>2. CASE id = "DATA"
  <2>0. PICK x \in Int, y \in Int : x = s.tail + n /\ y = s.len + n
    BY DEF Offsets
  <2>1. Pushed(s, id, n) = [s EXCEPT !.tail = x, !.len = y]
    BY <1>2, <2>0 DEF Pushed
  <2>2. /\ Pushed(s, id, n) \in Offsets /\ Pushed(s, id, n).data = s.data
        /\ Pushed(s, id, n).tail = x /\ Pushed(s, id, n).len = y
        /\ Pushed(s, id, n).end = s.end /\ Pushed(s, id, n).pushed = s.pushed
    BY <2>1 DEF Offsets
  <2>3. Room(s, PushedFrom(id)) = s.end - s.tail
    BY <1>2 DEF Room, PushedFrom
  <2> QED
    BY <2>0, <2>2, <2>3 DEF InOrder, Offsets
<1>3. CASE id = "TAIL"
  <2>0. PICK x \in Int, y \in Int : x = s.tail - n /\ y = s.len - n
    BY DEF Offsets
  <2>1. Pushed(s, id, n) = [s EXCEPT !.tail = x, !.len = y]
    BY <1>3, <2>0 DEF Pushed
  <2>2. /\ Pushed(s, id, n) \in Offsets /\ Pushed(s, id, n).data = s.data
        /\ Pushed(s, id, n).tail = x /\ Pushed(s, id, n).len = y
        /\ Pushed(s, id, n).end = s.end /\ Pushed(s, id, n).pushed = s.pushed
    BY <2>1 DEF Offsets
  <2>3. Room(s, PushedFrom(id)) = s.tail - s.data
    BY <1>3 DEF Room, PushedFrom
  <2> QED
    BY <2>0, <2>2, <2>3 DEF InOrder, Offsets
<1> QED
  BY <1>1, <1>2, <1>3 DEF Segments

(* NetBufPop, likewise.                                                    *)
LEMMA PopInOrder ==
  ASSUME NEW s \in Offsets, NEW id \in Segments, NEW n \in Nat
  PROVE  /\ Popped(s, id, n) \in Offsets
         /\ InOrder(s) /\ n <= Room(s, PoppedFrom(id)) => InOrder(Popped(s, id, n))
<1>1. CASE id = "HEAD"
  <2>0. PICK x \in Int, y \in Int : x = s.data - n /\ y = s.len + n
    BY DEF Offsets
  <2>1. Popped(s, id, n) = [s EXCEPT !.data = x, !.len = y]
    BY <1>1, <2>0 DEF Popped
  <2>2. /\ Popped(s, id, n) \in Offsets /\ Popped(s, id, n).data = x
        /\ Popped(s, id, n).tail = s.tail /\ Popped(s, id, n).len = y
        /\ Popped(s, id, n).end = s.end /\ Popped(s, id, n).pushed = s.pushed
    BY <2>1 DEF Offsets
  <2>3. Room(s, PoppedFrom(id)) = s.data
    BY <1>1 DEF Room, PoppedFrom
  <2> QED
    BY <2>0, <2>2, <2>3 DEF InOrder, Offsets
<1>2. CASE id = "DATA"
  <2>0. PICK x \in Int, y \in Int : x = s.data + n /\ y = s.len - n
    BY DEF Offsets
  <2>1. Popped(s, id, n) = [s EXCEPT !.data = x, !.len = y]
    BY <1>2, <2>0 DEF Popped
  <2>2. /\ Popped(s, id, n) \in Offsets /\ Popped(s, id, n).data = x
        /\ Popped(s, id, n).tail = s.tail /\ Popped(s, id, n).len = y
        /\ Popped(s, id, n).end = s.end /\ Popped(s, id, n).pushed = s.pushed
    BY <2>1 DEF Offsets
  <2>3. Room(s, PoppedFrom(id)) = s.tail - s.data
    BY <1>2 DEF Room, PoppedFrom
  <2> QED
    BY <2>0, <2>2, <2>3 DEF InOrder, Offsets
<1>3. CASE id = "TAIL"
  <2>0. PICK x \in Int, y \in Int : x = s.tail + n /\ y = s.len + n
    BY DEF Offsets
  <2>1. Popped(s, id, n) = [s EXCEPT !.tail = x, !.len = y]
    BY <1>3, <2>0 DEF Popped
  <2>2. /\ Popped(s, id, n) \in Offsets /\ Popped(s, id, n).data = s.data
        /\ Popped(s, id, n).tail = x /\ Popped(s, id, n).len = y
        /\ Popped(s, id, n).end = s.end /\ Popped(s, id, n).pushed = s.pushed
    BY <2>1 DEF Offsets
  <2>3. Room(s, PoppedFrom(id)) = s.end - s.tail
    BY <1>3 DEF Room, PoppedFrom
  <2> QED
    BY <2>0, <2>2, <2>3 DEF InOrder, Offsets
<1> QED
  BY <1>1, <1>2, <1>3 DEF Segments

\* The buffers whose segments are in order.
Sound == live \ over

\* A step that leaves sound buffers as they are: it may free some.
Kept == Sound' \subseteq Sound /\ \A c \in Sound' : buf'[c] = buf[c]

\* A step that gives one buffer offsets in order and leaves the others.
Relaid(b, s) ==
  /\ s \in Offsets /\ InOrder(s) /\ buf'[b] = s
  /\ Sound' \subseteq Sound \cup {b} /\ \A c \in Sound' \ {b} : buf'[c] = buf[c]

(* The steps, as far as the segments go.                                   *)
LEMMA SegmentSteps ==
  ASSUME NbTypeOK, SegmentsOK, [NbNext]_nbVars
  PROVE  Kept \/ \E b \in Bufs : \E s \in Offsets : Relaid(b, s)
<1>0. Lens \subseteq Nat /\ Lens \cup {0} \subseteq Nat /\ Sizes \subseteq Nat
  BY NetBufAssumption
<1>1. \A b \in Sound : buf[b] \in Offsets /\ InOrder(buf[b])
  BY DEF NbTypeOK, SegmentsOK, InOrder, Room, Sound
<1>a. ASSUME NEW b \in Bufs, NEW s \in Offsets, InOrder(s), buf' = [buf EXCEPT ![b] = s],
             Sound' \subseteq Sound \cup {b}
      PROVE  Relaid(b, s)
  <2>1. buf'[b] = s /\ \A c \in Bufs \ {b} : buf'[c] = buf[c]
    BY <1>a DEF NbTypeOK
  <2>2. Sound' \subseteq Bufs
    BY <1>a DEF NbTypeOK, Sound
  <2> QED
    BY <1>a, <2>1, <2>2 DEF Relaid
<1>2. ASSUME NEW b \in Bufs, NEW size \in Sizes, NetBufAlloc(b, size)
      PROVE  \E s \in Offsets : Relaid(b, s)
  <2>1. Empty(size) \in Offsets /\ InOrder(Empty(size))
    BY <1>0, EmptyInOrder
  <2>2. buf' = [buf EXCEPT ![b] = Empty(size)] /\ Sound' \subseteq Sound \cup {b}
    BY <1>2 DEF NetBufAlloc, Sound
  <2> QED
    BY <1>a, <2>1, <2>2
<1>b. ASSUME NEW b \in Bufs, NEW s \in Offsets, b \in Sound, buf' = [buf EXCEPT ![b] = s],
             live' = live, over' = over \cup {b} \/ (over' = over /\ InOrder(s))
      PROVE  Kept \/ \E r \in Offsets : Relaid(b, r)
  <2>1. CASE over' = over \cup {b}
    <3>1. \A c \in Bufs \ {b} : buf'[c] = buf[c]
      BY <1>b DEF NbTypeOK
    <3>2. Sound' \subseteq Sound \ {b} /\ Sound' \subseteq Bufs
      BY <1>b, <2>1 DEF NbTypeOK, Sound
    <3> QED
      BY <3>1, <3>2 DEF Kept
  <2>2. CASE over' = over /\ InOrder(s)
    <3>1. Sound' \subseteq Sound \cup {b}
      BY <1>b, <2>2 DEF Sound
    <3> QED
      BY <1>a, <1>b, <2>2, <3>1
  <2> QED
    BY <1>b, <2>1, <2>2
<1>3. ASSUME NEW b \in Bufs, NEW id \in Segments, NEW n \in Lens, NetBufPush(b, id, n)
      PROVE  Kept \/ \E s \in Offsets : Relaid(b, s)
  <2>1. n \in Nat /\ b \in Sound /\ buf[b] \in Offsets /\ InOrder(buf[b])
    BY <1>0, <1>1, <1>3 DEF NetBufPush, Held, Sound
  <2>2. PICK s : s = Pushed(buf[b], id, n)
    OBVIOUS
  <2>3. s \in Offsets /\ (n <= Room(buf[b], PushedFrom(id)) => InOrder(s))
    BY <2>1, <2>2, PushInOrder
  <2>4. /\ buf' = [buf EXCEPT ![b] = s] /\ live' = live
        /\ over' = IF n > Room(buf[b], PushedFrom(id)) THEN over \cup {b} ELSE over
    BY <1>3, <2>2 DEF NetBufPush
  <2>5. PICK m \in Int : m = Room(buf[b], PushedFrom(id))
    BY <2>1 DEF Room, PushedFrom, Offsets, Segments
  <2>7. n > m \/ n <= m
    BY <2>1, <2>5
  <2>6. over' = over \cup {b} \/ (over' = over /\ InOrder(s))
    <3>0. /\ over' = IF n > m THEN over \cup {b} ELSE over
          /\ n <= m => InOrder(s)
      BY <2>3, <2>4, <2>5
    <3>1. CASE n > m
      BY <3>0, <3>1
    <3>2. CASE n <= m
      <4>1. ~(n > m)
        BY <2>1, <2>5, <3>2
      <4> QED
        BY <3>0, <3>2, <4>1
    <3> QED
      BY <2>7, <3>1, <3>2
  <2> QED
    BY <1>b, <2>1, <2>3, <2>4, <2>6
<1>4. ASSUME NEW b \in Bufs, NEW id \in Segments, NEW n \in Lens, NetBufPop(b, id, n)
      PROVE  Kept \/ \E s \in Offsets : Relaid(b, s)
  <2>1. n \in Nat /\ b \in Sound /\ buf[b] \in Offsets /\ InOrder(buf[b])
    BY <1>0, <1>1, <1>4 DEF NetBufPop, Held, Sound
  <2>2. PICK s : s = Popped(buf[b], id, n)
    OBVIOUS
  <2>3. s \in Offsets /\ (n <= Room(buf[b], PoppedFrom(id)) => InOrder(s))
    BY <2>1, <2>2, PopInOrder
  <2>4. /\ buf' = [buf EXCEPT ![b] = s] /\ live' = live
        /\ over' = IF n > Room(buf[b], PoppedFrom(id)) THEN over \cup {b} ELSE over
    BY <1>4, <2>2 DEF NetBufPop
  <2>5. PICK m \in Int : m = Room(buf[b], PoppedFrom(id))
    BY <2>1 DEF Room, PoppedFrom, Offsets, Segments
  <2>7. n > m \/ n <= m
    BY <2>1, <2>5
  <2>6. over' = over \cup {b} \/ (over' = over /\ InOrder(s))
    <3>0. /\ over' = IF n > m THEN over \cup {b} ELSE over
          /\ n <= m => InOrder(s)
      BY <2>3, <2>4, <2>5
    <3>1. CASE n > m
      BY <3>0, <3>1
    <3>2. CASE n <= m
      <4>1. ~(n > m)
        BY <2>1, <2>5, <3>2
      <4> QED
        BY <3>0, <3>2, <4>1
    <3> QED
      BY <2>7, <3>1, <3>2
  <2> QED
    BY <1>b, <2>1, <2>3, <2>4, <2>6
<1>5. ASSUME NEW b \in Bufs, NEW h \in Lens \cup {0}, NEW t \in Lens \cup {0},
             NetBufResizeRoom(b, h, t)
      PROVE  \E s \in Offsets : Relaid(b, s)
  <2>1. PICK r \in Offsets : r = buf[b] /\ InOrder(r)
    BY <1>1, <1>5 DEF NetBufResizeRoom, Held, Sound
  <2>2. h \in Nat /\ t \in Nat
    BY <1>0
  <2>a. PICK x \in Int, y \in Int, z \in Int :
          x = r.data + h /\ y = r.tail + h /\ z = r.end + h + t
    BY <2>2 DEF Offsets
  <2> DEFINE s == [r EXCEPT !.data = x, !.tail = y, !.end = z]
  <2>3. /\ s \in Offsets /\ s.data = x /\ s.tail = y /\ s.len = r.len /\ s.end = z
        /\ s.pushed = r.pushed
    BY DEF Offsets
  <2>4. buf' = [buf EXCEPT ![b] = s]
    BY <1>5, <2>1, <2>a DEF NetBufResizeRoom
  <2>6. Sound' = Sound
    BY <1>5 DEF NetBufResizeRoom, Sound
  <2> HIDE DEF s
  <2>5. InOrder(s)
    BY <2>1, <2>2, <2>a, <2>3 DEF InOrder, Offsets
  <2> QED
    BY <1>a, <2>3, <2>4, <2>5, <2>6
<1>6. ASSUME NEW b \in Bufs, NEW c \in Bufs, NetBufConcat(b, c)
      PROVE  \E s \in Offsets : Relaid(b, s)
  <2>1. /\ b \in Sound /\ c \in Sound /\ buf[c].len <= Room(buf[b], "TAIL") /\ b # c
    BY <1>6 DEF NetBufConcat, Held, Sound
  <2>2. PICK r \in Offsets : r = buf[b] /\ InOrder(r)
    BY <1>1, <2>1
  <2>3. PICK n \in Int : n = buf[c].len /\ n >= 0 /\ n <= r.end - r.tail
    BY <1>1, <2>1, <2>2 DEF InOrder, Offsets, Room
  <2>a. PICK x \in Int, y \in Int : x = r.tail + n /\ y = r.len + n
    BY DEF Offsets
  <2> DEFINE s == [r EXCEPT !.tail = x, !.len = y]
  <2>4. /\ s \in Offsets /\ s.data = r.data /\ s.tail = x /\ s.len = y /\ s.end = r.end
        /\ s.pushed = r.pushed
    BY DEF Offsets
  <2>5. buf' = [buf EXCEPT ![b] = s, ![c] = Empty(0)]
    BY <1>6, <2>2, <2>3, <2>a DEF NetBufConcat
  <2>6. Sound' = Sound \ {c} /\ Sound \subseteq Bufs
    BY <1>6 DEF NetBufConcat, Sound, NbTypeOK
  <2> HIDE DEF s
  <2>7. InOrder(s)
    BY <2>2, <2>3, <2>a, <2>4 DEF InOrder, Offsets
  <2>8. buf'[b] = s /\ \A d \in Bufs \ {b, c} : buf'[d] = buf[d]
    BY <2>1, <2>5 DEF NbTypeOK
  <2> QED
    BY <2>4, <2>6, <2>7, <2>8 DEF Relaid
<1>c. ASSUME NEW bs \in SUBSET Bufs, Freed(bs) PROVE Kept
  <2>1. Sound' \subseteq Sound \ bs /\ Sound \subseteq Bufs
    BY <1>c DEF Freed, Sound, NbTypeOK
  <2>2. \A d \in Bufs \ bs : buf'[d] = buf[d]
    BY <1>c DEF Freed
  <2> QED
    BY <2>1, <2>2 DEF Kept
<1>d. ASSUME NEW b \in Bufs, NetBufFree(b) PROVE Kept
  BY <1>c, <1>d DEF NetBufFree
<1>e. ASSUME NEW q \in BufQueues, NetBufQueueClear(q) PROVE Kept
  <2>1. {queued[q][i] : i \in 1..Len(queued[q])} \in SUBSET Bufs
    BY DEF NbTypeOK
  <2> QED
    BY <1>c, <1>e, <2>1 DEF NetBufQueueClear
<1>7. ASSUME UNCHANGED <<buf, live, over>> PROVE Kept
  BY <1>7 DEF Kept, Sound
<1>8. CASE \/ \E b \in Bufs : \E q \in BufQueues : NetBufQueueEnqueue(q, b) \/ NetBufQueueEnqueueHead(q, b)
           \/ \E q \in BufQueues : \/ NetBufQueueDequeue(q) \/ NetBufQueueDequeueTail(q)
                                   \/ \E add \in BufQueues : NetBufQueueConcat(q, add)
           \/ UNCHANGED nbVars
  BY <1>7, <1>8 DEF NetBufQueueEnqueue, NetBufQueueEnqueueHead, NetBufQueueDequeue,
     NetBufQueueDequeueTail, NetBufQueueConcat, nbVars
<1> QED
  BY <1>2, <1>3, <1>4, <1>5, <1>6, <1>d, <1>e, <1>8 DEF NbNext

(* The types, at the start and after every step.                           *)
LEMMA NbInitTypes == NbInit => NbTypeOK
<1>1. Empty(0) \in Offsets
  BY EmptyInOrder
<1>2. <<>> \in Seq(Bufs)
  OBVIOUS
<1> QED
  BY <1>1, <1>2 DEF NbInit, NbTypeOK

(* Every operation on buffers and queues keeps the types.                  *)
LEMMA NbTypes == ASSUME NbTypeOK, [NbNext]_nbVars PROVE NbTypeOK'
<1> USE DEF NbTypeOK
<1>1. ASSUME NEW b \in Bufs, NEW r \in Offsets, buf' = [buf EXCEPT ![b] = r]
      PROVE  buf' \in [Bufs -> Offsets]
  BY <1>1
<1>2. ASSUME NEW b \in Bufs, NEW size \in Sizes, NetBufAlloc(b, size) PROVE NbTypeOK'
  <2>1. Empty(size) \in Offsets
    BY NetBufAssumption, EmptyInOrder
  <2> QED
    BY <1>1, <1>2, <2>1 DEF NetBufAlloc
<1>3. ASSUME NEW b \in Bufs, NEW id \in Segments, NEW n \in Lens,
             NetBufPush(b, id, n) \/ NetBufPop(b, id, n)
      PROVE  NbTypeOK'
  <2>1. n \in Nat /\ buf[b] \in Offsets
    BY NetBufAssumption
  <2>2. Pushed(buf[b], id, n) \in Offsets /\ Popped(buf[b], id, n) \in Offsets
    BY <2>1, PushInOrder, PopInOrder
  <2> QED
    BY <1>1, <1>3, <2>2 DEF NetBufPush, NetBufPop
<1>4. ASSUME NEW b \in Bufs, NEW h \in Lens \cup {0}, NEW t \in Lens \cup {0},
             NetBufResizeRoom(b, h, t)
      PROVE  NbTypeOK'
  <2>1. PICK r \in Offsets : r = buf[b]
    OBVIOUS
  <2>2. PICK x \in Int, y \in Int, z \in Int :
          x = r.data + h /\ y = r.tail + h /\ z = r.end + h + t
    <3>1. h \in Nat /\ t \in Nat
      BY NetBufAssumption
    <3>2. r.data + h \in Int /\ r.tail + h \in Int /\ r.end + h + t \in Int
      BY <3>1 DEF Offsets
    <3> QED
      BY <3>2
  <2> DEFINE s == [r EXCEPT !.data = x, !.tail = y, !.end = z]
  <2>3. s \in Offsets
    BY DEF Offsets
  <2>4. buf' = [buf EXCEPT ![b] = s]
    BY <1>4, <2>1, <2>2 DEF NetBufResizeRoom
  <2> HIDE DEF s
  <2> QED
    <3>1. buf' \in [Bufs -> Offsets]
      BY <1>1, <2>3, <2>4
    <3>2. UNCHANGED <<live, queued>>
      BY <1>4, Zenon DEF NetBufResizeRoom
    <3> QED
      BY <3>1, <3>2
<1>5. ASSUME NEW b \in Bufs, NEW c \in Bufs, NetBufConcat(b, c) PROVE NbTypeOK'
  <2>1. PICK r \in Offsets, t \in Offsets : r = buf[b] /\ t = buf[c]
    OBVIOUS
  <2>2. PICK x \in Int, y \in Int : x = r.tail + t.len /\ y = r.len + t.len
    <3>1. r.tail + t.len \in Int /\ r.len + t.len \in Int
      BY DEF Offsets
    <3> QED
      BY <3>1
  <2> DEFINE s == [r EXCEPT !.tail = x, !.len = y]
  <2>3. s \in Offsets
    BY DEF Offsets
  <2>4. buf' = [buf EXCEPT ![b] = s, ![c] = Empty(0)]
    BY <1>5, <2>1, <2>2 DEF NetBufConcat
  <2> HIDE DEF s
  <2>5. Empty(0) \in Offsets
    BY EmptyInOrder
  <2> QED
    <3>1. buf' \in [Bufs -> Offsets]
      BY <2>3, <2>4, <2>5
    <3>2. live' \subseteq Bufs /\ queued' = queued
      BY <1>5 DEF NetBufConcat
    <3> QED
      BY <3>1, <3>2
<1>6. ASSUME NEW q \in BufQueues, NEW s \in Seq(Bufs), queued' = [queued EXCEPT ![q] = s]
      PROVE  queued' \in [BufQueues -> Seq(Bufs)]
  BY <1>6
<1>7. ASSUME NEW b \in Bufs, NEW q \in BufQueues,
             NetBufQueueEnqueue(q, b) \/ NetBufQueueEnqueueHead(q, b)
      PROVE  NbTypeOK'
  <2>1. Append(queued[q], b) \in Seq(Bufs) /\ <<b>> \o queued[q] \in Seq(Bufs)
    OBVIOUS
  <2> QED
    BY <1>6, <1>7, <2>1 DEF NetBufQueueEnqueue, NetBufQueueEnqueueHead
<1>8. ASSUME NEW q \in BufQueues, NetBufQueueDequeue(q) \/ NetBufQueueDequeueTail(q)
      PROVE  NbTypeOK'
  <2>1. queued[q] # <<>> /\ UNCHANGED <<buf, live>>
    BY <1>8 DEF NetBufQueueDequeue, NetBufQueueDequeueTail
  <2>2. Tail(queued[q]) \in Seq(Bufs) /\ SubSeq(queued[q], 1, Len(queued[q]) - 1) \in Seq(Bufs)
    BY <2>1
  <2> QED
    BY <1>6, <1>8, <2>1, <2>2 DEF NetBufQueueDequeue, NetBufQueueDequeueTail
<1>12. ASSUME NEW bs, Freed(bs) PROVE buf' \in [Bufs -> Offsets] /\ live' \subseteq Bufs
  <2>1. Empty(0) \in Offsets
    BY EmptyInOrder
  <2> QED
    BY <1>12, <2>1 DEF Freed
<1>9. ASSUME NEW q \in BufQueues, NetBufQueueClear(q) PROVE NbTypeOK'
  <2>1. <<>> \in Seq(Bufs)
    OBVIOUS
  <2>2. buf' \in [Bufs -> Offsets] /\ live' \subseteq Bufs
    BY <1>9, <1>12 DEF NetBufQueueClear
  <2> QED
    BY <1>6, <1>9, <2>1, <2>2 DEF NetBufQueueClear
<1>10. ASSUME NEW q \in BufQueues, NEW add \in BufQueues, NetBufQueueConcat(q, add)
       PROVE  NbTypeOK'
  <2>1. <<>> \in Seq(Bufs) /\ queued[add] \o queued[q] \in Seq(Bufs)
    OBVIOUS
  <2> QED
    BY <1>10, <2>1 DEF NetBufQueueConcat
<1>11. CASE (\E b \in Bufs : NetBufFree(b)) \/ UNCHANGED nbVars
  BY <1>11, <1>12 DEF NetBufFree, nbVars
<1> QED
  BY <1>2, <1>3, <1>4, <1>5, <1>7, <1>8, <1>9, <1>10, <1>11 DEF NbNext

(* Whatever is pushed, popped, resized and concatenated, a buffer on which *)
(* no operation was longer than its segment has header, data and tail in   *)
(* order within its memory, and the length that NetBufGetDataLen reports   *)
(* is that of the data and of what NetBufPush has moved to the header.      *)
THEOREM SegmentsInOrder == NbSpec => []SegmentsOK
<1>1. NbInit => NbTypeOK
  BY NbInitTypes
<1>2. NbInit => SegmentsOK
  BY DEF NbInit, SegmentsOK
<1>3. NbTypeOK /\ SegmentsOK /\ [NbNext]_nbVars => SegmentsOK'
  <2> SUFFICES ASSUME NbTypeOK, SegmentsOK, [NbNext]_nbVars PROVE SegmentsOK'
    OBVIOUS
  <2>1. \A b \in Sound : b \in Bufs /\ InOrder(buf[b])
    BY DEF NbTypeOK, SegmentsOK, InOrder, Room, Sound
  <2>2. \A b \in Sound' : InOrder(buf'[b])
    <3>1. CASE Kept
      BY <2>1, <3>1 DEF Kept
    <3>2. ASSUME NEW b \in Bufs, NEW s \in Offsets, Relaid(b, s)
          PROVE  \A c \in Sound' : InOrder(buf'[c])
      BY <2>1, <3>2 DEF Relaid
    <3> QED
      BY <3>1, <3>2, SegmentSteps
  <2> QED
    BY <2>2 DEF SegmentsOK, InOrder, Room, Sound
<1> QED
  BY <1>1, <1>2, <1>3, NbTypes, PTL DEF NbSpec

-----------------------------------------------------------------------------
(* NetBuf: the queues.                                                     *)

(* A step that changes one queue: its new buffers are distinct, allocated  *)
(* and in no other queue, and what the others hold stays allocated.        *)
LEMMA OneQueue ==
  ASSUME NbTypeOK, QueuedOnce, NEW q \in BufQueues, NEW s \in Seq(Bufs),
         queued' = [queued EXCEPT ![q] = s],
         \A i, j \in 1..Len(s) : s[i] = s[j] => i = j,
         \A i \in 1..Len(s) : s[i] \in live',
         \A r \in BufQueues \ {q} : \A j \in 1..Len(queued[r]) :
           queued[r][j] \in live' /\ \A i \in 1..Len(s) : s[i] # queued[r][j]
  PROVE  QueuedOnce'
<1>1. queued'[q] = s /\ \A r \in BufQueues \ {q} : queued'[r] = queued[r]
  BY DEF NbTypeOK
<1>2. SUFFICES ASSUME NEW r \in BufQueues, NEW t \in BufQueues,
                      NEW i \in 1..Len(queued'[r]), NEW j \in 1..Len(queued'[t])
               PROVE  /\ queued'[r][i] \in live'
                      /\ queued'[r][i] = queued'[t][j] => r = t /\ i = j
  BY DEF QueuedOnce
<1>3. CASE r = q /\ t = q
  BY <1>1, <1>3
<1>4. CASE r = q /\ t # q
  BY <1>1, <1>4
<1>5. CASE r # q /\ t = q
  BY <1>1, <1>5
<1>6. CASE r # q /\ t # q
  BY <1>1, <1>6 DEF QueuedOnce
<1> QED
  BY <1>3, <1>4, <1>5, <1>6

(* A buffer is in one queue once, and not freed, after any sequence of     *)
(* enqueues and dequeues at both ends, clears and concatenations.          *)
THEOREM QueuesDisjoint == NbSpec => []QueuedOnce
<1>1. NbInit => NbTypeOK
  BY NbInitTypes
<1>2. NbInit => QueuedOnce
  BY DEF NbInit, QueuedOnce
<1>3. ASSUME NbTypeOK, QueuedOnce, [NbNext]_nbVars PROVE QueuedOnce'
  <2> USE <1>3
  <2>0. \A q \in BufQueues : queued[q] \in Seq(Bufs) /\ Len(queued[q]) \in Nat
    BY DEF NbTypeOK
  <2>9. \A q, r \in BufQueues : \A i \in 1..Len(queued[q]), j \in 1..Len(queued[r]) :
          queued[q][i] = queued[r][j] => q = r /\ i = j
    BY DEF QueuedOnce
  <2>10. \A q \in BufQueues : \A i \in 1..Len(queued[q]) : queued[q][i] \in live
    BY DEF QueuedOnce
  <2>1. ASSUME NEW b \in Bufs, NEW q \in BufQueues,
               NetBufQueueEnqueue(q, b) \/ NetBufQueueEnqueueHead(q, b)
        PROVE  QueuedOnce'
    <3>1. /\ b \in live /\ UNCHANGED live
          /\ \A r \in BufQueues : \A j \in 1..Len(queued[r]) : queued[r][j] # b
      BY <2>1 DEF NetBufQueueEnqueue, NetBufQueueEnqueueHead, Held, InQueue
    <3>2. CASE NetBufQueueEnqueue(q, b)
      <4> DEFINE s == Append(queued[q], b)
      <4>1. /\ s \in Seq(Bufs) /\ Len(s) = Len(queued[q]) + 1 /\ s[Len(queued[q]) + 1] = b
            /\ \A i \in 1..Len(queued[q]) : s[i] = queued[q][i]
        BY <2>0
      <4>2. queued' = [queued EXCEPT ![q] = s]
        BY <3>2 DEF NetBufQueueEnqueue
      <4> HIDE DEF s
      <4>3. \A i \in 1..Len(s) : i \in 1..Len(queued[q]) \/ i = Len(queued[q]) + 1
        BY <2>0, <4>1
      <4>4. \A i, j \in 1..Len(s) : s[i] = s[j] => i = j
        BY <3>1, <4>1, <4>3 DEF QueuedOnce
      <4>5. \A i \in 1..Len(s) : s[i] \in live'
        BY <3>1, <4>1, <4>3 DEF QueuedOnce
      <4>6. \A r \in BufQueues \ {q} : \A j \in 1..Len(queued[r]) :
              queued[r][j] \in live' /\ \A i \in 1..Len(s) : s[i] # queued[r][j]
        BY <3>1, <4>1, <4>3 DEF QueuedOnce
      <4> QED
        BY <4>1, <4>2, <4>4, <4>5, <4>6, OneQueue
    <3>3. CASE NetBufQueueEnqueueHead(q, b)
      <4> DEFINE s == <<b>> \o queued[q]
      <4>1. /\ s \in Seq(Bufs) /\ Len(s) = Len(queued[q]) + 1 /\ s[1] = b
            /\ \A i \in 2..(Len(queued[q]) + 1) : s[i] = queued[q][i - 1]
        BY <2>0
      <4>2. queued' = [queued EXCEPT ![q] = s]
        BY <3>3 DEF NetBufQueueEnqueueHead
      <4> HIDE DEF s
      <4>3. \A i \in 1..Len(s) : i = 1 \/ (i \in 2..(Len(queued[q]) + 1) /\ i - 1 \in 1..Len(queued[q]))
        BY <2>0, <4>1
      <4>4. \A i, j \in 1..Len(s) : s[i] = s[j] => i = j
        <5>1. SUFFICES ASSUME NEW i \in 1..Len(s), NEW j \in 1..Len(s), s[i] = s[j] PROVE i = j
          OBVIOUS
        <5>2. CASE i # 1 /\ j # 1
          <6>1. queued[q][i - 1] = queued[q][j - 1]
            BY <4>1, <4>3, <5>1, <5>2
          <6>2. i - 1 = j - 1
            BY <4>3, <5>2, <6>1 DEF QueuedOnce
          <6> QED
            BY <6>2
        <5>3. CASE i = 1 \/ j = 1
          BY <3>1, <4>1, <4>3, <5>1, <5>3
        <5> QED
          BY <5>2, <5>3
      <4>5. \A i \in 1..Len(s) : s[i] \in live'
        BY <3>1, <4>1, <4>3 DEF QueuedOnce
      <4>6. \A r \in BufQueues \ {q} : \A j \in 1..Len(queued[r]) :
              queued[r][j] \in live' /\ \A i \in 1..Len(s) : s[i] # queued[r][j]
        <5>1. SUFFICES ASSUME NEW r \in BufQueues \ {q}, NEW j \in 1..Len(queued[r])
                       PROVE  /\ queued[r][j] \in live'
                              /\ \A i \in 1..Len(s) : s[i] # queued[r][j]
          OBVIOUS
        <5>2. queued[r][j] \in live' /\ queued[r][j] # b
          BY <3>1 DEF QueuedOnce
        <5>3. ASSUME NEW i \in 1..Len(s), i # 1 PROVE s[i] # queued[r][j]
          <6>1. PICK k \in 1..Len(queued[q]) : s[i] = queued[q][k]
            BY <4>1, <4>3, <5>3
          <6> QED
            BY <6>1 DEF QueuedOnce
        <5> QED
          BY <4>1, <5>2, <5>3
      <4> QED
        BY <4>1, <4>2, <4>4, <4>5, <4>6, OneQueue
    <3> QED
      BY <2>1, <3>2, <3>3
  <2>2. ASSUME NEW q \in BufQueues, NetBufQueueDequeue(q) PROVE QueuedOnce'
    <3> DEFINE s == Tail(queued[q])
    <3>1. queued[q] # <<>> /\ UNCHANGED live /\ queued' = [queued EXCEPT ![q] = s]
      BY <2>2 DEF NetBufQueueDequeue
    <3>2. /\ s \in Seq(Bufs) /\ Len(s) = Len(queued[q]) - 1
          /\ \A i \in 1..Len(s) : s[i] = queued[q][i + 1] /\ i + 1 \in 1..Len(queued[q])
      BY <2>0, <3>1
    <3> HIDE DEF s
    <3>3. \A i, j \in 1..Len(s) : s[i] = s[j] => i = j
      <4>1. SUFFICES ASSUME NEW i \in 1..Len(s), NEW j \in 1..Len(s), s[i] = s[j] PROVE i = j
        OBVIOUS
      <4>2. i + 1 = j + 1
        BY <3>2, <4>1 DEF QueuedOnce
      <4> QED
        BY <4>2
    <3>4. \A i \in 1..Len(s) : s[i] \in live'
      BY <3>1, <3>2 DEF QueuedOnce
    <3>5. \A r \in BufQueues \ {q} : \A j \in 1..Len(queued[r]) :
            queued[r][j] \in live' /\ \A i \in 1..Len(s) : s[i] # queued[r][j]
      BY <3>1, <3>2 DEF QueuedOnce
    <3> QED
      BY <3>1, <3>2, <3>3, <3>4, <3>5, OneQueue
  <2>3. ASSUME NEW q \in BufQueues, NetBufQueueDequeueTail(q) PROVE QueuedOnce'
    <3> DEFINE s == SubSeq(queued[q], 1, Len(queued[q]) - 1)
    <3>1. queued[q] # <<>> /\ UNCHANGED live /\ queued' = [queued EXCEPT ![q] = s]
      BY <2>3 DEF NetBufQueueDequeueTail
    <3>2. /\ s \in Seq(Bufs) /\ Len(s) = Len(queued[q]) - 1
          /\ \A i \in 1..Len(s) : s[i] = queued[q][i] /\ i \in 1..Len(queued[q])
      BY <2>0, <3>1
    <3> HIDE DEF s
    <3>3. \A i, j \in 1..Len(s) : s[i] = s[j] => i = j
      BY <3>2 DEF QueuedOnce
    <3>4. \A i \in 1..Len(s) : s[i] \in live'
      BY <3>1, <3>2 DEF QueuedOnce
    <3>5. \A r \in BufQueues \ {q} : \A j \in 1..Len(queued[r]) :
            queued[r][j] \in live' /\ \A i \in 1..Len(s) : s[i] # queued[r][j]
      BY <3>1, <3>2 DEF QueuedOnce
    <3> QED
      BY <3>1, <3>2, <3>3, <3>4, <3>5, OneQueue
  <2>4. ASSUME NEW q \in BufQueues, NetBufQueueClear(q) PROVE QueuedOnce'
    <3>0. <<>> \in Seq(Bufs) /\ Len(<<>>) = 0
      OBVIOUS
    <3>1. PICK s \in Seq(Bufs) : s = <<>> /\ queued' = [queued EXCEPT ![q] = s]
      BY <2>4, <3>0 DEF NetBufQueueClear
    <3>2. \A i \in 1..Len(s) : FALSE
      BY <3>1
    <3>3. \A r \in BufQueues \ {q} : \A j \in 1..Len(queued[r]) : queued[r][j] \in live'
      BY <2>4 DEF NetBufQueueClear, Freed, QueuedOnce
    <3> QED
      BY <3>1, <3>2, <3>3, OneQueue
  <2>5. ASSUME NEW q \in BufQueues, NEW add \in BufQueues, NetBufQueueConcat(q, add)
        PROVE  QueuedOnce'
    <3> DEFINE s == queued[add] \o queued[q]
    <3>0. PICK n \in Nat : n = Len(queued[add])
      BY <2>0
    <3>1. q # add /\ UNCHANGED live /\ queued' = [queued EXCEPT ![q] = s, ![add] = <<>>]
      BY <2>5 DEF NetBufQueueConcat
    <3>2. /\ s \in Seq(Bufs) /\ Len(s) = n + Len(queued[q])
          /\ \A i \in 1..(n + Len(queued[q])) :
               s[i] = IF i <= n THEN queued[add][i] ELSE queued[q][i - n]
      BY <2>0, <3>0, ConcatProperties
    <3>3. \A i \in 1..Len(s) :
            \/ i \in 1..n /\ s[i] = queued[add][i]
            \/ i \notin 1..n /\ i - n \in 1..Len(queued[q]) /\ s[i] = queued[q][i - n]
      <4> HIDE DEF s
      <4> QED
        BY <2>0, <3>2
    <3>4. /\ queued'[q] = s /\ queued'[add] = <<>>
          /\ \A r \in BufQueues \ {q, add} : queued'[r] = queued[r]
      BY <3>1 DEF NbTypeOK
    <3> HIDE DEF s
    <3>5. \A i, j \in 1..Len(s) : s[i] = s[j] => i = j
      <4>1. SUFFICES ASSUME NEW i \in 1..Len(s), NEW j \in 1..Len(s), s[i] = s[j] PROVE i = j
        OBVIOUS
      <4>2. CASE i \in 1..n /\ j \in 1..n
        BY <2>9, <3>0, <3>3, <4>1, <4>2
      <4>3. CASE i \in 1..n /\ j \notin 1..n
        <5>1. PICK k \in 1..Len(queued[q]) : s[j] = queued[q][k]
          BY <3>3, <4>1, <4>3
        <5>2. s[i] = queued[add][i] /\ i \in 1..Len(queued[add])
          BY <3>0, <3>3, <4>1, <4>3
        <5> QED
          BY <2>9, <3>1, <4>1, <5>1, <5>2
      <4>4. CASE i \notin 1..n /\ j \in 1..n
        <5>1. PICK k \in 1..Len(queued[q]) : s[i] = queued[q][k]
          BY <3>3, <4>1, <4>4
        <5>2. s[j] = queued[add][j] /\ j \in 1..Len(queued[add])
          BY <3>0, <3>3, <4>1, <4>4
        <5> QED
          BY <2>9, <3>1, <4>1, <5>1, <5>2
      <4>5. CASE i \notin 1..n /\ j \notin 1..n
        <5>1. i - n = j - n
          <6>1. PICK k \in 1..Len(queued[q]) : k = i - n /\ s[i] = queued[q][k]
            BY <3>3, <4>5
          <6>2. PICK m \in 1..Len(queued[q]) : m = j - n /\ s[j] = queued[q][m]
            BY <3>3, <4>5
          <6>3. queued[q][k] = queued[q][m]
            BY <4>1, <6>1, <6>2
          <6>4. k = m
            BY <2>9, <6>3
          <6> QED
            BY <6>1, <6>2, <6>4
        <5> QED
          BY <2>0, <5>1
      <4> QED
        BY <4>2, <4>3, <4>4, <4>5
    <3>a. \A i \in 1..Len(s) : \E t \in {q, add} : \E k \in 1..Len(queued[t]) :
            s[i] = queued[t][k]
      BY <3>0, <3>3
    <3>6. \A i \in 1..Len(s) : s[i] \in live'
      BY <2>10, <3>1, <3>a
    <3>7. \A r \in BufQueues \ {q, add} : \A j \in 1..Len(queued[r]) :
            queued[r][j] \in live' /\ \A i \in 1..Len(s) : s[i] # queued[r][j]
      <4>1. SUFFICES ASSUME NEW r \in BufQueues \ {q, add}, NEW j \in 1..Len(queued[r])
                     PROVE  queued[r][j] \in live' /\ \A i \in 1..Len(s) : s[i] # queued[r][j]
        OBVIOUS
      <4>2. queued[r][j] \in live'
        BY <2>10, <3>1
      <4>3. ASSUME NEW i \in 1..Len(s), s[i] = queued[r][j] PROVE FALSE
        <5>1. PICK t \in {q, add} : \E k \in 1..Len(queued[t]) : s[i] = queued[t][k]
          BY <3>a
        <5>2. PICK k \in 1..Len(queued[t]) : s[i] = queued[t][k]
          BY <5>1
        <5>3. queued[t][k] = queued[r][j] /\ t \in BufQueues
          BY <4>3, <5>2
        <5>4. t = r
          BY <2>9, <5>3
        <5> QED
          BY <5>4
      <4> QED
        BY <4>2, <4>3
    <3>8. \A r \in BufQueues : \A j \in 1..Len(queued'[r]) :
            \/ r = q
            \/ r \in BufQueues \ {q, add} /\ queued'[r] = queued[r]
      BY <3>4
    <3>9. SUFFICES ASSUME NEW r \in BufQueues, NEW t \in BufQueues,
                          NEW i \in 1..Len(queued'[r]), NEW j \in 1..Len(queued'[t])
                   PROVE  /\ queued'[r][i] \in live'
                          /\ queued'[r][i] = queued'[t][j] => r = t /\ i = j
      BY DEF QueuedOnce
    <3>10. CASE r = q /\ t = q
      BY <3>4, <3>5, <3>6, <3>10
    <3>11. CASE r = q /\ t # q
      BY <3>4, <3>6, <3>7, <3>8, <3>11
    <3>12. CASE r # q /\ t = q
      BY <3>4, <3>7, <3>8, <3>12
    <3>13. CASE r # q /\ t # q
      BY <3>7, <3>8, <3>13 DEF QueuedOnce
    <3> QED
      BY <3>10, <3>11, <3>12, <3>13
  <2>6. ASSUME UNCHANGED queued,
               \A q \in BufQueues : \A i \in 1..Len(queued[q]) : queued[q][i] \in live'
        PROVE  QueuedOnce'
    BY <2>6 DEF QueuedOnce
  <2>7. ASSUME NEW b \in Bufs, NetBufFree(b) \/ \E c \in Bufs : NetBufConcat(c, b)
        PROVE  QueuedOnce'
    <3>1. UNCHANGED queued /\ live' = live \ {b} /\ ~InQueue(b)
      <4>1. CASE NetBufFree(b)
        BY <4>1, Zenon DEF NetBufFree, Freed, Held
      <4>2. ASSUME NEW c \in Bufs, NetBufConcat(c, b)
            PROVE  UNCHANGED queued /\ live' = live \ {b} /\ ~InQueue(b)
        BY <4>2, Zenon DEF NetBufConcat, Held
      <4> QED
        BY <2>7, <4>1, <4>2, Zenon
    <3>2. \A q \in BufQueues : \A i \in 1..Len(queued[q]) : queued[q][i] \in live'
      BY <2>10, <3>1 DEF InQueue
    <3> QED
      BY <2>6, <3>1, <3>2
  <2>8. CASE \/ UNCHANGED nbVars
             \/ \E b \in Bufs : \/ \E size \in Sizes : NetBufAlloc(b, size)
                                \/ \E id \in Segments, n \in Lens : NetBufPush(b, id, n) \/ NetBufPop(b, id, n)
                                \/ \E h, t \in Lens \cup {0} : NetBufResizeRoom(b, h, t)
    <3>1. UNCHANGED queued
      BY <2>8, Zenon DEF nbVars, NetBufAlloc, NetBufPush, NetBufPop, NetBufResizeRoom
    <3>2. live \subseteq live'
      <4>1. CASE UNCHANGED nbVars
        BY <4>1 DEF nbVars
      <4>2. ASSUME NEW b \in Bufs, NEW size \in Sizes, NetBufAlloc(b, size)
            PROVE  live \subseteq live'
        BY <4>2, Zenon DEF NetBufAlloc
      <4>3. ASSUME NEW b \in Bufs, NEW id \in Segments, NEW n \in Lens,
                   NetBufPush(b, id, n) \/ NetBufPop(b, id, n)
            PROVE  live \subseteq live'
        BY <4>3, Zenon DEF NetBufPush, NetBufPop
      <4>4. ASSUME NEW b \in Bufs, NEW h \in Lens \cup {0}, NEW t \in Lens \cup {0},
                   NetBufResizeRoom(b, h, t)
            PROVE  live \subseteq live'
        BY <4>4, Zenon DEF NetBufResizeRoom
      <4> QED
        BY <2>8, <4>1, <4>2, <4>3, <4>4, Zenon
    <3> QED
      BY <2>6, <2>10, <3>1, <3>2
  <2> QED
    BY <2>1, <2>2, <2>3, <2>4, <2>5, <2>7, <2>8 DEF NbNext
<1> QED
  BY <1>1, <1>2, <1>3, NbTypes, PTL DEF NbSpec
==============================================================================
