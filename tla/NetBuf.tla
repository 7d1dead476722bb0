-------------------------------- MODULE NetBuf --------------------------------
(***************************************************************************)
(* Network data buffers and buffer queues (netbuf_adapter.c).  A NetBuf is *)
(* a kernel sk_buff: offsets 0 <= data <= tail <= end into its memory and  *)
(* a data length len of its own.  The segments are header [0, data), data  *)
(* [data, tail) and tail [tail, end).  The sk_buff and sk_buff_head        *)
(* functions are the kernel's: they are modelled by what the adapter       *)
(* relies on.  The client gives any lengths; after an operation longer     *)
(* than its segment the buffer is only queued and freed.                   *)
(***************************************************************************)
EXTENDS Integers, Sequences, FiniteSets

CONSTANTS Bufs,      \* buffers
          BufQueues, \* queues
          Pad,       \* header space dev_alloc_skb reserves
          Sizes,     \* bound: sizes asked of NetBufAlloc
          Lens,      \* bound: operation lengths
          MaxEnd     \* bound: the largest buffer, and the largest len

ASSUME NetBufAssumption ==
  Pad \in Nat /\ MaxEnd \in Nat /\ Sizes \subseteq Nat /\ Lens \subseteq Nat

VARIABLES buf,       \* the offsets of each buffer; and, as history, what NetBufPush
                     \* has moved from its data to its header
          live,      \* allocated buffers
          over,      \* history: buffers an operation longer than its segment was done on
          queued     \* the queues, first buffer first

nbVars == <<buf, live, over, queued>>

Segments == {"HEAD", "DATA", "TAIL"}
Empty(size) == [data |-> Pad, tail |-> Pad, len |-> 0, end |-> Pad + size, pushed |-> 0]

NbInit ==
  /\ buf = [b \in Bufs |-> Empty(0)] /\ live = {} /\ over = {}
  /\ queued = [q \in BufQueues |-> <<>>]

InQueue(b) == \E q \in BufQueues : \E i \in 1..Len(queued[q]) : queued[q][i] = b
Held(b) == b \in live /\ ~InQueue(b)       \* the client's own

-----------------------------------------------------------------------------
(* One buffer.                                                             *)

\* NetBufGetRoom.
Room(s, id) ==
  CASE id = "HEAD" -> s.data
    [] id = "DATA" -> s.tail - s.data
    [] id = "TAIL" -> s.end - s.tail

\* The segment an operation takes its bytes from.
PushedFrom(id) == IF id = "DATA" THEN "TAIL" ELSE "DATA"
PoppedFrom(id) == id

\* NetBufPush returns NULL only here; the header and data segments are not
\* checked.
PushRefused(s, id, n) == id = "TAIL" /\ (n > s.len \/ n > s.tail)

Pushed(s, id, n) ==
  CASE id = "HEAD" -> [s EXCEPT !.data = @ + n, !.pushed = @ + n]
    [] id = "DATA" -> [s EXCEPT !.tail = @ + n, !.len = @ + n]
    [] id = "TAIL" -> [s EXCEPT !.tail = @ - n, !.len = @ - n]

\* NetBufPop compares the length with the address in nb->data, which is larger
\* than any length, so only the data segment is checked.
PopRefused(s, id, n) == id = "DATA" /\ n > s.len

Popped(s, id, n) ==
  CASE id = "HEAD" -> [s EXCEPT !.data = @ - n, !.len = @ + n]
    [] id = "DATA" -> [s EXCEPT !.data = @ + n, !.len = @ - n]
    [] id = "TAIL" -> [s EXCEPT !.tail = @ + n, !.len = @ + n]

NetBufAlloc(b, size) ==
  /\ b \notin live /\ live' = live \cup {b}
  /\ buf' = [buf EXCEPT ![b] = Empty(size)] /\ UNCHANGED <<over, queued>>

\* What is left of freed buffers: nothing.
Freed(bs) ==
  /\ live' = live \ bs /\ over' = over \ bs
  /\ buf' = [b \in Bufs |-> IF b \in bs THEN Empty(0) ELSE buf[b]]

NetBufFree(b) ==
  /\ Held(b) /\ Freed({b}) /\ UNCHANGED queued

NetBufPush(b, id, n) ==
  /\ Held(b) /\ b \notin over /\ ~PushRefused(buf[b], id, n)
  /\ buf' = [buf EXCEPT ![b] = Pushed(buf[b], id, n)]
  /\ over' = IF n > Room(buf[b], PushedFrom(id)) THEN over \cup {b} ELSE over
  /\ UNCHANGED <<live, queued>>

NetBufPop(b, id, n) ==
  /\ Held(b) /\ b \notin over /\ ~PopRefused(buf[b], id, n)
  /\ Popped(buf[b], id, n).len <= MaxEnd
  /\ buf' = [buf EXCEPT ![b] = Popped(buf[b], id, n)]
  /\ over' = IF n > Room(buf[b], PoppedFrom(id)) THEN over \cup {b} ELSE over
  /\ UNCHANGED <<live, queued>>

\* pskb_expand_head: the memory grows on both sides.
NetBufResizeRoom(b, head, tail) ==
  /\ Held(b) /\ b \notin over /\ buf[b].end + head + tail <= MaxEnd
  /\ buf' = [buf EXCEPT ![b] =
       [buf[b] EXCEPT !.data = @ + head, !.tail = @ + head, !.end = @ + head + tail]]
  /\ UNCHANGED <<live, over, queued>>

\* Fault: the tail room is not compared with what is copied.
NetBufConcatUnchecked(b, c) ==
  /\ Held(b) /\ Held(c) /\ b # c /\ {b, c} \cap over = {}
  /\ buf' = [buf EXCEPT ![b] = [buf[b] EXCEPT !.tail = @ + buf[c].len, !.len = @ + buf[c].len],
                         ![c] = Empty(0)]
  /\ live' = live \ {c} /\ UNCHANGED <<over, queued>>

\* The data of c is copied behind that of b and c is freed.
NetBufConcat(b, c) ==
  /\ Held(b) /\ Held(c) /\ b # c /\ {b, c} \cap over = {}
  /\ buf[c].len <= Room(buf[b], "TAIL") /\ buf[b].len + buf[c].len <= MaxEnd
  /\ buf' = [buf EXCEPT ![b] = [buf[b] EXCEPT !.tail = @ + buf[c].len, !.len = @ + buf[c].len],
                         ![c] = Empty(0)]
  /\ live' = live \ {c} /\ UNCHANGED <<over, queued>>

-----------------------------------------------------------------------------
(* Queues.                                                                 *)

NetBufQueueEnqueue(q, b) ==
  /\ Held(b) /\ queued' = [queued EXCEPT ![q] = Append(@, b)] /\ UNCHANGED <<buf, live, over>>

NetBufQueueEnqueueHead(q, b) ==
  /\ Held(b) /\ queued' = [queued EXCEPT ![q] = <<b>> \o @] /\ UNCHANGED <<buf, live, over>>

NetBufQueueDequeue(q) ==
  /\ queued[q] # <<>> /\ queued' = [queued EXCEPT ![q] = Tail(@)] /\ UNCHANGED <<buf, live, over>>

NetBufQueueDequeueTail(q) ==
  /\ queued[q] # <<>>
  /\ queued' = [queued EXCEPT ![q] = SubSeq(@, 1, Len(@) - 1)] /\ UNCHANGED <<buf, live, over>>

NetBufQueueClear(q) ==
  /\ Freed({queued[q][i] : i \in 1..Len(queued[q])})
  /\ queued' = [queued EXCEPT ![q] = <<>>]

\* Fault: the source queue is not emptied (splice without init).
NetBufQueueConcatKeeps(q, add) ==
  /\ q # add /\ queued' = [queued EXCEPT ![q] = queued[add] \o @] /\ UNCHANGED <<buf, live, over>>

\* skb_queue_splice_init puts the source's buffers before the target's.
NetBufQueueConcat(q, add) ==
  /\ q # add
  /\ queued' = [queued EXCEPT ![q] = queued[add] \o @, ![add] = <<>>]
  /\ UNCHANGED <<buf, live, over>>

NbNext ==
  \/ \E b \in Bufs : \/ \E size \in Sizes : NetBufAlloc(b, size)
                     \/ NetBufFree(b)
                     \/ \E id \in Segments, n \in Lens : NetBufPush(b, id, n) \/ NetBufPop(b, id, n)
                     \/ \E h, t \in Lens \cup {0} : NetBufResizeRoom(b, h, t)
                     \/ \E c \in Bufs : NetBufConcat(b, c)
                     \/ \E q \in BufQueues : NetBufQueueEnqueue(q, b) \/ NetBufQueueEnqueueHead(q, b)
  \/ \E q \in BufQueues : \/ NetBufQueueDequeue(q) \/ NetBufQueueDequeueTail(q)
                          \/ NetBufQueueClear(q)
                          \/ \E add \in BufQueues : NetBufQueueConcat(q, add)

NbSpec == NbInit /\ [][NbNext]_nbVars

-----------------------------------------------------------------------------
(* As long as no operation on a buffer was longer than its segment, the     *)
(* segments stay in order inside the buffer's memory, and the length        *)
(* NetBufGetDataLen reports is the size of the data segment and of what     *)
(* NetBufPush has moved from there to the header: that it leaves len alone  *)
(* (267) is against netbuf_adapter.c:246, by which "the length of the data  *)
(* segment is reduced".                                                     *)
SegmentsOK ==
  \A b \in live \ over : LET s == buf[b] IN
    /\ 0 <= s.data /\ s.data <= s.tail /\ s.tail <= s.end
    /\ s.pushed >= 0 /\ s.len = Room(s, "DATA") + s.pushed

(* A queued buffer is in one place of one queue and has not been freed: no *)
(* queue operation duplicates a buffer or leaves a freed one behind.       *)
QueuedOnce ==
  \A q, r \in BufQueues : \A i \in 1..Len(queued[q]), j \in 1..Len(queued[r]) :
    /\ queued[q][i] \in live
    /\ queued[q][i] = queued[r][j] => q = r /\ i = j

(* netbuf_adapter.c:254-255 and 303-304: NetBufPush and NetBufPop return    *)
(* NULL "if the operation length exceeds the space of a specified buffer    *)
(* segment", so the data never reaches past the end of the memory.          *)
TooLongRefused == \A b \in live : buf[b].tail <= buf[b].end
==============================================================================
