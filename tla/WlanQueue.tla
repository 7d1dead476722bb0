------------------------------- MODULE WlanQueue -------------------------------
(***************************************************************************)
(* The bounded queue of the WLAN message node (hdf_wlan_queue.c): a ring   *)
(* buffer with a count, a head and a tail index.  PushQueue and PopQueue   *)
(* run under one mutex from the lock to the return, so each is one step.   *)
(***************************************************************************)
EXTENDS Integers, Sequences

CONSTANTS Contexts,     \* the addresses pushed
          Null,         \* an empty slot, PopQueue's NULL
          MaxElements   \* maxElements

MaxQueueSize == 30000   \* MAX_QUEUE_SIZE

ASSUME WlanQueueAssumption ==
  Null \notin Contexts /\ MaxElements \in 1..MaxQueueSize   \* 0 never holds one

VARIABLES elements, elementCount, headIndex, tailIndex,
          wret          \* what the last call returned, and for which context

ring  == <<elements, elementCount, headIndex, tailIndex>>
wvars == <<ring, wret>>

Indices == 0..(MaxElements - 1)

\* The wrap of an index that was just advanced.
Wrap(i) == IF i >= MaxElements THEN 0 ELSE i

WInit ==
  /\ elements = [i \in Indices |-> Null]       \* OsalMemCalloc
  /\ elementCount = 0 /\ headIndex = 0 /\ tailIndex = 0
  /\ wret = [op |-> "none", context |-> Null, ok |-> TRUE]

\* Fault: the full check is off by one.
PushStoreOffByOne(c) ==
  /\ elementCount <= MaxElements
  /\ elements' = [elements EXCEPT ![tailIndex] = c]
  /\ tailIndex' = Wrap(tailIndex + 1)
  /\ elementCount' = elementCount + 1 /\ UNCHANGED headIndex

\* PushQueue with room.
PushStore(c) ==
  /\ elementCount < MaxElements
  /\ elements' = [elements EXCEPT ![tailIndex] = c]
  /\ tailIndex' = Wrap(tailIndex + 1)
  /\ elementCount' = elementCount + 1 /\ UNCHANGED headIndex

\* The result is that of OsalMutexUnlock: the HDF_FAILURE of a full queue is
\* overwritten.
PushQueue(c) ==
  /\ PushStore(c) \/ (elementCount >= MaxElements /\ UNCHANGED ring)
  /\ wret' = [op |-> "push", context |-> c, ok |-> TRUE]

PopQueue ==
  /\ IF elementCount > 0
     THEN /\ headIndex' = Wrap(headIndex + 1)
          /\ elementCount' = elementCount - 1
          /\ wret' = [op |-> "pop", context |-> elements[headIndex], ok |-> TRUE]
          /\ UNCHANGED <<elements, tailIndex>>
     ELSE UNCHANGED ring /\ wret' = [op |-> "pop", context |-> Null, ok |-> FALSE]

\* OsalMutexLock fails.
LockFails ==
  /\ UNCHANGED ring
  /\ \/ \E c \in Contexts : wret' = [op |-> "push", context |-> c, ok |-> FALSE]
     \/ wret' = [op |-> "pop", context |-> Null, ok |-> FALSE]

WNext == (\E c \in Contexts : PushQueue(c)) \/ PopQueue \/ LockFails

WSpec == WInit /\ [][WNext]_wvars

-----------------------------------------------------------------------------
(* The index of the i-th queued element, counted from the oldest.          *)
Slot(i) == IF headIndex + i - 1 < MaxElements THEN headIndex + i - 1
           ELSE headIndex + i - 1 - MaxElements

Contents == [i \in 1..elementCount |-> elements[Slot(i)]]

Fifo == INSTANCE BoundedFifo WITH Elements <- Contexts, Capacity <- MaxElements,
                                  queue <- Contents

(* PushQueue and PopQueue implement a bounded first-in first-out queue:    *)
(* no element is lost, duplicated or overtaken, also across the wrap of    *)
(* the indices.                                                            *)
IsFifo == Fifo!FifoSpec

(* hdf_wlan_queue.c:119-121, "queue full!" and ret = HDF_FAILURE: a push   *)
(* that finds the queue full does not report success.                      *)
FullPushFails ==
  [][wret'.op = "push" /\ wret'.ok => elementCount' = elementCount + 1]_wvars
==============================================================================
