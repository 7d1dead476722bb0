-------------------------------- MODULE FfsEp0 --------------------------------
(***************************************************************************)
(* Endpoint zero of a USB function instance (struct ffs_data in            *)
(* f_generic.c): daemon threads reading, writing and using ioctls on the   *)
(* ep0 file, against the gadget side that raises events, delivers control  *)
(* requests and completes ep0 transfers.                                   *)
(*                                                                         *)
(* One step is one stretch of code between two points where another actor  *)
(* can run: a section under ev.waitq.lock, a copy from user space, a queue *)
(* or a wait.  irq is the event source inside __ffs_event_add, holding     *)
(* that lock; thread sections that take the lock wait until it is idle,    *)
(* the unlocked accesses to setup_state do not.                            *)
(*                                                                         *)
(* History variables: raised (what the gadget has raised last), taken (what *)
(* reads have taken from the queue last), courier (the read that has that  *)
(* news in hand, Nobody once it has returned, with the news or with        *)
(* -EFAULT), told (the request the daemon has read last) and ended (the    *)
(* request on whose behalf setup_state was last set to NO_SETUP).          *)
(***************************************************************************)
EXTENDS FfsEvents, FiniteSets

CONSTANTS Threads,    \* daemon threads with the ep0 file open
          Nobody,     \* the free mutex
          MaxSetup,   \* bound: control requests the host sends
          MaxAio,     \* bound: asynchronous ep0 requests in flight
          FifoSlots,  \* capacity of reqEventFifo (MAX_REQUEST in the code)
          Raisable,   \* bound: the event types the gadget raises in this instance
          Smp,        \* a completion handler runs beside the thread it wakes
          SyncIorw,   \* the daemon uses FUNCTIONFS_ENDPOINT_READ/WRITE, aio = 0
          Signals     \* a sleeping thread may be interrupted

ASSUME Ep0Assumption ==
  /\ Nobody \notin Threads
  /\ MaxSetup \in Nat /\ MaxAio \in Nat /\ FifoSlots \in Nat
  /\ Raisable \subseteq EventTypes
  /\ {Smp, SyncIorw, Signals} \subseteq BOOLEAN

VARIABLES state,      \* ffs->state
          setup,      \* ffs->setup_state
          types,      \* ffs->ev.types[0 .. ev.count-1]
          request,    \* ffs->ev.setup, its identity and direction
          mutex,      \* the holder of ffs->mutex
          done,       \* ep0req_completion.done
          ep0req,     \* the shared ep0 request: queued or not, and for whom
          tail,       \* requests whose handler is past complete() only
          aio,        \* requests answered by asynchronous I/O in flight
          fifo,       \* reqEventFifo
          irq,        \* an event source inside __ffs_event_add
          bound,      \* "no", "ready" (ffs_ready done) or "yes" (function bound)
          th,         \* the daemon threads
          taken, courier, told, raised, ended

shared  == <<state, bound>>
history == <<taken, courier, told, raised>>
vars == <<state, setup, types, request, mutex, done, ep0req, tail, aio, fifo,
          irq, bound, th, taken, courier, told, raised, ended>>

Ids     == 0..MaxSetup
States  == {"READ_DESCRIPTORS", "READ_STRINGS", "ACTIVE", "CLOSING"}
Setups  == {"NO_SETUP", "PENDING", "CANCELLED"}
Pcs     == {"idle", "lock", "config", "ready", "check", "waitev", "stall",
            "copy", "queue", "wait", "copyout", "iowait", "iodrain"}
ThreadRec == [pc : Pcs, op : {"read", "write"}, seen : Ids]
Quiet   == [type |-> "none", pending |-> FALSE]
NoReq   == [st |-> "free", for |-> 0]

\* The kinds of news.
News == {"power", "life", "setup"}
Kind(e) == CASE e \in PowerTypes     -> "power"
             [] e \in LifecycleTypes -> "life"
             [] e = "SETUP"          -> "setup"

\* The last element of q whose type is in S, or dflt.
LastOf(q, S, dflt) ==
  IF \E i \in 1..Len(q) : q[i] \in S
  THEN q[CHOOSE i \in 1..Len(q) :
           q[i] \in S /\ \A j \in (i + 1)..Len(q) : q[j] \notin S]
  ELSE dflt

Init ==
  /\ state = "READ_DESCRIPTORS" /\ setup = "NO_SETUP" /\ types = <<>>
  /\ request = [id |-> 0, dir |-> "IN"] /\ mutex = Nobody /\ done = 0
  /\ ep0req = NoReq /\ tail = {} /\ aio = {} /\ fifo = <<>> /\ irq = Quiet
  /\ bound = "no" /\ ended = 0
  /\ th = [t \in Threads |-> [pc |-> "idle", op |-> "read", seen |-> 0]]
  /\ taken  = [power |-> "none", life |-> "none", setup |-> 0]
  /\ courier = [k \in News |-> Nobody] /\ told = 0
  /\ raised = [power |-> "none", life |-> "none"]

-----------------------------------------------------------------------------
(* Thread helpers.                                                         *)

LockFree   == irq.type = "none"
Goto(t, p) == th' = [th EXCEPT ![t].pc = p]
GotoFor(t, p, id) == th' = [th EXCEPT ![t] = [pc |-> p, op |-> th[t].op, seen |-> id]]
At(t, p)   == th[t].pc = p
Op(t, o)   == th[t].op = o
Return(t)  == Goto(t, "idle") /\ mutex' = Nobody

\* ffs_setup_state_clear_cancelled: cmpxchg CANCELLED -> NO_SETUP.
ClearCancelled ==
  setup' = IF setup = "CANCELLED" THEN "NO_SETUP" ELSE setup

\* ffs_ep0_read and ffs_ep0_write, the check before the mutex.
Enter(t, op) ==
  /\ At(t, "idle")
  /\ ClearCancelled
  /\ th' = IF setup = "CANCELLED" THEN th     \* -EIDRM
           ELSE [th EXCEPT ![t] = [pc |-> "lock", op |-> op, seen |-> 0]]
  /\ UNCHANGED <<shared, types, request, mutex, done, ep0req, tail, aio, fifo,
                 irq, history, ended>>

\* Fault: the mutex is not taken.
LockNoMutex(t) ==
  /\ At(t, "lock") /\ mutex' = t
  /\ \/ state = "ACTIVE" /\ Goto(t, "check")
     \/ state \in {"READ_DESCRIPTORS", "READ_STRINGS"} /\ Op(t, "write") /\ Goto(t, "config")
  /\ UNCHANGED <<shared, setup, types, request, done, ep0req, tail, aio, fifo,
                 irq, history, ended>>

\* ffs_mutex_lock and the check of ffs->state behind it.
Lock(t) ==
  /\ At(t, "lock") /\ mutex = Nobody
  /\ \/ state = "ACTIVE" /\ mutex' = t /\ Goto(t, "check")
     \/ state \in {"READ_DESCRIPTORS", "READ_STRINGS"} /\ Op(t, "write")
        /\ mutex' = t /\ Goto(t, "config")
     \/ /\ state = "CLOSING" \/ (state # "ACTIVE" /\ Op(t, "read"))
        /\ Return(t)                           \* -EBADFD
  /\ UNCHANGED <<shared, setup, types, request, done, ep0req, tail, aio, fifo,
                 irq, history, ended>>

\* O_NONBLOCK: mutex_trylock fails.
TryLockFails(t) ==
  /\ At(t, "lock") /\ mutex # Nobody
  /\ Goto(t, "idle")
  /\ UNCHANGED <<shared, setup, types, request, mutex, done, ep0req, tail, aio,
                 fifo, irq, history, ended>>

\* A write of the descriptors, then of the strings; a malformed block is
\* refused and leaves the state alone, a failure to create the endpoint files
\* closes the instance.
Config(t) ==
  /\ At(t, "config")
  /\ \/ state' = state /\ Return(t)
     \/ state = "READ_DESCRIPTORS" /\ state' = "READ_STRINGS" /\ Return(t)
     \/ state = "READ_STRINGS" /\ state' = "CLOSING" /\ Return(t)
     \/ state = "READ_STRINGS" /\ state' = "ACTIVE"
        /\ Goto(t, "ready") /\ mutex' = Nobody
  /\ UNCHANGED <<bound, setup, types, request, done, ep0req, tail, aio, fifo,
                 irq, history, ended>>

\* ffs_ready, called after the mutex is dropped.  When it succeeds the gadget
\* may bind the function.
Ready(t) ==
  /\ At(t, "ready") /\ Goto(t, "idle")
  /\ \/ state' = "CLOSING" /\ UNCHANGED bound
     \/ bound' = "ready" /\ UNCHANGED state
  /\ UNCHANGED <<setup, types, request, mutex, done, ep0req, tail, aio, fifo,
                 irq, history, ended>>

\* ffs_ep0_write, FFS_ACTIVE, up to the copy from user space.
CheckWrite(t) ==
  /\ At(t, "check") /\ Op(t, "write") /\ LockFree
  /\ ClearCancelled
  /\ IF setup # "PENDING" THEN Return(t)       \* -EIDRM, -ESRCH
     ELSE /\ GotoFor(t, IF request.dir = "IN" THEN "copy" ELSE "stall", request.id)
          /\ UNCHANGED mutex
  /\ UNCHANGED <<shared, types, request, done, ep0req, tail, aio, fifo, irq,
                 history, ended>>

\* ffs_ep0_read, FFS_ACTIVE, the switch on the setup state.
CheckRead(t) ==
  /\ At(t, "check") /\ Op(t, "read") /\ LockFree
  /\ ClearCancelled
  /\ \/ setup = "CANCELLED" /\ Return(t)       \* -EIDRM
     \/ setup = "NO_SETUP" /\ Goto(t, "waitev") /\ UNCHANGED mutex
     \/ setup = "NO_SETUP" /\ Return(t)        \* -EINVAL
     \/ /\ setup = "PENDING" /\ UNCHANGED mutex
        /\ GotoFor(t, IF request.dir = "IN" THEN "stall" ELSE "copy", request.id)
  /\ UNCHANGED <<shared, types, request, done, ep0req, tail, aio, fifo, irq,
                 history, ended>>

\* __ffs_ep0_read_events up to its copy_to_user: n events leave the queue, a
\* request among them is pending from here on, lock and mutex are released.
ReadEvents(t, n) ==
  /\ At(t, "waitev") /\ LockFree /\ n \in 1..Len(types)
  /\ LET got   == SubSeq(types, 1, n)
         asked == \E i \in 1..n : types[i] = "SETUP" IN
     /\ types' = DropFirst(types, n)
     /\ setup' = IF asked THEN "PENDING" ELSE setup
     /\ taken' = [power |-> LastOf(got, PowerTypes, taken.power),
                  life  |-> LastOf(got, LifecycleTypes, taken.life),
                  setup |-> IF asked THEN request.id ELSE taken.setup]
     /\ courier' = [k \in News |-> IF \E i \in 1..n : Kind(types[i]) = k
                                   THEN t ELSE courier[k]]
     /\ GotoFor(t, "copyout", IF asked THEN request.id ELSE 0)
  /\ mutex' = Nobody
  /\ UNCHANGED <<shared, request, done, ep0req, tail, aio, fifo, irq, told,
                 raised, ended>>

\* ... and the copy: the daemon has what this read took.
CopyOut(t) ==
  /\ At(t, "copyout") /\ GotoFor(t, "idle", 0)
  /\ told' = IF th[t].seen # 0 THEN th[t].seen ELSE told
  /\ courier' = [k \in News |-> IF courier[k] = t THEN Nobody ELSE courier[k]]
  /\ UNCHANGED <<shared, setup, types, request, mutex, done, ep0req, tail, aio,
                 fifo, irq, taken, raised, ended>>

\* -EFAULT: the events have left the queue and a request among them is pending.
CopyOutFails(t) ==
  /\ At(t, "copyout") /\ GotoFor(t, "idle", 0)
  /\ courier' = [k \in News |-> IF courier[k] = t THEN Nobody ELSE courier[k]]
  /\ UNCHANGED <<shared, setup, types, request, mutex, done, ep0req, tail, aio,
                 fifo, irq, taken, told, raised, ended>>

\* No event: -EAGAIN (O_NONBLOCK), or -EINTR for a sleeper.
ReadNothing(t) ==
  /\ At(t, "waitev") /\ LockFree /\ types = <<>>
  /\ Return(t)
  /\ UNCHANGED <<shared, setup, types, request, done, ep0req, tail, aio, fifo,
                 irq, history, ended>>

\* __ffs_ep0_stall; can_stall is set when the instance is made and never reset.
Stall(t) ==
  /\ At(t, "stall")
  /\ setup' = "NO_SETUP" /\ ended' = th[t].seen
  /\ Return(t)
  /\ UNCHANGED <<shared, types, request, done, ep0req, tail, aio, fifo, irq,
                 history>>

\* ffs_prepare_buffer or kmalloc fails.
CopyFails(t) ==
  /\ At(t, "copy") /\ Return(t)
  /\ UNCHANGED <<shared, setup, types, request, done, ep0req, tail, aio, fifo,
                 irq, history, ended>>

\* The second check, under the lock: only CANCELLED is looked for.
Recheck(t) ==
  /\ At(t, "copy") /\ LockFree
  /\ ClearCancelled
  /\ IF setup = "CANCELLED" THEN Return(t) ELSE Goto(t, "queue") /\ UNCHANGED mutex
  /\ UNCHANGED <<shared, types, request, done, ep0req, tail, aio, fifo, irq,
                 history, ended>>

-----------------------------------------------------------------------------
(* The shared ep0 request and its completion.                              *)

\* reinit_completion and usb_ep_queue: the UDC refuses a request that is
\* already queued, and may refuse one that is not.
QueueEp0(t, id, next, fail) ==
  /\ done' = 0
  /\ \/ /\ ep0req.st = "free"
        /\ ep0req' = [st |-> "queued", for |-> id]
        /\ GotoFor(t, next, id) /\ UNCHANGED mutex
     \/ UNCHANGED ep0req /\ fail

\* __ffs_ep0_queue_wait, after ev.waitq.lock is dropped.
Queue(t) ==
  /\ At(t, "queue") /\ QueueEp0(t, th[t].seen, "wait", Return(t))
  /\ UNCHANGED <<shared, setup, types, request, tail, aio, fifo, irq, history,
                 ended>>

\* ... the thread is woken; setup_state is set before the mutex is dropped.
Answered(t) ==
  /\ At(t, "wait") /\ done > 0
  /\ done' = done - 1 /\ setup' = "NO_SETUP" /\ ended' = th[t].seen
  /\ Return(t)
  /\ UNCHANGED <<shared, types, request, ep0req, tail, aio, fifo, irq, history>>

\* The handler inside usb_ep_dequeue: it runs to its end in this thread.
Dequeue ==
  IF ep0req.st = "queued"
  THEN /\ ep0req' = NoReq /\ done' = done + 1
       /\ setup' = "NO_SETUP" /\ ended' = ep0req.for
  ELSE UNCHANGED <<ep0req, done, setup, ended>>

\* Fault: the request of the interrupted thread stays queued.
InterruptedNoDequeue(t) ==
  /\ Signals /\ At(t, "wait") /\ done = 0 /\ Return(t)
  /\ UNCHANGED <<shared, setup, types, request, done, ep0req, tail, aio, fifo,
                 irq, history, ended>>

\* ... a signal: the request is dequeued and -EINTR returned.
Interrupted(t) ==
  /\ Signals /\ At(t, "wait") /\ done = 0
  /\ Dequeue /\ Return(t)
  /\ UNCHANGED <<shared, types, request, tail, aio, fifo, irq, history>>

\* Fault: the handler does not call complete().
CompleteSilent ==
  /\ ep0req.st = "queued" /\ ep0req' = NoReq
  /\ setup' = "NO_SETUP" /\ ended' = ep0req.for
  /\ UNCHANGED <<shared, types, request, mutex, done, tail, aio, fifo, irq, th,
                 history>>

\* ffs_ep0_complete, run by the UDC.  On a uniprocessor it ends before the
\* woken thread runs; otherwise its store to setup_state comes later.
Complete ==
  /\ ep0req.st = "queued" /\ ep0req.for \notin tail
  /\ ep0req' = NoReq /\ done' = done + 1
  /\ IF Smp THEN tail' = tail \cup {ep0req.for} /\ UNCHANGED <<setup, ended>>
     ELSE setup' = "NO_SETUP" /\ ended' = ep0req.for /\ UNCHANGED tail
  /\ UNCHANGED <<shared, types, request, mutex, aio, fifo, irq, th, history>>

CompleteTail(id) ==
  /\ id \in tail /\ tail' = tail \ {id}
  /\ setup' = "NO_SETUP" /\ ended' = id
  /\ UNCHANGED <<shared, types, request, mutex, done, ep0req, aio, fifo, irq,
                 th, history>>

\* ffs_ep0_iorw with aio = 0: the same request, without the mutex.
Iorw(t) ==
  /\ SyncIorw /\ At(t, "idle") /\ state = "ACTIVE" /\ bound = "yes"
  /\ QueueEp0(t, told, "iowait", UNCHANGED <<th, mutex>>)
  /\ UNCHANGED <<shared, setup, types, request, tail, aio, fifo, irq, history,
                 ended>>

\* Fault: the wait for the completion is left out.
IorwDoneNoWait(t) ==
  /\ th[t].pc \in {"iowait", "iodrain"}
  /\ done' = done - 1 /\ Goto(t, "idle")
  /\ UNCHANGED <<shared, setup, types, request, mutex, ep0req, tail, aio, fifo,
                 irq, history, ended>>

\* ... and its end.
IorwDone(t) ==
  /\ th[t].pc \in {"iowait", "iodrain"} /\ done > 0
  /\ done' = done - 1 /\ Goto(t, "idle")
  /\ UNCHANGED <<shared, setup, types, request, mutex, ep0req, tail, aio, fifo,
                 irq, history, ended>>

\* A timeout or a signal: dequeue, then wait for the completion.
IorwGiveUp(t) ==
  /\ At(t, "iowait") /\ done = 0
  /\ Dequeue /\ Goto(t, "iodrain")
  /\ UNCHANGED <<shared, types, request, mutex, tail, aio, fifo, irq, history>>

-----------------------------------------------------------------------------
(* Asynchronous ep0 I/O.                                                   *)

\* ffs_ep0_iorw with aio = 1: a request of its own, answering what was read.
AioSubmit(t) ==
  /\ At(t, "idle") /\ state = "ACTIVE" /\ bound = "yes"
  /\ told \notin aio \cup {0} /\ Cardinality(aio) < MaxAio
  /\ \A i \in 1..Len(fifo) : fifo[i] # told
  /\ aio' = aio \cup {told}
  /\ UNCHANGED <<shared, setup, types, request, mutex, done, ep0req, tail,
                 fifo, irq, th, history, ended>>

\* ffs_ep0_async_io_complete, by the UDC or inside RW_CANCEL's dequeue.
\* kfifo_in drops what does not fit.
AioComplete(id) ==
  /\ id \in aio /\ aio' = aio \ {id}
  /\ fifo' = IF Len(fifo) < FifoSlots THEN Append(fifo, id) ELSE fifo
  /\ UNCHANGED <<shared, setup, types, request, mutex, done, ep0req, tail, irq,
                 th, history, ended>>

\* FUNCTIONFS_ENDPOINT_GET_EP0_EVENT: an answer is reported to the daemon.
GetEp0Event(t) ==
  /\ At(t, "idle") /\ fifo # <<>>
  /\ fifo' = Tail(fifo) /\ setup' = "NO_SETUP" /\ ended' = Head(fifo)
  /\ UNCHANGED <<shared, types, request, mutex, done, ep0req, tail, aio, irq,
                 th, history>>

-----------------------------------------------------------------------------
(* The gadget side.                                                        *)

\* Bound of this module: the function is unbound only while no thread is about
\* to use, or uses, ffs->gadget or ep0req.
Ep0Idle ==
  /\ \A t \in Threads : th[t].pc \in {"idle", "lock", "check", "waitev", "copyout"}
  /\ ep0req = NoReq /\ tail = {} /\ aio = {}

\* Take ev.waitq.lock and look at setup_state: ffs_event_add, from bind,
\* unbind, set_alt, suspend and resume.
Raise(type) ==
  /\ LockFree /\ type \in Raisable \ {"SETUP"}
  /\ bound = IF type = "BIND" THEN "ready" ELSE "yes"
  /\ type \in {"BIND", "ENABLE", "DISABLE"} => state = "ACTIVE"
  /\ type = "UNBIND" => Ep0Idle
  /\ bound' = CASE type = "BIND" -> "yes" [] type = "UNBIND" -> "ready" [] OTHER -> bound
  /\ irq' = [type |-> type, pending |-> setup = "PENDING"]
  /\ UNCHANGED <<state, setup, types, request, mutex, done, ep0req, tail, aio,
                 fifo, th, history, ended>>

\* ffs_func_setup: the request is stored first, under the same lock.
RaiseSetup(dir) ==
  /\ bound = "yes" /\ LockFree /\ state = "ACTIVE" /\ "SETUP" \in Raisable
  /\ request.id < MaxSetup
  /\ request' = [id |-> request.id + 1, dir |-> dir]
  /\ irq' = [type |-> "SETUP", pending |-> setup = "PENDING"]
  /\ UNCHANGED <<shared, setup, types, mutex, done, ep0req, tail, aio, fifo, th,
                 history, ended>>

\* Fault: a pending request is not cancelled.
EventAddedNoCancel ==
  /\ ~LockFree /\ irq' = Quiet
  /\ types' = EventAdd(types, irq.type)
  /\ raised' = [power |-> IF irq.type \in PowerTypes THEN irq.type ELSE raised.power,
                life  |-> IF irq.type \in LifecycleTypes THEN irq.type ELSE raised.life]
  /\ UNCHANGED <<shared, setup, request, mutex, done, ep0req, tail, aio, fifo, th,
                 taken, courier, told, ended>>

\* The rest of __ffs_event_add: cancel, purge, append, unlock.
EventAdded ==
  /\ ~LockFree /\ irq' = Quiet
  /\ setup' = IF irq.pending THEN "CANCELLED" ELSE setup
  /\ types' = EventAdd(types, irq.type)
  /\ raised' = [power |-> IF irq.type \in PowerTypes THEN irq.type ELSE raised.power,
                life  |-> IF irq.type \in LifecycleTypes THEN irq.type ELSE raised.life]
  /\ UNCHANGED <<shared, request, mutex, done, ep0req, tail, aio, fifo, th, taken,
                 courier, told, ended>>

-----------------------------------------------------------------------------
ThreadStep(t) ==
  \/ Lock(t) \/ Config(t) \/ Ready(t) \/ CheckWrite(t) \/ CheckRead(t)
  \/ (\E n \in 1..QueueSize : ReadEvents(t, n))
  \/ CopyOut(t) \/ Stall(t) \/ Recheck(t) \/ Queue(t) \/ Answered(t) \/ IorwDone(t)

Call(t) ==
  \/ (\E op \in {"read", "write"} : Enter(t, op))
  \/ Iorw(t) \/ AioSubmit(t) \/ GetEp0Event(t)

Refused(t) ==
  \/ TryLockFails(t) \/ ReadNothing(t) \/ CopyOutFails(t) \/ CopyFails(t)
  \/ Interrupted(t) \/ IorwGiveUp(t)

Udc == Complete \/ (\E id \in Ids : CompleteTail(id)) \/ (\E id \in Ids : AioComplete(id))

Gadget ==
  \/ (\E type \in EventTypes : Raise(type))
  \/ (\E dir \in {"IN", "OUT"} : RaiseSetup(dir))
  \/ EventAdded

Next == (\E t \in Threads : ThreadStep(t) \/ Call(t) \/ Refused(t)) \/ Udc \/ Gadget

Spec == Init /\ [][Next]_vars

(* The daemon's threads run and mutex waiters are served in turn; the UDC  *)
(* gives every queued request back (answered, or on a disconnect); an      *)
(* event source does not stop while it holds ev.waitq.lock.  Nothing is    *)
(* assumed of the daemon's calls, of the host or of signals.               *)
Fairness ==
  /\ \A t \in Threads : SF_vars(Lock(t)) /\ WF_vars(ThreadStep(t))
  /\ WF_vars(Complete) /\ \A id \in Ids : WF_vars(CompleteTail(id))
  /\ WF_vars(EventAdded)

FairSpec == Spec /\ Fairness

-----------------------------------------------------------------------------
(* Properties.                                                             *)

(* The types of the variables; the fields of ffs_data hold what their C    *)
(* enumerations and structures allow.                                      *)
TypeOK ==
  /\ state \in States /\ setup \in Setups /\ types \in Seq(EventTypes)
  /\ request \in [id : Ids, dir : {"IN", "OUT"}]
  /\ mutex \in Threads \cup {Nobody} /\ done \in Nat
  /\ ep0req \in [st : {"free", "queued"}, for : Ids]
  /\ tail \subseteq Ids /\ aio \subseteq Ids /\ fifo \in Seq(Ids)
  /\ irq \in [type : EventTypes \cup {"none"}, pending : BOOLEAN]
  /\ bound \in {"no", "ready", "yes"}
  /\ th \in [Threads -> ThreadRec]
  /\ taken \in [power : PowerTypes \cup {"none"},
                life : LifecycleTypes \cup {"none"}, setup : Ids]
  /\ courier \in [News -> Threads \cup {Nobody}] /\ told \in Ids
  /\ raised \in [power : PowerTypes \cup {"none"}, life : LifecycleTypes \cup {"none"}]
  /\ ended \in Ids

(* ev.types never holds more than its four elements, although              *)
(* __ffs_event_add appends without looking at the bound and                *)
(* __ffs_ep0_read_events copies into an array of the same size.            *)
QueueBounded == Len(types) <= QueueSize

(* What makes it so: two events of one class are never queued together.    *)
QueueDistinct == Distinct(types)

\* News in the hand of a thread is being copied by its read; any other that was
\* taken has been read by the daemon, or lost by a read that returned -EFAULT.
Handed(k) == courier[k] \in Threads => At(courier[k], "copyout")

(* While a control request is pending, ev.setup is the request that a read *)
(* took from the queue last: a newer one must first cancel it, although    *)
(* ffs_func_setup overwrites ev.setup at any time and ffs_ep0_read and     *)
(* ffs_ep0_write take direction and length from it.  The daemon has read   *)
(* it, unless that read is still in its copy_to_user (lock and mutex are   *)
(* released before it) or has returned -EFAULT: then setup_state is        *)
(* PENDING for a request the daemon does not know.                         *)
PendingIsTold ==
  setup = "PENDING" /\ LockFree => taken.setup = request.id /\ Handed("setup")

(* Whatever __ffs_event_add purges, the latest power state and the latest  *)
(* of bind/unbind/enable/disable are not lost to the daemon: the latest is *)
(* the last one queued, or the last one taken, and that one has been read, *)
(* or is being copied by the read that took it, or that read has returned  *)
(* -EFAULT (the events have left the queue before the copy).               *)
LatestKept ==
  /\ LastOf(types, PowerTypes, taken.power) = raised.power /\ Handed("power")
  /\ LastOf(types, LifecycleTypes, taken.life) = raised.life /\ Handed("life")

(* A thread past the mutex is its holder, so one thread at a time is in    *)
(* the file's read or write, also across the sleeps of                     *)
(* __ffs_ep0_queue_wait and wait_event.                                    *)
Inside == {"config", "check", "waitev", "stall", "copy", "queue", "wait"}
HolderInside ==
  \A t \in Threads : th[t].pc \in Inside <=> mutex = t

(* setup_state leaves PENDING for NO_SETUP only on behalf of the pending   *)
(* request, when it has been answered or refused: a request taken from the *)
(* queue is not forgotten because an older one ended.                      *)
EndsItsOwnRequest ==
  [][setup = "PENDING" /\ setup' = "NO_SETUP" => ended' = taken.setup]_vars

(* f_generic.c:452-455, ffs_ep0_write after the copy from user space: "For *)
(* sure we are not in FFS_NO_SETUP since this is the only place            *)
(* FFS_SETUP_PENDING -> FFS_NO_SETUP transition can be performed and it's  *)
(* protected by mutex."                                                    *)
RecheckNotNoSetup ==
  [][\A t \in Threads : At(t, "copy") /\ th'[t].pc = "queue"
                        => setup # "NO_SETUP"]_vars

(* u_generic.h, the transitions of setup_state: FFS_SETUP_PENDING ->       *)
(* FFS_NO_SETUP "happens only in ep0 i/o  which is P: mutex".              *)
PendingEndsUnderMutex ==
  [][setup = "PENDING" /\ setup' = "NO_SETUP" => mutex # Nobody]_vars

(* A thread that waits for the host to take its answer does not wait for   *)
(* ever: its completion is not lost.                                       *)
AnswerReturns == \A t \in Threads : At(t, "wait") ~> At(t, "idle")
==============================================================================
