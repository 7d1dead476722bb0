------------------------------- MODULE FfsEpfile -------------------------------
(***************************************************************************)
(* One endpoint file of a USB function instance (struct ffs_epfile in      *)
(* f_generic.c): daemon threads inside ffs_epfile_iorw, asynchronous       *)
(* requests with their tasklets, the gadget enabling, disabling, binding   *)
(* and unbinding the function, and ffs_epfiles_destroy.                    *)
(*                                                                         *)
(* A section under eps_lock is one step.  usb_ep_dequeue gives the request *)
(* back inside the call or later, by CompleteSync or CompleteAio.          *)
(* Bounds: Aios, the asynchronous requests; MaxFunc, the addresses a       *)
(* function's endpoints can have; FileEvents, the capacity of reqEventFifo. *)
(***************************************************************************)
EXTENDS Naturals, FiniteSets

CONSTANTS FileThreads,  \* daemon threads that use the file
          NoThread,
          Aios, MaxFunc, FileEvents,
          Drained       \* the function is unbound, and the file destroyed, only
                        \* when no thread and no tasklet is using them

ASSUME EpfileAssumption ==
  /\ NoThread \notin FileThreads /\ MaxFunc \in Nat /\ FileEvents \in Nat
  /\ Drained \in BOOLEAN

VARIABLES files,     \* the endpoint files exist
          func,      \* the address of the bound function's endpoints, or 0
          ep,        \* epfile->ep
          epsLock,   \* "free", or "lost" by a thread that returned with it
          holder,    \* of epfile->mutex
          ft,        \* the threads; ep is what ffs_epfile_iorw read
          sync,      \* the thread whose request the UDC has
          done,      \* threads whose completion, on their stack, is done
          aio,       \* asynchronous requests: free, queued, or with the tasklet
          listed,    \* those on ep->req->list
          events     \* events in reqEventFifo

udc    == <<sync, done, aio, listed>>
epVars == <<files, func, ep, epsLock, holder, ft, udc, events>>

EpInit ==
  /\ files = TRUE /\ func = 0 /\ ep = 0 /\ epsLock = "free" /\ holder = NoThread
  /\ ft = [t \in FileThreads |-> [pc |-> "idle", op |-> "sync", ep |-> 0]]
  /\ sync = NoThread /\ done = {}
  /\ aio = [r \in Aios |-> "free"] /\ listed = {} /\ events = 0

Step(t, p) == ft' = [ft EXCEPT ![t].pc = p]
Leave(t)   == ft' = [ft EXCEPT ![t] = [pc |-> "idle", op |-> "sync", ep |-> 0]]
ReleaseMutex(t) == Leave(t) /\ holder' = NoThread

-----------------------------------------------------------------------------
(* ffs_epfile_iorw *)

\* epfile->ep is read without a lock.  Without one: -EAGAIN, or wait for it.
Enter(t, op) ==
  /\ files /\ ft[t].pc = "idle" /\ epsLock = "free"
  /\ ft' = [ft EXCEPT ![t] = [pc |-> IF ep = 0 THEN "waitep" ELSE "lock", op |-> op, ep |-> ep]]
  /\ UNCHANGED <<files, func, ep, epsLock, holder, udc, events>>

EpWoken(t) ==
  /\ ft[t].pc = "waitep" /\ ep # 0
  /\ ft' = [ft EXCEPT ![t] = [pc |-> "lock", op |-> @.op, ep |-> ep]]
  /\ UNCHANGED <<files, func, ep, epsLock, holder, udc, events>>

EpWaitEnds(t) ==
  /\ ft[t].pc = "waitep" /\ Leave(t)
  /\ UNCHANGED <<files, func, ep, epsLock, holder, udc, events>>

FileLock(t) ==
  /\ ft[t].pc = "lock"
  /\ \/ holder = NoThread /\ holder' = t /\ Step(t, IF ft[t].op = "halt" THEN "submit" ELSE "align")
     \/ holder # NoThread /\ Leave(t) /\ UNCHANGED holder        \* mutex_trylock
  /\ UNCHANGED <<files, func, ep, epsLock, udc, events>>

\* The first section: the endpoint was disabled or changed, or the length is known.
Align(t) ==
  /\ ft[t].pc = "align" /\ epsLock = "free"
  /\ IF ep # ft[t].ep THEN ReleaseMutex(t) ELSE Step(t, "submit") /\ UNCHANGED holder
  /\ UNCHANGED <<files, func, ep, epsLock, udc, events>>

\* The UDC takes the request of ep or refuses it.  A refused asynchronous
\* request is freed and stays on the list.
Queue(t) ==
  CASE ft[t].op = "sync" ->
         \/ /\ sync' = t /\ done' = done \ {t} /\ Step(t, "wait")
            /\ UNCHANGED <<holder, aio, listed>>
         \/ ReleaseMutex(t) /\ UNCHANGED udc
    [] ft[t].op = "aio" ->
         /\ ReleaseMutex(t) /\ UNCHANGED <<sync, done>>
         /\ \/ UNCHANGED <<aio, listed>>                         \* no memory
            \/ \E r \in Aios \ listed :
                 /\ listed' = listed \cup {r}
                 /\ aio' \in {aio, [aio EXCEPT ![r] = "queued"]}
    [] ft[t].op = "halt" -> ReleaseMutex(t) /\ UNCHANGED udc

\* Fault: the endpoint is not looked at again.
SubmitStale(t) ==
  /\ ft[t].pc = "submit" /\ epsLock = "free"
  /\ Queue(t) /\ UNCHANGED <<files, func, ep, epsLock, events>>

\* The second section.  A buffer that is not mapped: -EFAULT with both locks.
Submit(t) ==
  /\ ft[t].pc = "submit" /\ epsLock = "free"
  /\ \/ Leave(t) /\ epsLock' = "lost" /\ UNCHANGED <<holder, udc>>
     \/ ep # ft[t].ep /\ ReleaseMutex(t) /\ UNCHANGED <<epsLock, udc>>
     \/ ep = ft[t].ep /\ Queue(t) /\ UNCHANGED epsLock
  /\ UNCHANGED <<files, func, ep, events>>

FileAnswered(t) ==
  /\ ft[t].pc \in {"wait", "drain"} /\ t \in done /\ ReleaseMutex(t)
  /\ UNCHANGED <<files, func, ep, epsLock, udc, events>>

\* Fault: the completion is not waited for.
GiveUpAtOnce(t) ==
  /\ ft[t].pc = "wait" /\ t \notin done /\ ReleaseMutex(t)
  /\ UNCHANGED <<files, func, ep, epsLock, udc, events>>

\* A signal or a timeout: dequeue, then wait for the completion.
GiveUp(t) ==
  /\ ft[t].pc = "wait" /\ t \notin done /\ Step(t, "drain")
  /\ UNCHANGED <<files, func, ep, epsLock, holder, udc, events>>

-----------------------------------------------------------------------------
(* ffs_epfile_ioctl, RW_CANCEL *)

\* epfile->ep is read before the lock.
EnterCancel(t) ==
  /\ files /\ ft[t].pc = "idle" /\ ft' = [ft EXCEPT ![t] = [pc |-> "cancel", op |-> "cancel", ep |-> ep]]
  /\ UNCHANGED <<files, func, ep, epsLock, holder, udc, events>>

\* The request is dequeued if it is on the list.  When the endpoint was disabled
\* since the read, epfile->ep is dereferenced as NULL: left out.
Cancel(t) ==
  /\ ft[t].pc = "cancel" /\ epsLock = "free" /\ Leave(t)
  /\ ft[t].ep # 0 => ep # 0
  /\ \/ UNCHANGED <<epsLock, aio>>
     \/ ft[t].ep # 0 /\ epsLock' = "lost" /\ UNCHANGED aio      \* not mapped
     \/ /\ ft[t].ep # 0 /\ UNCHANGED epsLock
        /\ \E r \in listed : aio[r] = "queued" /\ aio' = [aio EXCEPT ![r] = "tasklet"]
  /\ UNCHANGED <<files, func, ep, holder, sync, done, listed, events>>

-----------------------------------------------------------------------------
(* Completion handlers *)

\* ffs_epfile_io_complete.
CompleteSync ==
  /\ sync # NoThread /\ sync' = NoThread /\ done' = done \cup {sync}
  /\ UNCHANGED <<files, func, ep, epsLock, holder, ft, aio, listed, events>>

\* ffs_epfile_async_io_complete.
CompleteAio(r) ==
  /\ aio[r] = "queued" /\ aio' = [aio EXCEPT ![r] = "tasklet"]
  /\ UNCHANGED <<files, func, ep, epsLock, holder, ft, sync, done, listed, events>>

\* epfile_task_proc.  kfifo_in drops an event that does not fit.
EpfileTask(r) ==
  /\ aio[r] = "tasklet" /\ epsLock = "free"
  /\ aio' = [aio EXCEPT ![r] = "free"] /\ listed' = listed \ {r}
  /\ events' = IF events < FileEvents THEN events + 1 ELSE events
  /\ UNCHANGED <<files, func, ep, epsLock, holder, ft, sync, done>>

\* ffs_epfile_read.
FileRead ==
  /\ files /\ events > 0 /\ epsLock = "free" /\ events' = events - 1
  /\ UNCHANGED <<files, func, ep, epsLock, holder, ft, udc>>

-----------------------------------------------------------------------------
(* The gadget *)

FuncBind ==
  /\ files /\ func = 0 /\ func' \in 1..MaxFunc
  /\ UNCHANGED <<files, ep, epsLock, holder, ft, udc, events>>

\* Fault: pending requests are left to the UDC.
EpsDisableKeeps ==
  /\ ep # 0 /\ epsLock = "free" /\ ep' = 0
  /\ UNCHANGED <<files, func, epsLock, holder, ft, udc, events>>

\* ffs_func_eps_disable, from set_alt, disable and unbind: usb_ep_disable gives
\* back what is queued.
EpsDisable ==
  /\ ep # 0 /\ epsLock = "free" /\ ep' = 0
  /\ sync' = NoThread /\ done' = done \cup ({sync} \ {NoThread})
  /\ aio' = [r \in Aios |-> IF aio[r] = "queued" THEN "tasklet" ELSE aio[r]]
  /\ UNCHANGED <<files, func, epsLock, holder, ft, listed, events>>

EpsEnable ==
  /\ func # 0 /\ ep = 0 /\ epsLock = "free" /\ ep' = func
  /\ UNCHANGED <<files, func, epsLock, holder, ft, udc, events>>

Idle ==
  (\A t \in FileThreads : ft[t].pc \in {"idle", "waitep"}) /\ \A r \in Aios : aio[r] = "free"

\* ffs_func_unbind frees the requests with the endpoints.
FuncUnbind ==
  /\ func # 0 /\ ep = 0 /\ epsLock = "free" /\ (Drained => Idle)
  /\ func' = 0 /\ listed' = {}
  /\ UNCHANGED <<files, ep, epsLock, holder, ft, sync, done, aio, events>>

\* ffs_epfiles_destroy, once ffs_closed has had the function unbound.
EpfilesDestroy ==
  /\ files /\ func = 0 /\ files' = FALSE
  /\ Drained => \A t \in FileThreads : ft[t].pc = "idle"
  /\ UNCHANGED <<func, ep, epsLock, holder, ft, udc, events>>

FileStep(t) ==
  EpWoken(t) \/ FileLock(t) \/ Align(t) \/ Submit(t) \/ FileAnswered(t)

EpNext ==
  \/ \E t \in FileThreads : \/ FileStep(t) \/ EpWaitEnds(t) \/ GiveUp(t)
                            \/ EnterCancel(t) \/ Cancel(t)
                            \/ \E op \in {"sync", "aio", "halt"} : Enter(t, op)
  \/ CompleteSync \/ FileRead
  \/ \E r \in Aios : CompleteAio(r) \/ EpfileTask(r)
  \/ FuncBind \/ EpsDisable \/ EpsEnable \/ FuncUnbind \/ EpfilesDestroy

\* A thread inside the file goes on, and the UDC gives back what is dequeued.
\* Nothing is assumed of the host.
EpFairness ==
  /\ \A t \in FileThreads : WF_epVars(FileStep(t))
  /\ WF_epVars(CompleteSync /\ ft[sync].pc = "drain")

EpSpec == EpInit /\ [][EpNext]_epVars

-----------------------------------------------------------------------------
(* f_generic.c:1843, BUG_ON(mutex_is_locked(&epfile->mutex)): no thread is *)
(* inside ffs_epfile_iorw when the file is destroyed.                      *)
UnlockedWhenDestroyed == ~files => holder = NoThread

(* The UDC has requests only of an enabled endpoint, although              *)
(* ffs_epfile_iorw read epfile->ep with no lock, may have slept since, and *)
(* the endpoint may have been disabled and enabled meanwhile.              *)
QueuedWhileEnabled ==
  (sync # NoThread \/ \E r \in Aios : aio[r] = "queued") => ep # 0

(* A synchronous request's completion is on the stack of the thread that   *)
(* queued it, and the request is shared by all threads: while the UDC has  *)
(* it that thread is waiting, with the file's mutex.                       *)
StackCompletionAlive ==
  sync # NoThread => ft[sync].pc \in {"wait", "drain"} /\ holder = sync

(* Disabling the endpoint, or giving up, ends the wait of a synchronous    *)
(* transfer whatever the host does.                                        *)
DisabledReturns ==
  \A t \in FileThreads :
    (ft[t].pc = "drain" \/ (ft[t].pc = "wait" /\ ep = 0)) ~> ft[t].pc = "idle"
=============================================================================
