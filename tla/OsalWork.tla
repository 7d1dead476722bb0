------------------------------- MODULE OsalWork -------------------------------
(***************************************************************************)
(* The OSAL work items (osal_workqueue.c) on one single-threaded queue.    *)
(* A wrapper holds the kernel's delayed_work; HdfWorkDestroy frees it       *)
(* whatever the work is doing and HdfWorkQueueDestroy drains the queue but *)
(* no timer.  So the model's clients cancel a work before they destroy it,  *)
(* or destroy the queue first when the work is not a delayed one; a work's  *)
(* function may add its own work at any time.  The calls refuse a work      *)
(* without wrapper.                                                        *)
(***************************************************************************)
EXTENDS SequencesExt

CONSTANTS Works, Delayed,  \* the works, and those made by HdfDelayedWorkInit
          NoWork

ASSUME WorkAssumption == Delayed \subseteq Works /\ NoWork \notin Works

VARIABLES realWork,   \* per work: whether its wrapper is there
          cancel,     \* per work: idle, held (PENDING is the canceller's), cancelled
          pending,    \* per work: no, timer, queue
          workQueue,  \* the queue: none, up, draining, gone
          fifo,       \* the works on it, in order
          running     \* the work whose function runs, or NoWork

wkVars == <<realWork, cancel, pending, workQueue, fifo, running>>

WkInit ==
  /\ realWork = [w \in Works |-> FALSE] /\ cancel = [w \in Works |-> "idle"]
  /\ pending = [w \in Works |-> "no"] /\ workQueue = "none" /\ fifo = <<>> /\ running = NoWork

HdfWorkQueueInit ==
  /\ workQueue \in {"none", "gone"} /\ workQueue' = "up"
  /\ UNCHANGED <<realWork, cancel, pending, fifo, running>>

\* HdfWorkInit and HdfDelayedWorkInit.
HdfWorkInit(w) ==
  /\ ~realWork[w] /\ realWork' = [realWork EXCEPT ![w] = TRUE]
  /\ cancel' = [cancel EXCEPT ![w] = "idle"]
  /\ UNCHANGED <<pending, workQueue, fifo, running>>

-----------------------------------------------------------------------------
(* Adding: by the cancel, or by the work's own function while it runs,     *)
(* which a queue that is drained still takes.  A work that is pending or    *)
(* that a canceller holds is left alone.                                   *)
MayAdd(w) ==
  /\ realWork[w] /\ pending[w] = "no" /\ cancel[w] # "held"
  /\ workQueue = "up" \/ (workQueue = "draining" /\ running = w)

HdfAddWork(w) ==
  /\ MayAdd(w) /\ pending' = [pending EXCEPT ![w] = "queue"] /\ fifo' = Append(fifo, w)
  /\ cancel' = [cancel EXCEPT ![w] = "idle"]
  /\ UNCHANGED <<realWork, workQueue, running>>

HdfAddDelayedWork(w) ==
  /\ w \in Delayed /\ MayAdd(w) /\ pending' = [pending EXCEPT ![w] = "timer"]
  /\ cancel' = [cancel EXCEPT ![w] = "idle"]
  /\ UNCHANGED <<realWork, workQueue, fifo, running>>

TimerExpires(w) ==
  /\ pending[w] = "timer" /\ pending' = [pending EXCEPT ![w] = "queue"]
  /\ fifo' = Append(fifo, w)
  /\ UNCHANGED <<realWork, cancel, workQueue, running>>

\* The worker: PENDING is cleared before the function is called.
WorkEntry ==
  /\ fifo # <<>> /\ running = NoWork
  /\ running' = Head(fifo) /\ fifo' = Tail(fifo) /\ pending' = [pending EXCEPT ![Head(fifo)] = "no"]
  /\ UNCHANGED <<realWork, cancel, workQueue>>

WorkReturns ==
  /\ running # NoWork /\ running' = NoWork
  /\ UNCHANGED <<realWork, cancel, pending, workQueue, fifo>>

-----------------------------------------------------------------------------
\* The queue without the work, which is on it once if at all.
Unlisted(w) ==
  IF \E i \in 1..Len(fifo) : fifo[i] = w
    THEN RemoveAt(fifo, CHOOSE i \in 1..Len(fifo) : fifo[i] = w)
    ELSE fifo

\* Fault: cancel_delayed_work, which does not wait for the function.
CancelNoSync(w) ==
  /\ realWork[w] /\ cancel[w] = "idle" /\ cancel' = [cancel EXCEPT ![w] = "cancelled"]
  /\ pending' = [pending EXCEPT ![w] = "no"] /\ fifo' = Unlisted(w)
  /\ UNCHANGED <<realWork, workQueue, running>>

\* HdfCancelWorkSync, HdfCancelDelayedWorkSync: PENDING is taken off the timer or
\* the queue and kept until the function has returned.
HdfCancelDelayedWorkSync(w) ==
  /\ realWork[w] /\ cancel[w] = "idle" /\ cancel' = [cancel EXCEPT ![w] = "held"]
  /\ pending' = [pending EXCEPT ![w] = "no"] /\ fifo' = Unlisted(w)
  /\ UNCHANGED <<realWork, workQueue, running>>

CancelReturns(w) ==
  /\ cancel[w] = "held" /\ running # w /\ cancel' = [cancel EXCEPT ![w] = "cancelled"]
  /\ UNCHANGED <<realWork, pending, workQueue, fifo, running>>

HdfWorkDestroy(w) ==
  /\ realWork[w] /\ realWork' = [realWork EXCEPT ![w] = FALSE]
  /\ cancel[w] = "cancelled" \/ (cancel[w] = "idle" /\ workQueue = "gone")
  /\ UNCHANGED <<cancel, pending, workQueue, fifo, running>>

\* destroy_workqueue waits for what is on the queue, not for timers.
HdfWorkQueueDestroy ==
  /\ workQueue = "up" /\ workQueue' = "draining"
  /\ \A w \in Delayed : realWork[w] => cancel[w] = "cancelled"
  /\ UNCHANGED <<realWork, cancel, pending, fifo, running>>

Drained ==
  /\ workQueue = "draining" /\ fifo = <<>> /\ running = NoWork /\ workQueue' = "gone"
  /\ UNCHANGED <<realWork, cancel, pending, fifo, running>>

WkNext ==
  \/ HdfWorkQueueInit \/ HdfWorkQueueDestroy \/ Drained \/ WorkEntry \/ WorkReturns
  \/ \E w \in Works :
       \/ HdfWorkInit(w) \/ HdfAddWork(w) \/ HdfAddDelayedWork(w) \/ TimerExpires(w)
       \/ HdfCancelDelayedWorkSync(w) \/ CancelReturns(w) \/ HdfWorkDestroy(w)

WkSpec == WkInit /\ [][WkNext]_wkVars

-----------------------------------------------------------------------------
(* A work whose timer runs, that is queued or whose function runs has its  *)
(* wrapper and its queue: a cancel is enough to destroy a work, and a       *)
(* drained queue is enough for one that is not delayed, although functions  *)
(* add their works again until the last moment.                            *)
WrapperAlive ==
  \A w \in Works : pending[w] # "no" \/ running = w =>
    realWork[w] /\ workQueue \in {"up", "draining"}
=============================================================================
