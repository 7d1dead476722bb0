--------------------------- MODULE FfsFiles_proofs ----------------------------
(***************************************************************************)
(* Theorems about the files of a USB function: poll, the endpoint files    *)
(* and the transfer memory.                                                *)
(***************************************************************************)
EXTENDS FfsPoll, FfsEpfile, FfsMemory, SequenceTheorems, WellFoundedInduction, TLAPS

-----------------------------------------------------------------------------
(* FfsPoll.                                                                *)

Queues == {"events", "transfers"}
Pcs    == [pc : {"out", "test", "asleep"}, queue : Queues \cup {"none"}, triggered : BOOLEAN]

PollTypeOK ==
  /\ file \in {"ep0", "epfile"} /\ setup_state \in {"NO_SETUP", "PENDING", "CANCELLED"}
  /\ ready \in [Queues -> Nat] /\ wakes \subseteq Queues /\ poller \in [Pollers -> Pcs]

\* In poll, in the right queue; and on ep0 nobody but the daemon.
InQueue(p) == poller[p].pc # "out" => poller[p].queue = Waitq /\ (file = "ep0" => p = Daemon)

\* PollerTold, for one thread.
IsTold(p) ==
  poller[p].pc = "asleep" /\ ~poller[p].triggered /\ poller[p].queue \notin wakes
    => ready[poller[p].queue] = 0

PollIInv == PollTypeOK /\ \A p \in Pollers : InQueue(p) /\ IsTold(p)

-----------------------------------------------------------------------------
(* Nobody is in poll when the file is opened.                               *)
LEMMA InitPollIInv == PollInit => PollIInv
<1> SUFFICES ASSUME PollInit PROVE PollIInv
  OBVIOUS
<1>1. Out \in Pcs /\ Out.pc = "out"
  BY DEF Out, Pcs, Queues
<1> QED
  BY <1>1 DEF PollInit, PollIInv, PollTypeOK, InQueue, IsTold, Queues

(* A thread's own step in poll(2): the others are as they were.             *)
LEMMA OwnStep ==
  ASSUME PollIInv, NEW p \in Pollers, NEW r \in Pcs, poller' = [poller EXCEPT ![p] = r],
         UNCHANGED <<file, setup_state, ready, wakes>>,
         r.pc # "out" => r.queue = Waitq /\ (file = "ep0" => p = Daemon),
         r.pc = "asleep" /\ ~r.triggered /\ r.queue \notin wakes => ready[r.queue] = 0
  PROVE  PollIInv'
  BY DEF PollIInv, PollTypeOK, InQueue, IsTold, Waitq

(* A wake-up makes the sleepers of its queue look again: __wake_up.         *)
LEMMA ToldType ==
  ASSUME poller \in [Pollers -> Pcs], NEW q
  PROVE  /\ Told(q) \in [Pollers -> Pcs]
         /\ \A p \in Pollers :
              /\ Told(q)[p].pc = poller[p].pc /\ Told(q)[p].queue = poller[p].queue
              /\ poller[p].triggered => Told(q)[p].triggered
              /\ poller[p].pc # "out" /\ poller[p].queue = q => Told(q)[p].triggered
  BY DEF Told, Pcs

(* What is ready may become more or less, and remains a number.             *)
LEMMA StoredType ==
  ASSUME ready \in [Queues -> Nat], NEW q \in Queues
  PROVE  Stored(q) \in [Queues -> Nat] /\ \A o \in Queues \ {q} : Stored(q)[o] = ready[o]
  BY DEF Stored

(* The invariant, for every step of poll(2), reading, and what is told.     *)
LEMMA StepPollIInv == PollIInv /\ [PollNext]_pollVars => PollIInv'
<1> SUFFICES ASSUME PollIInv, [PollNext]_pollVars PROVE PollIInv'
  OBVIOUS
<1>1. CASE UNCHANGED pollVars
  BY <1>1 DEF pollVars, PollIInv, PollTypeOK, InQueue, IsTold, Waitq
<1>2. ASSUME NEW p \in Pollers, PollWait(p) PROVE PollIInv'
  <2> DEFINE r == [poller[p] EXCEPT !.pc = "test", !.queue = Waitq]
  <2>1. r \in Pcs /\ r.pc = "test" /\ r.queue = Waitq
    BY DEF PollIInv, PollTypeOK, Pcs, Waitq, Queues
  <2>2. poller' = [poller EXCEPT ![p] = r]
    BY <1>2 DEF PollWait
  <2> HIDE DEF r
  <2> QED
    BY <1>2, <2>1, <2>2, OwnStep DEF PollWait
<1>3. ASSUME NEW p \in Pollers, Test(p) PROVE PollIInv'
  <2> DEFINE r == IF ready[Waitq] > 0 THEN Out ELSE [poller[p] EXCEPT !.pc = "asleep"]
  <2>1. r \in Pcs /\ (r.pc # "out" => r.queue = poller[p].queue)
    BY DEF PollIInv, PollTypeOK, Pcs, Out, Queues
  <2>2. poller' = [poller EXCEPT ![p] = r]
    BY <1>3 DEF Test
  <2>3. r.pc = "asleep" => ready[Waitq] = 0
    BY DEF PollIInv, PollTypeOK, Waitq, Out, Queues
  <2> HIDE DEF r
  <2>4. poller[p].queue = Waitq /\ (file = "ep0" => p = Daemon)
    BY <1>3 DEF Test, PollIInv, InQueue
  <2> QED
    BY <1>3, <2>1, <2>2, <2>3, <2>4, OwnStep DEF Test
<1>4. ASSUME NEW p \in Pollers, Woken(p) PROVE PollIInv'
  <2> DEFINE r == [poller[p] EXCEPT !.pc = "test", !.triggered = FALSE]
  <2>1. r \in Pcs /\ r.pc = "test" /\ r.queue = poller[p].queue
    BY DEF PollIInv, PollTypeOK, Pcs
  <2>2. poller' = [poller EXCEPT ![p] = r]
    BY <1>4 DEF Woken
  <2> HIDE DEF r
  <2>3. poller[p].queue = Waitq /\ (file = "ep0" => p = Daemon)
    BY <1>4 DEF Woken, PollIInv, InQueue
  <2> QED
    BY <1>4, <2>1, <2>2, <2>3, OwnStep DEF Woken
<1>5. ASSUME NEW p \in Pollers, TimedOut(p) PROVE PollIInv'
  <2>1. Out \in Pcs /\ Out.pc = "out"
    BY DEF Out, Pcs, Queues
  <2> QED
    BY <1>5, <2>1, OwnStep DEF TimedOut
<1>6. ASSUME NEW p \in Pollers, PollRead(p) PROVE PollIInv'
  <2>1. ASSUME file = "epfile", UNCHANGED setup_state,
               NEW n \in 0 .. ready["transfers"], ready' = [ready EXCEPT !["transfers"] = n]
        PROVE  PollIInv'
    BY <1>6, <2>1 DEF PollRead, PollIInv, PollTypeOK, InQueue, IsTold, Waitq, Queues
  <2>2. ASSUME file = "ep0", p = Daemon, setup_state = "NO_SETUP", ready["events"] > 0,
               NEW n \in 0 .. (ready["events"] - 1), ready' = [ready EXCEPT !["events"] = n],
               setup_state' \in {"NO_SETUP", "PENDING"}
        PROVE  PollIInv'
    <3>1. \A t \in Pollers : poller[t].pc = "out"
      BY <1>6, <2>2 DEF PollRead, PollIInv, InQueue
    <3> QED
      BY <1>6, <2>2, <3>1 DEF PollRead, PollIInv, PollTypeOK, InQueue, IsTold, Queues
  <2>3. ASSUME file = "ep0", p = Daemon, setup_state' = "NO_SETUP", UNCHANGED ready
        PROVE  PollIInv'
    <3>1. \A t \in Pollers : poller[t].pc = "out"
      BY <1>6, <2>3 DEF PollRead, PollIInv, InQueue
    <3> QED
      BY <1>6, <2>3, <3>1 DEF PollRead, PollIInv, PollTypeOK, InQueue, IsTold
  <2> QED
    BY <1>6, <2>1, <2>2, <2>3 DEF PollRead
<1>7. CASE GetEp0Event
  <2>1. \A t \in Pollers : poller[t].pc = "out"
    BY <1>7 DEF GetEp0Event, PollIInv, InQueue
  <2>2. ready["transfers"] - 1 \in Nat
    BY <1>7 DEF GetEp0Event, PollIInv, PollTypeOK, Queues
  <2> QED
    BY <1>7, <2>1, <2>2 DEF GetEp0Event, PollIInv, PollTypeOK, InQueue, IsTold, Queues
<1>8. ASSUME NEW q \in Queues, ready' = Stored(q), wakes' = wakes \cup {q}, UNCHANGED <<file, poller>>,
             setup_state' \in {"NO_SETUP", "PENDING", "CANCELLED"},
             setup_state' = "NO_SETUP" <=> setup_state = "NO_SETUP"
      PROVE  PollIInv'
  <2>1. Stored(q) \in [Queues -> Nat] /\ \A o \in Queues \ {q} : Stored(q)[o] = ready[o]
    BY StoredType DEF PollIInv, PollTypeOK
  <2>2. PollTypeOK'
    BY <1>8, <2>1 DEF PollIInv, PollTypeOK
  <2>3. ASSUME NEW p \in Pollers PROVE InQueue(p)' /\ IsTold(p)'
    BY <1>8, <2>1 DEF PollIInv, PollTypeOK, InQueue, IsTold, Waitq, Queues
  <2> QED
    BY <2>2, <2>3 DEF PollIInv
<1>9. CASE PollEvent
  BY <1>8, <1>9 DEF PollEvent, Notice, PollIInv, PollTypeOK, Queues
<1>10. CASE Finished
  BY <1>8, <1>10 DEF Finished, Notice, PollIInv, PollTypeOK, Queues
<1>11. ASSUME NEW q \in Queues, WakeUp(q) PROVE PollIInv'
  <2>1. poller \in [Pollers -> Pcs] /\ poller' = Told(q) /\ wakes' = wakes \ {q}
        /\ UNCHANGED <<file, setup_state, ready>>
    BY <1>11 DEF WakeUp, Notice, PollIInv, PollTypeOK
  <2>2. PollTypeOK'
    BY <2>1, ToldType DEF PollIInv, PollTypeOK
  <2>3. ASSUME NEW p \in Pollers PROVE InQueue(p)' /\ IsTold(p)'
    <3>1. /\ poller'[p].pc = poller[p].pc /\ poller'[p].queue = poller[p].queue
          /\ poller[p].triggered => poller'[p].triggered
          /\ poller[p].pc # "out" /\ poller[p].queue = q => poller'[p].triggered
      BY <2>1, ToldType
    <3> QED
      BY <2>1, <3>1 DEF PollIInv, InQueue, IsTold, Waitq
  <2> QED
    BY <2>2, <2>3 DEF PollIInv
<1> QED
  BY <1>1, <1>2, <1>3, <1>4, <1>5, <1>6, <1>7, <1>9, <1>10, <1>11 DEF PollNext, Queues

(* ffs_ep0_poll and ffs_epfile_poll lose no wake-up, for any number of      *)
(* threads on an endpoint file and any length of the FIFO and event array.  *)
THEOREM NoWakeUpLost == PollSpec => []PollerTold
<1>1. PollIInv => PollerTold
  BY DEF PollIInv, IsTold, PollerTold
<1> QED
  BY InitPollIInv, StepPollIInv, <1>1, PTL DEF PollSpec

-----------------------------------------------------------------------------
(* FfsEpfile.                                                              *)

FilePcs == {"idle", "waitep", "lock", "align", "submit", "wait", "drain", "cancel"}
Inside  == {"align", "submit", "wait", "drain"}
Threads == [pc : FilePcs, op : {"sync", "aio", "halt", "cancel"}, ep : Nat]

EpTypeOK ==
  /\ func \in Nat /\ ep \in Nat /\ ft \in [FileThreads -> Threads]
  /\ holder \in FileThreads \cup {NoThread} /\ sync \in FileThreads \cup {NoThread}
  /\ aio \in [Aios -> {"free", "queued", "tasklet"}]

\* A thread past the wait for an endpoint knows one, and inside holds the mutex.
ThreadOK(t) ==
  /\ ft[t].pc \in Inside \cup {"lock"} => ft[t].ep # 0
  /\ ft[t].pc \in Inside => holder = t
  /\ ft[t].pc \in Inside \cup {"lock", "waitep"} => ft[t].op # "cancel"

\* The UDC's synchronous request has not been answered and its thread waits.
SyncOK == sync # NoThread => sync \notin done /\ ft[sync].pc \in {"wait", "drain"}

EpIInv == EpTypeOK /\ (\A t \in FileThreads : ThreadOK(t)) /\ SyncOK /\ QueuedWhileEnabled

(* What a step of one thread's own does to the invariant, if it leaves the *)
(* UDC alone.                                                              *)
LEMMA ThreadStepKeeps ==
  ASSUME EpIInv, NEW t \in FileThreads, NEW r \in Threads, ft' = [ft EXCEPT ![t] = r],
         UNCHANGED <<func, ep, udc>>,
         holder' = holder \/ (holder = NoThread /\ holder' = t) \/ (holder = t /\ holder' = NoThread),
         r.pc \in Inside \cup {"lock"} => r.ep # 0,
         r.pc \in Inside => holder' = t,
         r.pc \in Inside \cup {"lock", "waitep"} => r.op # "cancel",
         sync = t => r.pc \in {"wait", "drain"}
  PROVE  EpIInv'
<1> USE DEF EpIInv, udc
<1>1. EpTypeOK'
  BY DEF EpTypeOK
<1>2. ft'[t] = r /\ \A u \in FileThreads \ {t} : ft'[u] = ft[u]
  BY DEF EpTypeOK
<1>3. ASSUME NEW u \in FileThreads PROVE ThreadOK(u)'
  <2>1. CASE u = t
    BY <1>2, <2>1 DEF ThreadOK
  <2>2. CASE u # t
    BY <1>2, <2>2, EpfileAssumption DEF ThreadOK
  <2> QED
    BY <2>1, <2>2
<1>4. SyncOK'
  BY <1>2 DEF SyncOK, EpTypeOK
<1>5. QueuedWhileEnabled'
  BY DEF QueuedWhileEnabled
<1> QED
  BY <1>1, <1>3, <1>4, <1>5

(* The entries, the waits and the way out of ffs_epfile_iorw and ioctl.    *)
LEMMA WaitingSteps ==
  ASSUME EpIInv, NEW t \in FileThreads,
         \/ \E op \in {"sync", "aio", "halt"} : Enter(t, op)
         \/ EpWoken(t) \/ EpWaitEnds(t) \/ FileLock(t) \/ Align(t)
         \/ FileAnswered(t) \/ GiveUp(t) \/ EnterCancel(t)
  PROVE  EpIInv'
<1> USE DEF EpIInv
<1>0. ft[t] \in Threads /\ ep \in Nat
  BY DEF EpTypeOK
<1>a. ft[t] = [pc |-> ft[t].pc, op |-> ft[t].op, ep |-> ft[t].ep]
  BY <1>0 DEF Threads
<1>b. [pc |-> "idle", op |-> "sync", ep |-> 0] \in Threads
  BY DEF Threads, FilePcs
<1>1. ASSUME NEW op \in {"sync", "aio", "halt"}, Enter(t, op) PROVE EpIInv'
  <2> DEFINE r == [pc |-> IF ep = 0 THEN "waitep" ELSE "lock", op |-> op, ep |-> ep]
  <2>1. r \in Threads /\ r.pc \notin Inside /\ (r.pc = "lock" => r.ep # 0)
       /\ r.op # "cancel"
    BY <1>0 DEF Threads, FilePcs, Inside
  <2>2. ft' = [ft EXCEPT ![t] = r] /\ UNCHANGED <<func, ep, udc, holder>> /\ ft[t].pc = "idle"
    BY <1>1 DEF Enter
  <2>3. sync # t
    BY <2>2, EpfileAssumption DEF SyncOK
  <2> HIDE DEF r
  <2> QED
    BY <2>1, <2>2, <2>3, ThreadStepKeeps DEF EpTypeOK
<1>2. CASE EpWoken(t)
  <2> DEFINE r == [pc |-> "lock", op |-> ft[t].op, ep |-> ep]
  <2>1. r \in Threads /\ r.pc = "lock" /\ r.pc \notin Inside /\ r.ep = ep
       /\ r.op = ft[t].op
    BY <1>0 DEF Threads, FilePcs, Inside
  <2>2. ft' = [ft EXCEPT ![t] = r] /\ UNCHANGED <<func, ep, udc, holder>> /\ ep # 0 /\ ft[t].pc = "waitep"
    BY <1>2 DEF EpWoken
  <2>3. sync # t /\ ft[t].op # "cancel"
    BY <2>2, EpfileAssumption DEF SyncOK, ThreadOK
  <2> HIDE DEF r
  <2> QED
    BY <2>1, <2>2, <2>3, ThreadStepKeeps
<1>3. ASSUME Leave(t), UNCHANGED <<func, ep, udc>>, ft[t].pc \notin {"wait", "drain"} \/ t \in done,
             holder' = holder \/ (holder = t /\ holder' = NoThread)
      PROVE  EpIInv'
  <2>1. sync # t
    BY <1>3, EpfileAssumption DEF SyncOK
  <2>2. [pc |-> "idle", op |-> "sync", ep |-> 0].pc \notin Inside \cup {"lock", "waitep"}
    BY DEF Inside
  <2> QED
    BY <1>3, <1>b, <2>1, <2>2, ThreadStepKeeps DEF Leave
<1>4. ASSUME NEW p \in FilePcs \ {"lock"}, Step(t, p), UNCHANGED <<func, ep, udc>>,
             ft[t].pc \in Inside \cup {"lock"}, p \in Inside => holder' = t,
             sync = t => p \in {"wait", "drain"},
             holder' = holder \/ (holder = NoThread /\ holder' = t)
      PROVE  EpIInv'
  <2> DEFINE r == [ft[t] EXCEPT !.pc = p]
  <2>1. r \in Threads /\ r.pc = p /\ r.ep = ft[t].ep /\ r.op = ft[t].op
    BY <1>0 DEF Threads
  <2>2. ft' = [ft EXCEPT ![t] = r] /\ r.ep # 0 /\ r.op # "cancel"
    BY <1>4, <2>1 DEF Step, ThreadOK
  <2> HIDE DEF r
  <2> QED
    BY <1>4, <2>1, <2>2, ThreadStepKeeps
<1>5. CASE FileLock(t)
  <2>1. ft[t].pc = "lock" /\ sync # t /\ UNCHANGED <<func, ep, udc>>
    BY <1>5, EpfileAssumption DEF FileLock, SyncOK
  <2>2. CASE holder = NoThread /\ holder' = t /\ Step(t, IF ft[t].op = "halt" THEN "submit" ELSE "align")
    BY <1>4, <2>1, <2>2 DEF FilePcs
  <2>3. CASE Leave(t) /\ UNCHANGED holder
    BY <1>3, <2>1, <2>3
  <2> QED
    BY <1>5, <2>2, <2>3 DEF FileLock
<1>6. CASE Align(t)
  <2>1. ft[t].pc = "align" /\ sync # t /\ UNCHANGED <<func, ep, udc>> /\ holder = t
    BY <1>6, EpfileAssumption DEF Align, SyncOK, ThreadOK, Inside
  <2>2. CASE ReleaseMutex(t)
    BY <1>3, <2>1, <2>2 DEF ReleaseMutex
  <2>3. CASE Step(t, "submit") /\ UNCHANGED holder
    BY <1>4, <2>1, <2>3 DEF FilePcs, Inside
  <2> QED
    BY <1>6, <2>2, <2>3 DEF Align
<1>7. CASE EpWaitEnds(t)
  BY <1>3, <1>7 DEF EpWaitEnds
<1>8. CASE FileAnswered(t)
  <2>1. holder = t
    BY <1>8 DEF FileAnswered, ThreadOK, Inside
  <2> QED
    BY <1>3, <1>8, <2>1 DEF FileAnswered, ReleaseMutex
<1>9. CASE GiveUp(t)
  <2>1. holder = t
    BY <1>9 DEF GiveUp, ThreadOK, Inside
  <2> QED
    BY <1>4, <1>9, <2>1 DEF GiveUp, Inside, FilePcs
<1>10. CASE EnterCancel(t)
  <2> DEFINE r == [pc |-> "cancel", op |-> "cancel", ep |-> ep]
  <2>1. r \in Threads /\ r.pc \notin Inside \cup {"lock", "waitep"}
    BY <1>0 DEF Threads, FilePcs, Inside
  <2>2. ft' = [ft EXCEPT ![t] = r] /\ UNCHANGED <<func, ep, udc, holder>> /\ ft[t].pc = "idle"
    BY <1>10 DEF EnterCancel
  <2>3. sync # t
    BY <2>2, EpfileAssumption DEF SyncOK
  <2> HIDE DEF r
  <2> QED
    BY <2>1, <2>2, <2>3, ThreadStepKeeps
<1> QED
  BY <1>1, <1>2, <1>5, <1>6, <1>7, <1>8, <1>9, <1>10

(* The submission, the second section of ffs_epfile_iorw: the endpoint is  *)
(* the one whose requests are queued.                                      *)
LEMMA SubmitStep == ASSUME EpIInv, NEW t \in FileThreads, Submit(t) PROVE EpIInv'
<1> USE DEF EpIInv
<1>0. /\ ft[t] \in Threads /\ ft[t].pc = "submit" /\ holder = t /\ ft[t].ep # 0 /\ sync # t
      /\ UNCHANGED <<func, ep>> /\ ft[t].op # "cancel"
  BY EpfileAssumption DEF Submit, EpTypeOK, ThreadOK, SyncOK, Inside
<1>a. [pc |-> "idle", op |-> "sync", ep |-> 0] \in Threads
  BY DEF Threads, FilePcs
<1>b. [pc |-> "idle", op |-> "sync", ep |-> 0].pc = "idle"
  OBVIOUS
<1>c. sync = NoThread
  BY <1>0 DEF SyncOK, ThreadOK, Inside, EpTypeOK
<1>1. CASE Leave(t) /\ holder' \in {holder, NoThread} /\ UNCHANGED udc
  BY <1>0, <1>1, <1>a, <1>b, ThreadStepKeeps DEF Leave, Inside
<1>2. CASE ep = ft[t].ep /\ Queue(t)
  <2>1. CASE ReleaseMutex(t) /\ UNCHANGED udc
    BY <1>1, <2>1 DEF ReleaseMutex
  <2>2. CASE sync' = t /\ done' = done \ {t} /\ Step(t, "wait") /\ UNCHANGED <<holder, aio, listed>>
    <3> DEFINE r == [ft[t] EXCEPT !.pc = "wait"]
    <3>1. r \in Threads /\ r.pc = "wait" /\ r.ep = ft[t].ep /\ r.op = ft[t].op
      BY <1>0 DEF Threads, FilePcs
    <3>2. ft' = [ft EXCEPT ![t] = r]
      BY <2>2 DEF Step
    <3> HIDE DEF r
    <3>3. ft'[t] = r /\ \A u \in FileThreads \ {t} : ft'[u] = ft[u]
      BY <3>2 DEF EpTypeOK
    <3>4. EpTypeOK'
      BY <1>0, <2>2, <3>1, <3>2 DEF EpTypeOK
    <3>5. ASSUME NEW u \in FileThreads PROVE ThreadOK(u)'
      BY <1>0, <2>2, <3>1, <3>3 DEF ThreadOK
    <3>6. SyncOK' /\ QueuedWhileEnabled'
      BY <1>0, <1>2, <2>2, <3>1, <3>3 DEF SyncOK, QueuedWhileEnabled
    <3> QED
      BY <3>4, <3>5, <3>6
  <2>3. CASE /\ ReleaseMutex(t) /\ UNCHANGED <<sync, done>>
             /\ \/ UNCHANGED <<aio, listed>>
                \/ \E r \in Aios \ listed : aio' \in {aio, [aio EXCEPT ![r] = "queued"]}
    <3> DEFINE r == [pc |-> "idle", op |-> "sync", ep |-> 0]
    <3>1. ft' = [ft EXCEPT ![t] = r] /\ holder' = NoThread
      BY <2>3 DEF ReleaseMutex, Leave
    <3> HIDE DEF r
    <3>2. ft'[t] = r /\ r.pc = "idle" /\ \A u \in FileThreads \ {t} : ft'[u] = ft[u]
      BY <1>b, <3>1 DEF r, EpTypeOK
    <3>3. aio' \in [Aios -> {"free", "queued", "tasklet"}]
      BY <2>3 DEF EpTypeOK
    <3>4. EpTypeOK'
      BY <1>0, <1>a, <2>3, <3>1, <3>3 DEF EpTypeOK, r
    <3>5. ASSUME NEW u \in FileThreads PROVE ThreadOK(u)'
      BY <1>0, <3>1, <3>2 DEF ThreadOK, Inside
    <3>6. SyncOK' /\ QueuedWhileEnabled'
      BY <1>0, <1>2, <1>c, <2>3 DEF SyncOK, QueuedWhileEnabled
    <3> QED
      BY <3>4, <3>5, <3>6
  <2> QED
    <3>1. ft[t].op \in {"sync", "aio", "halt"}
      BY <1>0 DEF Threads
    <3> QED
      BY <1>2, <2>1, <2>2, <2>3, <3>1 DEF Queue
<1> QED
  BY <1>0, <1>1, <1>2 DEF Submit, ReleaseMutex

(* The completion handlers, RW_CANCEL and the gadget: disabling the        *)
(* endpoint gives back what is queued.                                     *)
LEMMA UdcSteps ==
  ASSUME EpIInv,
         \/ CompleteSync \/ FileRead \/ \E r \in Aios : CompleteAio(r) \/ EpfileTask(r)
         \/ FuncBind \/ EpsDisable \/ EpsEnable \/ FuncUnbind \/ EpfilesDestroy
  PROVE  EpIInv'
<1> USE DEF EpIInv
<1>0. UNCHANGED <<ft, holder>>
  BY DEF CompleteSync, FileRead, CompleteAio, EpfileTask, FuncBind, EpsDisable, EpsEnable,
     FuncUnbind, EpfilesDestroy
<1>1. func' \in Nat /\ ep' \in Nat
  BY EpfileAssumption DEF EpTypeOK, CompleteSync, FileRead, CompleteAio, EpfileTask, FuncBind,
     EpsDisable, EpsEnable, FuncUnbind, EpfilesDestroy, udc
<1>2. /\ sync' \in {sync, NoThread} /\ (sync' # NoThread => done' = done)
      /\ aio' \in [Aios -> {"free", "queued", "tasklet"}]
      /\ \A r \in Aios : aio'[r] = "queued" => aio[r] = "queued"
  BY DEF EpTypeOK, CompleteSync, FileRead, CompleteAio, EpfileTask, FuncBind,
     EpsDisable, EpsEnable, FuncUnbind, EpfilesDestroy, udc
<1>3. QueuedWhileEnabled'
  <2>1. CASE ep' = ep \/ ep = 0
    BY <1>2, <2>1 DEF QueuedWhileEnabled
  <2>2. CASE EpsDisable
    BY <2>2 DEF EpsDisable, QueuedWhileEnabled
  <2> QED
    BY <2>1, <2>2 DEF CompleteSync, FileRead, CompleteAio, EpfileTask, FuncBind,
       EpsEnable, FuncUnbind, EpfilesDestroy
<1>4. EpTypeOK' /\ SyncOK'
  BY <1>0, <1>1, <1>2 DEF EpTypeOK, SyncOK
<1>5. ASSUME NEW t \in FileThreads PROVE ThreadOK(t)'
  BY <1>0 DEF ThreadOK
<1> QED
  BY <1>3, <1>4, <1>5

(* The end of RW_CANCEL.                                                   *)
LEMMA CancelStep == ASSUME EpIInv, NEW t \in FileThreads, Cancel(t) PROVE EpIInv'
<1> USE DEF EpIInv
<1> DEFINE r == [pc |-> "idle", op |-> "sync", ep |-> 0]
<1>1. r \in Threads /\ r.pc = "idle"
  BY DEF Threads, FilePcs
<1>2. /\ ft' = [ft EXCEPT ![t] = r] /\ ft[t].pc = "cancel" /\ UNCHANGED <<func, ep, holder, sync, done>>
  BY DEF Cancel, Leave
<1> HIDE DEF r
<1>3. ft'[t] = r /\ \A u \in FileThreads \ {t} : ft'[u] = ft[u]
  BY <1>2 DEF EpTypeOK
<1>4. /\ aio' \in [Aios -> {"free", "queued", "tasklet"}]
      /\ \A q \in Aios : aio'[q] = "queued" => aio[q] = "queued"
  BY DEF Cancel, EpTypeOK
<1>5. EpTypeOK'
  BY <1>1, <1>2, <1>4 DEF EpTypeOK
<1>6. ASSUME NEW u \in FileThreads PROVE ThreadOK(u)'
  BY <1>1, <1>2, <1>3 DEF ThreadOK, Inside
<1>7. SyncOK' /\ QueuedWhileEnabled'
  BY <1>1, <1>2, <1>3, <1>4 DEF SyncOK, QueuedWhileEnabled, EpTypeOK
<1> QED
  BY <1>5, <1>6, <1>7

(* The invariant holds in every state.                                     *)
LEMMA SpecEpIInv == EpSpec => []EpIInv
<1>1. EpInit => EpIInv
  BY DEF EpInit, EpIInv, EpTypeOK, ThreadOK, SyncOK, QueuedWhileEnabled, Threads, FilePcs, Inside
<1>2. EpIInv /\ [EpNext]_epVars => EpIInv'
  <2> SUFFICES ASSUME EpIInv, [EpNext]_epVars PROVE EpIInv'
    OBVIOUS
  <2>1. CASE UNCHANGED epVars
    BY <2>1 DEF epVars, udc, EpIInv, EpTypeOK, ThreadOK, SyncOK, QueuedWhileEnabled
  <2>2. ASSUME NEW t \in FileThreads,
               \/ FileStep(t) \/ EpWaitEnds(t) \/ GiveUp(t) \/ EnterCancel(t) \/ Cancel(t)
               \/ \E op \in {"sync", "aio", "halt"} : Enter(t, op)
        PROVE  EpIInv'
    BY <2>2, WaitingSteps, SubmitStep, CancelStep DEF FileStep
  <2> QED
    BY <2>1, <2>2, UdcSteps DEF EpNext
<1> QED
  BY <1>1, <1>2, PTL DEF EpSpec

(* However the endpoint is disabled and enabled while a thread of the      *)
(* daemon sleeps inside ffs_epfile_iorw, the UDC only has requests of an   *)
(* endpoint that is enabled.                                               *)
THEOREM QueuedEnabled == EpSpec => []QueuedWhileEnabled
<1>1. EpIInv => QueuedWhileEnabled
  BY DEF EpIInv
<1> QED
  BY <1>1, SpecEpIInv, PTL

(* The completion on a thread's stack outlives the request that has it.    *)
THEOREM CompletionAlive == EpSpec => []StackCompletionAlive
<1>1. EpIInv => StackCompletionAlive
  BY DEF EpIInv, EpTypeOK, SyncOK, ThreadOK, StackCompletionAlive, Inside
<1> QED
  BY <1>1, SpecEpIInv, PTL

-----------------------------------------------------------------------------
(* FfsMemory.                                                              *)

Areas == [id : Nat, start : Nat, size : Nat \ {0}]

Transfers == [pc : {"found", "queued"}, area : Areas, buf : Nat, length : Nat,
              rounded : BOOLEAN, freed : BOOLEAN, own : Areas]

MemTypeOK ==
  /\ areas \in Seq(Areas) /\ mapped \subseteq Areas /\ mmaps \in Nat /\ align \in {1, 2}
  /\ onEp0 \in BOOLEAN /\ reused \in BOOLEAN
  /\ transfer \in [Users -> Transfers \cup {NoTransfer}]

\* As long as no address was reused, an area on the list and a mapping that share
\* an address are the same.
OneOwnerOfAddress ==
  ~reused => \A i \in 1 .. Len(areas) : \A m \in mapped : Overlap(areas[i], m) => areas[i] = m

TransferOK(u) ==
  transfer[u] # NoTransfer =>
    /\ transfer[u].freed \/ \E i \in 1 .. Len(areas) : areas[i] = transfer[u].area
    /\ \/ transfer[u].rounded
       \/ transfer[u].buf + transfer[u].length <= transfer[u].area.start + transfer[u].area.size
    /\ reused \/ transfer[u].area = transfer[u].own

MemIInv == MemTypeOK /\ OneOwnerOfAddress /\ \A u \in Users : TransferOK(u)

(* A set of numbers has a least one.                                       *)
LEMMA LeastNumber ==
  ASSUME NEW S \in SUBSET Nat, S # {}
  PROVE  \E k \in S : \A m \in S : k <= m
<1> DEFINE R == {ss \in Nat \X Nat : ss[1] < ss[2]}
<1>1. IsWellFoundedOn(R, Nat)
  BY NatLessThanWellFounded, Zenon DEF OpToRel
<1>2. \A m, k \in S : m < k => <<m, k>> \in R
  OBVIOUS
<1> HIDE DEF R
<1>3. PICK k \in S : \A m \in S : ~ (<<m, k>> \in R)
  BY <1>1, WFMin
<1>4. \A m \in S : ~(m < k)
  BY <1>2, <1>3
<1>5. \A m \in S : m \in Nat /\ k \in Nat
  OBVIOUS
<1> QED
  BY <1>4, <1>5

(* What is found is on the list and holds the range asked for.             *)
LEMMA FirstFoundHolds ==
  ASSUME NEW buf, NEW len, areas \in Seq(Areas), Found(buf, len) # {}
  PROVE  FirstFound(buf, len) \in 1 .. Len(areas) /\ Holds(areas[FirstFound(buf, len)], buf, len)
<1>1. Found(buf, len) \in SUBSET Nat /\ \A k \in Found(buf, len) : k \in 1 .. Len(areas)
  BY DEF Found
<1>2. \E k \in Found(buf, len) : \A m \in Found(buf, len) : k <= m
  BY <1>1, LeastNumber
<1>3. FirstFound(buf, len) \in Found(buf, len)
  BY <1>2 DEF FirstFound
<1> QED
  BY <1>1, <1>3 DEF Found

(* Taking an area off the list leaves the others.                          *)
LEMMA RemovedArea ==
  ASSUME NEW k \in 1 .. Len(areas), areas \in Seq(Areas)
  PROVE  /\ RemoveAt(areas, k) \in Seq(Areas)
         /\ \A i \in 1 .. Len(RemoveAt(areas, k)) :
              \E j \in 1 .. Len(areas) : RemoveAt(areas, k)[i] = areas[j]
         /\ \A j \in 1 .. Len(areas) :
              j # k => \E i \in 1 .. Len(RemoveAt(areas, k)) : RemoveAt(areas, k)[i] = areas[j]
<1> DEFINE rest == RemoveAt(areas, k)
<1> DEFINE n == Len(areas)  front == SubSeq(areas, 1, k - 1)  back == SubSeq(areas, k + 1, n)
<1>0. n \in Nat /\ k \in 1 .. n
  OBVIOUS
<1>1. /\ front \in Seq(Areas) /\ Len(front) = k - 1
      /\ \A i \in 1 .. (k - 1) : front[i] = areas[i]
  BY SubSeqProperties
<1>2. /\ back \in Seq(Areas) /\ Len(back) = n - k
      /\ \A i \in 1 .. (n - k) : back[i] = areas[k + i]
  BY SubSeqProperties
<1>3. rest = front \o back
  BY DEF RemoveAt
<1> HIDE DEF n, front, back, rest
<1>4. /\ rest \in Seq(Areas) /\ Len(rest) = n - 1
      /\ \A i \in 1 .. (n - 1) : rest[i] = IF i < k THEN areas[i] ELSE areas[i + 1]
  <2>1. /\ rest \in Seq(Areas) /\ Len(rest) = Len(front) + Len(back)
        /\ \A i \in 1 .. (Len(front) + Len(back)) :
             rest[i] = IF i <= Len(front) THEN front[i] ELSE back[i - Len(front)]
    BY <1>1, <1>2, <1>3, ConcatProperties
  <2>2. ASSUME NEW i \in 1 .. (n - 1) PROVE rest[i] = IF i < k THEN areas[i] ELSE areas[i + 1]
    <3>1. CASE i < k
      <4>1. i \in 1 .. (k - 1) /\ i <= Len(front) /\ i \in 1 .. (Len(front) + Len(back))
        BY <1>0, <1>1, <1>2, <3>1
      <4>2. rest[i] = front[i]
        BY <2>1, <4>1
      <4> QED
        BY <1>1, <3>1, <4>1, <4>2
    <3>2. CASE i >= k
      <4>1. i - (k - 1) \in 1 .. (n - k) /\ k + (i - (k - 1)) = i + 1
        BY <1>0, <3>2
      <4>2. ~(i <= Len(front)) /\ i \in 1 .. (Len(front) + Len(back)) /\ Len(front) = k - 1
        BY <1>0, <1>1, <1>2, <3>2
      <4>3. rest[i] = back[i - (k - 1)]
        BY <2>1, <4>2
      <4>4. back[i - (k - 1)] = areas[i + 1] /\ ~(i < k)
        BY <1>0, <1>2, <3>2, <4>1
      <4> QED
        BY <4>3, <4>4
    <3> QED
      BY <1>0, <3>1, <3>2
  <2> QED
    BY <1>0, <1>1, <1>2, <2>1, <2>2
<1>5. ASSUME NEW j \in 1 .. n, j # k PROVE \E i \in 1 .. (n - 1) : rest[i] = areas[j]
  <2>1. CASE j < k
    BY <1>0, <1>4, <2>1
  <2>2. CASE j > k
    <3>1. j - 1 \in 1 .. (n - 1) /\ ~(j - 1 < k) /\ (j - 1) + 1 = j
      BY <1>0, <2>2
    <3> QED
      BY <1>4, <3>1
  <2> QED
    BY <1>0, <1>5, <2>1, <2>2
<1>6. ASSUME NEW i \in 1 .. (n - 1) PROVE \E j \in 1 .. n : rest[i] = areas[j]
  BY <1>0, <1>4
<1> QED
  BY <1>0, <1>4, <1>5, <1>6 DEF n, rest

(* mmap: the new area is the only one at its addresses, or one was reused. *)
LEMMA MmapStep == ASSUME MemIInv, Mmap PROVE MemIInv'
<1> USE DEF MemIInv
<1>1. PICK a \in Areas : (\A m \in mapped : ~Overlap(a, m)) /\ NewArea(a)
  <2>1. PICK start \in 0 .. (MaxAddr - 1), size \in 1 .. MaxAddr :
          LET a == [id |-> mmaps + 1, start |-> start, size |-> size] IN
          (\A m \in mapped : ~Overlap(a, m)) /\ NewArea(a)
    BY DEF Mmap
  <2>2. [id |-> mmaps + 1, start |-> start, size |-> size] \in Areas
    BY MemAssumption DEF MemTypeOK, Areas
  <2> QED
    BY <2>1, <2>2
<1>2. /\ areas' = Append(areas, a) /\ mapped' = mapped \cup {a} /\ mmaps' = mmaps + 1
      /\ reused' = (reused \/ \E b \in ToSet(areas) : Overlap(a, b))
      /\ UNCHANGED <<onEp0, align, transfer>>
  BY <1>1 DEF NewArea
<1>3. /\ areas' \in Seq(Areas) /\ Len(areas) \in Nat /\ Len(areas') = Len(areas) + 1
      /\ areas'[Len(areas) + 1] = a /\ \A i \in 1 .. Len(areas) : areas'[i] = areas[i]
  BY <1>2 DEF MemTypeOK
<1>4. ~reused' => ~reused /\ \A i \in 1 .. Len(areas) : ~Overlap(a, areas[i])
  <2>1. \A i \in 1 .. Len(areas) : areas[i] \in ToSet(areas)
    BY DEF ToSet, MemTypeOK
  <2> QED
    BY <1>2, <2>1
<1>5. MemTypeOK'
  <2>1. reused' \in BOOLEAN
    BY <1>2
  <2> QED
    BY <1>2, <1>3, <2>1 DEF MemTypeOK
<1>6. OneOwnerOfAddress'
  <2> SUFFICES ASSUME ~reused', NEW i \in 1 .. Len(areas'), NEW m \in mapped', Overlap(areas'[i], m)
               PROVE  areas'[i] = m
    BY DEF OneOwnerOfAddress
  <2>1. CASE i = Len(areas) + 1
    BY <1>1, <1>2, <1>3, <2>1
  <2>2. CASE i \in 1 .. Len(areas) /\ m \in mapped
    BY <1>2, <1>3, <1>4, <2>2 DEF OneOwnerOfAddress
  <2>3. CASE i \in 1 .. Len(areas) /\ m = a
    <3>1. areas'[i] = areas[i] /\ ~Overlap(a, areas[i])
      BY <1>3, <1>4, <2>3
    <3> QED
      BY <2>3, <3>1 DEF Overlap
  <2> QED
    BY <1>2, <1>3, <2>1, <2>2, <2>3
<1>7. ASSUME NEW u \in Users PROVE TransferOK(u)'
  <2>1. reused => reused'
    BY <1>2
  <2> QED
    BY <1>2, <1>3, <2>1 DEF TransferOK
<1> QED
  BY <1>5, <1>6, <1>7

(* munmap leaves the list alone.                                           *)
LEMMA MunmapStep == ASSUME MemIInv, Munmap PROVE MemIInv'
<1> USE DEF MemIInv
<1>1. mapped' \subseteq mapped /\ UNCHANGED <<onEp0, align, areas, mmaps, transfer, reused>>
  BY DEF Munmap
<1>2. MemTypeOK'
  BY <1>1 DEF MemTypeOK
<1>4. OneOwnerOfAddress'
  BY <1>1 DEF OneOwnerOfAddress
<1>3. ASSUME NEW u \in Users PROVE TransferOK(u)'
  BY <1>1 DEF TransferOK
<1> QED
  BY <1>2, <1>3, <1>4

(* RELEASE_BUF takes one area off the list and marks who still uses it.    *)
LEMMA ReleaseStep ==
  ASSUME MemIInv, NEW k \in 1 .. Len(areas), FreeArea(k) PROVE MemIInv'
<1> USE DEF MemIInv
<1>0. /\ areas' = RemoveAt(areas, k) /\ UNCHANGED <<onEp0, align, mapped, mmaps, reused>>
      /\ transfer' = [u \in Users |-> IF transfer[u] # NoTransfer /\ transfer[u].area = areas[k]
                                      THEN [transfer[u] EXCEPT !.freed = TRUE] ELSE transfer[u]]
  BY DEF FreeArea
<1>1. /\ areas' \in Seq(Areas)
      /\ \A i \in 1 .. Len(areas') : \E j \in 1 .. Len(areas) : areas'[i] = areas[j]
      /\ \A j \in 1 .. Len(areas) : j # k => \E i \in 1 .. Len(areas') : areas'[i] = areas[j]
  <2>1. areas \in Seq(Areas)
    BY DEF MemTypeOK
  <2>2. areas' = RemoveAt(areas, k)
    BY <1>0
  <2> QED
    BY <2>1, <2>2, RemovedArea
<1>2. ASSUME NEW u \in Users, transfer[u] # NoTransfer
      PROVE  /\ transfer'[u] \in Transfers
             /\ transfer'[u].area = transfer[u].area /\ transfer'[u].own = transfer[u].own
             /\ transfer'[u].buf = transfer[u].buf /\ transfer'[u].length = transfer[u].length
             /\ transfer'[u].rounded = transfer[u].rounded
             /\ transfer'[u].freed = (transfer[u].freed \/ transfer[u].area = areas[k])
  <2>1. transfer[u] \in Transfers
    BY <1>2 DEF MemTypeOK
  <2>2. CASE transfer[u].area = areas[k]
    <3>1. transfer'[u] = [transfer[u] EXCEPT !.freed = TRUE]
      BY <1>0, <1>2, <2>2
    <3> QED
      BY <2>1, <2>2, <3>1 DEF Transfers
  <2>3. CASE transfer[u].area # areas[k]
    <3>1. transfer'[u] = transfer[u]
      BY <1>0, <1>2, <2>3
    <3>2. transfer[u].freed = (transfer[u].freed \/ transfer[u].area = areas[k])
      BY <2>1, <2>3 DEF Transfers
    <3> QED
      BY <2>1, <3>1, <3>2
  <2> QED
    BY <2>2, <2>3
<1>3. \A u \in Users : transfer[u] = NoTransfer => transfer'[u] = NoTransfer
  BY <1>0
<1>4. MemTypeOK'
  <2>1. \A u \in Users : transfer'[u] \in Transfers \cup {NoTransfer}
    BY <1>2, <1>3
  <2>2. transfer' = [u \in Users |-> transfer'[u]]
    BY <1>0
  <2>3. transfer' \in [Users -> Transfers \cup {NoTransfer}]
    BY <2>1, <2>2
  <2> QED
    BY <1>0, <1>1, <2>3 DEF MemTypeOK
<1>5. OneOwnerOfAddress'
  BY <1>0, <1>1 DEF OneOwnerOfAddress
<1>6. ASSUME NEW u \in Users PROVE TransferOK(u)'
  <2> SUFFICES ASSUME transfer[u] # NoTransfer PROVE TransferOK(u)'
    BY <1>3 DEF TransferOK
  <2>1. TransferOK(u)
    OBVIOUS
  <2>2. transfer'[u].freed \/ \E i \in 1 .. Len(areas') : areas'[i] = transfer[u].area
    <3>1. CASE transfer[u].area = areas[k]
      BY <1>2, <3>1
    <3>2. CASE transfer[u].area # areas[k] /\ ~transfer[u].freed
      <4>1. PICK j \in 1 .. Len(areas) : areas[j] = transfer[u].area
        BY <2>1, <3>2 DEF TransferOK
      <4> QED
        BY <1>1, <3>2, <4>1
    <3> QED
      BY <1>2, <3>1, <3>2
  <2> QED
    BY <1>0, <1>2, <2>1, <2>2 DEF TransferOK
<1> QED
  BY <1>4, <1>5, <1>6

(* A transfer is of the area its owner sees: both hold its first byte.     *)
LEMMA TransferStep == ASSUME MemIInv, NEW u \in Users, Transfer(u) PROVE MemIInv'
<1>0. PICK m \in mapped, buf \in 0 .. (MaxAddr - 1), len \in 1 .. MaxAddr, read \in BOOLEAN :
        /\ transfer[u] = NoTransfer /\ Holds(m, buf, 1) /\ Found(buf, len) # {}
        /\ LET a == areas[FirstFound(buf, len)]
               length == IF read /\ ~onEp0 THEN ((len + align - 1) \div align) * align ELSE len
           IN transfer' = [transfer EXCEPT ![u] =
                [pc |-> IF onEp0 THEN "found" ELSE "queued", area |-> a, buf |-> buf,
                 length |-> length, rounded |-> length > len, freed |-> FALSE, own |-> m]]
        /\ UNCHANGED <<onEp0, align, areas, mapped, mmaps, reused>>
  BY ZenonT(30) DEF Transfer
<1> USE DEF MemIInv
<1>a. UNCHANGED <<onEp0, align, areas, mapped, mmaps, reused>> /\ Holds(m, buf, 1)
  BY <1>0
<1>1. PICK i \in 1 .. Len(areas) : i = FirstFound(buf, len) /\ Holds(areas[i], buf, len)
  BY <1>0, FirstFoundHolds DEF MemTypeOK
<1>2. PICK a \in Areas : a = areas[i]
  BY DEF MemTypeOK
<1>3. PICK length \in Nat :
        length = IF read /\ ~onEp0 THEN ((len + align - 1) \div align) * align ELSE len
  <2>1. ((len + 1 - 1) \div 1) * 1 \in Nat /\ ((len + 2 - 1) \div 2) * 2 \in Nat /\ len \in Nat
    BY MemAssumption
  <2> QED
    BY <2>1 DEF MemTypeOK
<1>4. PICK r \in Transfers : /\ transfer' = [transfer EXCEPT ![u] = r]
                             /\ r.area = a /\ r.own = m /\ r.buf = buf /\ r.length = length
                             /\ (r.rounded \/ length <= len)
  <2> DEFINE q == [pc |-> IF onEp0 THEN "found" ELSE "queued", area |-> a, buf |-> buf,
                 length |-> length, rounded |-> length > len, freed |-> FALSE, own |-> m]
  <2>1. buf \in Nat /\ m \in Areas /\ len \in Nat
    BY MemAssumption DEF MemTypeOK
  <2>2. q \in Transfers
    BY <2>1 DEF Transfers
  <2>3. transfer' = [transfer EXCEPT ![u] = q]
    BY <1>0, <1>1, <1>2, <1>3
  <2>4. /\ q.area = a /\ q.own = m /\ q.buf = buf /\ q.length = length
        /\ q.rounded = (length > len)
    OBVIOUS
  <2>5. q.rounded \/ length <= len
    <3>1. length > len \/ length <= len
      BY <2>1
    <3> QED
      BY <2>4, <3>1
  <2> HIDE DEF q
  <2> QED
    BY <2>2, <2>3, <2>4, <2>5
<1>5. transfer'[u] = r /\ \A v \in Users \ {u} : transfer'[v] = transfer[v]
  BY <1>4 DEF MemTypeOK
<1>6. MemTypeOK'
  BY <1>a, <1>4 DEF MemTypeOK
<1>7. OneOwnerOfAddress'
  BY <1>a DEF OneOwnerOfAddress
<1>8. ASSUME NEW v \in Users \ {u} PROVE TransferOK(v)'
  BY <1>a, <1>5 DEF TransferOK
<1>9. TransferOK(u)'
  <2>1. buf + len <= a.start + a.size
    BY <1>1, <1>2, MemAssumption DEF Holds, Areas
  <2>2. reused \/ a = m
    <3>1. m \in Areas
      BY DEF MemTypeOK
    <3>2. Overlap(a, m)
      <4>1. /\ a.start \in Nat /\ a.size \in Nat /\ m.start \in Nat /\ m.size \in Nat /\ buf \in Nat
        BY <3>1, MemAssumption DEF Areas
      <4>2. m.start <= buf /\ buf < m.start + m.size
        BY <1>a, <4>1 DEF Holds
      <4>3. a.start <= buf /\ buf < a.start + a.size
        BY <1>1, <1>2, <4>1 DEF Holds
      <4>4. a.start < m.start + m.size /\ m.start < a.start + a.size
        BY ONLY <4>1, <4>2, <4>3
      <4> QED
        BY ONLY <4>4 DEF Overlap
    <3> QED
      BY <1>2, <3>2 DEF OneOwnerOfAddress
  <2>3. r.rounded \/ buf + length <= a.start + a.size
    <3>1. a.start \in Nat /\ a.size \in Nat /\ buf \in Nat /\ len \in Nat
      BY MemAssumption DEF Areas
    <3>2. length <= len => buf + length <= a.start + a.size
      BY <2>1, <3>1
    <3> QED
      BY <1>4, <3>2
  <2> QED
    BY <1>a, <1>2, <1>4, <1>5, <2>2, <2>3 DEF TransferOK
<1> QED
  BY <1>6, <1>7, <1>8, <1>9

(* A transfer is queued or ends; its memory stays what it was.             *)
LEMMA TransferMoves ==
  ASSUME MemIInv, NEW u \in Users, QueueOnEp0(u) \/ TransferEnds(u) PROVE MemIInv'
<1> USE DEF MemIInv
<1>1. UNCHANGED <<onEp0, align, areas, mapped, mmaps, reused>>
  BY DEF QueueOnEp0, TransferEnds
<1>2. transfer[u] \in Transfers
  <2>1. transfer[u].pc \in {"found", "queued"} /\ NoTransfer.pc = "none"
    BY DEF QueueOnEp0, TransferEnds, NoTransfer
  <2> QED
    BY <2>1 DEF MemTypeOK
<1>3. PICK r \in Transfers \cup {NoTransfer} :
        /\ transfer' = [transfer EXCEPT ![u] = r]
        /\ r = NoTransfer \/ (/\ r.area = transfer[u].area /\ r.own = transfer[u].own
                              /\ r.buf = transfer[u].buf /\ r.length = transfer[u].length
                              /\ r.rounded = transfer[u].rounded /\ r.freed = transfer[u].freed)
  <2>1. CASE QueueOnEp0(u)
    <3> DEFINE q == [transfer[u] EXCEPT !.pc = "queued"]
    <3>1. /\ q \in Transfers /\ q.area = transfer[u].area /\ q.own = transfer[u].own
          /\ q.buf = transfer[u].buf /\ q.length = transfer[u].length
          /\ q.rounded = transfer[u].rounded /\ q.freed = transfer[u].freed
      BY <1>2 DEF Transfers
    <3>2. transfer' = [transfer EXCEPT ![u] = q]
      BY <2>1 DEF QueueOnEp0
    <3> HIDE DEF q
    <3> QED
      BY <3>1, <3>2
  <2>2. CASE TransferEnds(u)
    BY <2>2 DEF TransferEnds
  <2> QED
    BY <2>1, <2>2
<1>4. transfer'[u] = r /\ \A v \in Users \ {u} : transfer'[v] = transfer[v]
  BY <1>3 DEF MemTypeOK
<1>5. MemTypeOK'
  BY <1>1, <1>3 DEF MemTypeOK
<1>6. OneOwnerOfAddress'
  BY <1>1 DEF OneOwnerOfAddress
<1>7. ASSUME NEW v \in Users \ {u} PROVE TransferOK(v)'
  BY <1>1, <1>4 DEF TransferOK
<1>8. TransferOK(u)'
  <2>1. transfer[u] # NoTransfer
    <3>1. transfer[u].pc \in {"found", "queued"} /\ NoTransfer.pc = "none"
      BY DEF QueueOnEp0, TransferEnds, NoTransfer
    <3> QED
      BY <3>1
  <2>2. TransferOK(u)
    OBVIOUS
  <2> QED
    BY <1>1, <1>3, <1>4, <2>1, <2>2 DEF TransferOK
<1> QED
  BY <1>5, <1>6, <1>7, <1>8

(* A transfer's memory is its owner's and allocated, unless RELEASE_BUF    *)
(* came in between, a read was rounded up or an address had been reused,   *)
(* and until two RELEASE_BUFs on ep0 free one area twice.                  *)
THEOREM MemoryOwned == MemSpec => []TransferInMemory
<1>1. MemInit => MemIInv
  <2> SUFFICES ASSUME MemInit PROVE MemIInv
    OBVIOUS
  <2>1. MemTypeOK
    <3>1. transfer \in [Users -> Transfers \cup {NoTransfer}]
      BY DEF MemInit
    <3>2. areas \in Seq(Areas) /\ mapped \subseteq Areas /\ mmaps \in Nat
      BY DEF MemInit
    <3> QED
      BY <3>1, <3>2 DEF MemInit, MemTypeOK
  <2> QED
    BY <2>1 DEF MemInit, MemIInv, OneOwnerOfAddress, TransferOK
<1>2. MemIInv /\ [MemNext]_memVars => MemIInv'
  <2> SUFFICES ASSUME MemIInv, [MemNext]_memVars PROVE MemIInv'
    OBVIOUS
  <2>1. CASE UNCHANGED <<onEp0, align, areas, mapped, mmaps, transfer, reused>>
    <3>1. UNCHANGED <<onEp0, align, areas, mapped, mmaps, transfer, reused>>
      BY <2>1
    <3>2. \A u \in Users : TransferOK(u)'
      BY <3>1 DEF MemIInv, TransferOK
    <3> QED
      BY <3>1, <3>2 DEF MemIInv, MemTypeOK, OneOwnerOfAddress
  <2>0. areas \in Seq(Areas) /\ DOMAIN areas = 1 .. Len(areas)
    BY DEF MemIInv, MemTypeOK
  <2>2. ASSUME NEW k \in DOMAIN areas, FreeArea(k) PROVE MemIInv'
    BY <2>0, <2>2, ReleaseStep
  <2>3. CASE ReleaseBuf
    <3>1. PICK buf, len : Found(buf, len) # {} /\ FreeArea(FirstFound(buf, len))
      BY <2>3 DEF ReleaseBuf
    <3> QED
      BY <2>0, <2>2, <3>1, FirstFoundHolds
  <2>4. ASSUME NEW r \in Releasers, FindToRelease(r) \/ ReleaseFound(r) PROVE MemIInv'
    BY <2>1, <2>2, <2>4 DEF FindToRelease, ReleaseFound
  <2>5. CASE UNCHANGED memVars
    BY <2>1, <2>5 DEF memVars
  <2> QED
    BY <2>3, <2>4, <2>5, MmapStep, MunmapStep, TransferStep, TransferMoves DEF MemNext
<1>3. MemIInv => TransferInMemory
  <2> SUFFICES ASSUME MemIInv, NEW u \in Users, transfer[u] # NoTransfer
               PROVE  LET t == transfer[u] IN
                      /\ t.freed \/ t.area \in ToSet(areas)
                      /\ t.rounded \/ t.buf + t.length <= t.area.start + t.area.size
                      /\ reused \/ t.area = t.own
    BY DEF TransferInMemory
  <2>1. \A i \in 1 .. Len(areas) : areas[i] \in ToSet(areas)
    BY DEF ToSet, MemIInv, MemTypeOK
  <2> QED
    BY <2>1 DEF MemIInv, TransferOK
<1> QED
  BY <1>1, <1>2, <1>3, PTL DEF MemSpec
=============================================================================
