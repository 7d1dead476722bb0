-------------------------------- MODULE FfsPoll --------------------------------
(***************************************************************************)
(* poll(2) on the files of a USB function (f_generic.c): the call enters   *)
(* the caller in a wait queue, looks whether there is something to read,   *)
(* and sleeps if not; once woken it looks again without entering anew.     *)
(* What it waits for is stored first and the queue woken afterwards, on    *)
(* another processor.                                                      *)
(*                                                                         *)
(* An endpoint file has one queue and its FIFO of finished transfers.  ep0 *)
(* has two: events when no control request is pending, finished transfers   *)
(* while one is.  On ep0 the daemon has one thread: with a second one that *)
(* reads, setup_state can change under a sleeper that entered the queue of *)
(* the other state, and nobody tells it.                                   *)
(***************************************************************************)
EXTENDS Naturals

CONSTANTS Pollers,   \* threads; one of them uses ep0
          Daemon,    \* that one
          MaxCount   \* capacity of ev.types and of the FIFO

ASSUME PollAssumption == Daemon \in Pollers /\ MaxCount \in Nat

VARIABLES file,      \* ep0 or epfile
          setup_state, \* ep0: ffs->setup_state
          ready,     \* per queue: events, finished transfers
          wakes,     \* queues whose wake-up is still to come
          poller     \* per thread: pc, the queue it entered, the kernel's triggered flag

pollVars == <<file, setup_state, ready, wakes, poller>>

Out == [pc |-> "out", queue |-> "none", triggered |-> FALSE]

PollInit ==
  /\ file \in {"ep0", "epfile"} /\ setup_state = "NO_SETUP"
  /\ ready = [q \in {"events", "transfers"} |-> 0] /\ wakes = {}
  /\ poller = [p \in Pollers |-> Out]

\* The queue, and what makes the file readable or the answer there, now.
Waitq == IF file = "ep0" /\ setup_state = "NO_SETUP" THEN "events" ELSE "transfers"

-----------------------------------------------------------------------------
\* ffs_ep0_poll and ffs_epfile_poll: poll_wait, then the test.  ep0 is ACTIVE.
PollWait(p) ==
  /\ poller[p].pc = "out" /\ (file = "ep0" => p = Daemon)
  /\ poller' = [poller EXCEPT ![p] = [@ EXCEPT !.pc = "test", !.queue = Waitq]]
  /\ UNCHANGED <<file, setup_state, ready, wakes>>

Test(p) ==
  /\ poller[p].pc = "test"
  /\ poller' = [poller EXCEPT ![p] = IF ready[Waitq] > 0 THEN Out ELSE [@ EXCEPT !.pc = "asleep"]]
  /\ UNCHANGED <<file, setup_state, ready, wakes>>

\* do_poll: the flag is cleared before the files are asked again.
Woken(p) ==
  /\ poller[p].pc = "asleep" /\ poller[p].triggered
  /\ poller' = [poller EXCEPT ![p] = [@ EXCEPT !.pc = "test", !.triggered = FALSE]]
  /\ UNCHANGED <<file, setup_state, ready, wakes>>

TimedOut(p) ==
  /\ poller[p].pc = "asleep" /\ poller' = [poller EXCEPT ![p] = Out]
  /\ UNCHANGED <<file, setup_state, ready, wakes>>

\* ffs_epfile_read takes part of the FIFO; ffs_ep0_read the events, of which the
\* last may be a SETUP, or the notice of a cancelled request, or stalls.
PollRead(p) ==
  /\ poller[p].pc = "out" /\ UNCHANGED <<file, wakes, poller>>
  /\ \/ /\ file = "epfile" /\ UNCHANGED setup_state
        /\ \E n \in 0 .. ready["transfers"] : ready' = [ready EXCEPT !["transfers"] = n]
     \/ /\ file = "ep0" /\ p = Daemon /\ setup_state = "NO_SETUP" /\ ready["events"] > 0
        /\ \E n \in 0 .. (ready["events"] - 1) : ready' = [ready EXCEPT !["events"] = n]
        /\ setup_state' \in {"NO_SETUP", "PENDING"}
     \/ /\ file = "ep0" /\ p = Daemon /\ setup_state # "NO_SETUP"
        /\ setup_state' = "NO_SETUP" /\ UNCHANGED ready

\* FUNCTIONFS_ENDPOINT_GET_EP0_EVENT takes a finished transfer and ends the request.
GetEp0Event ==
  /\ file = "ep0" /\ poller[Daemon].pc = "out" /\ ready["transfers"] > 0
  /\ ready' = [ready EXCEPT !["transfers"] = @ - 1] /\ setup_state' = "NO_SETUP"
  /\ UNCHANGED <<file, wakes, poller>>

-----------------------------------------------------------------------------
Stored(q) == [ready EXCEPT ![q] = IF @ < MaxCount THEN @ + 1 ELSE @]

\* Whom a wake-up of q reaches.
Told(q) == [p \in Pollers |-> IF poller[p].pc # "out" /\ poller[p].queue = q
                                THEN [poller[p] EXCEPT !.triggered = TRUE] ELSE poller[p]]

\* Fault: the sleepers are woken before it is there for them.
NoticeWakesFirst(q, stored) ==
  \/ ~stored /\ poller' = Told(q) /\ UNCHANGED ready
  \/ stored /\ ready' = Stored(q) /\ UNCHANGED poller

\* What is to be told is stored, then q is woken.
Notice(q, stored) ==
  \/ ~stored /\ ready' = Stored(q) /\ UNCHANGED poller
  \/ stored /\ poller' = Told(q) /\ UNCHANGED ready

\* __ffs_event_add, its purge left to FfsEvents.
PollEvent ==
  /\ file = "ep0" /\ "events" \notin wakes
  /\ Notice("events", FALSE) /\ wakes' = wakes \cup {"events"}
  /\ setup_state' = IF setup_state = "PENDING" THEN "CANCELLED" ELSE setup_state
  /\ UNCHANGED file

\* epfile_task_proc, ffs_ep0_async_io_complete: kfifo_in, which drops what does
\* not fit, then the wake-up.
Finished ==
  /\ "transfers" \notin wakes
  /\ Notice("transfers", FALSE) /\ wakes' = wakes \cup {"transfers"}
  /\ UNCHANGED <<file, setup_state>>

WakeUp(q) ==
  /\ q \in wakes /\ Notice(q, TRUE) /\ wakes' = wakes \ {q}
  /\ UNCHANGED <<file, setup_state>>

PollNext ==
  \/ \E p \in Pollers : PollWait(p) \/ Test(p) \/ Woken(p) \/ TimedOut(p) \/ PollRead(p)
  \/ GetEp0Event \/ PollEvent \/ Finished \/ \E q \in {"events", "transfers"} : WakeUp(q)

PollSpec == PollInit /\ [][PollNext]_pollVars

-----------------------------------------------------------------------------
(* No wake-up is lost: a thread does not sleep in poll while what it       *)
(* entered a queue for is there, unless its wake-up is on its way.         *)
PollerTold ==
  \A p \in Pollers :
    poller[p].pc = "asleep" /\ ~poller[p].triggered /\ poller[p].queue \notin wakes
      => ready[poller[p].queue] = 0
=============================================================================
