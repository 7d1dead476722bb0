-------------------------------- MODULE MipiTxDev --------------------------------
(***************************************************************************)
(* The character device of the MIPI DSI transmitter (mipi_tx_dev.c).  A    *)
(* slot per controller keeps what open found, the misc device and a        *)
(* semaphore for ioctl; which slot a call means is the global g_curId,     *)
(* whatever file it came through.                                          *)
(*                                                                         *)
(* ioctl waits with down_interruptible, ignores its result and always ups: *)
(* a signal lets a thread in without the semaphore, and the semaphore gains*)
(* a unit for good.  The model has this, and MutualExclusion excepts it.   *)
(* Before the first sema_init of a slot a down is undefined and left out.  *)
(***************************************************************************)
EXTENDS Naturals

CONSTANTS DsiTasks,   \* threads, each with one file
          DsiIds,     \* controllers, 0 .. MAX_CNTLR_CNT - 1
          NoCntlr

ASSUME DsiAssumption == DsiIds \subseteq Nat /\ 0 \in DsiIds /\ NoCntlr \notin Nat

VARIABLES curId,      \* g_curId
          cntlr,      \* per slot: the controller found by the last open
          misc,       \* per slot: none, coming (registered), live (MipiDsiDevModuleInit is through)
          sem,        \* per slot: the semaphore's count; NoCntlr before sema_init
          task,       \* per thread: where it is, and what ioctl looked up
          spoiled     \* history: slots where the semaphore was upped or initialised
                      \* beyond the downs

dsiVars == <<curId, cntlr, misc, sem, task, spoiled>>

Closed == [pc |-> "closed", cntlr |-> NoCntlr, sem |-> 0]

DsiInit ==
  /\ curId = 0 /\ cntlr = [i \in DsiIds |-> NoCntlr] /\ misc = [i \in DsiIds |-> "none"]
  /\ sem = [i \in DsiIds |-> NoCntlr] /\ spoiled = {}
  /\ task = [t \in DsiTasks |-> Closed]

\* The threads between the down and the up on slot i's semaphore.
Within(i) == {t \in DsiTasks : task[t].pc = "inside" /\ task[t].sem = i}

\* MipiDsiDevModuleInit: the device can be opened before the semaphore is there.
RegisterDevice(i) ==
  /\ misc[i] = "none" /\ misc' = [misc EXCEPT ![i] = "coming"] /\ curId' = i
  /\ UNCHANGED <<cntlr, sem, task, spoiled>>

SemaInit(i) ==
  /\ misc[i] = "coming" /\ misc' = [misc EXCEPT ![i] = "live"]
  /\ sem' = [sem EXCEPT ![i] = 1]
  /\ spoiled' = IF Within(i) = {} THEN spoiled ELSE spoiled \cup {i}
  /\ UNCHANGED <<curId, cntlr, task>>

\* ProcRegister fails after RegisterDevice, or MipiDsiDevModuleExit.  Open files go on.
UnregisterDevice(i) ==
  /\ misc[i] # "none" /\ misc' = [misc EXCEPT ![i] = "none"] /\ curId' = 0
  /\ UNCHANGED <<cntlr, sem, task, spoiled>>

\* MipiDsiCntlrOpen finds the controller or not.
MipiDsiDevOpen(t) ==
  /\ task[t].pc = "closed" /\ \E i \in DsiIds : misc[i] # "none"
  /\ task' = [task EXCEPT ![t].pc = "open"]
  /\ \E c \in {curId, NoCntlr} : cntlr' = [cntlr EXCEPT ![curId] = c]
  /\ UNCHANGED <<curId, misc, sem, spoiled>>

\* The slot keeps its pointer.
MipiDsiDevRelease(t) ==
  /\ task[t].pc = "open" /\ task' = [task EXCEPT ![t].pc = "closed"]
  /\ UNCHANGED <<curId, cntlr, misc, sem, spoiled>>

\* MipiDsiDevIoctl: the controller and the semaphore are looked up one after the other.
GetCntlr(t) ==
  /\ task[t].pc = "open" /\ cntlr[curId] # NoCntlr
  /\ task' = [task EXCEPT ![t] = [@ EXCEPT !.pc = "lookup", !.cntlr = cntlr[curId]]]
  /\ UNCHANGED <<curId, cntlr, misc, sem, spoiled>>

GetSema(t) ==
  /\ task[t].pc = "lookup" /\ task' = [task EXCEPT ![t] = [@ EXCEPT !.pc = "down", !.sem = curId]]
  /\ UNCHANGED <<curId, cntlr, misc, sem, spoiled>>

SemaDown(t) ==
  LET i == task[t].sem IN
  /\ task[t].pc = "down" /\ sem[i] \in Nat \ {0}
  /\ sem' = [sem EXCEPT ![i] = @ - 1] /\ task' = [task EXCEPT ![t].pc = "inside"]
  /\ UNCHANGED <<curId, cntlr, misc, spoiled>>

\* A signal ends the wait.
SemaInterrupted(t) ==
  /\ task[t].pc = "down" /\ sem[task[t].sem] = 0
  /\ task' = [task EXCEPT ![t].pc = "inside"] /\ spoiled' = spoiled \cup {task[t].sem}
  /\ UNCHANGED <<curId, cntlr, misc, sem>>

\* Of the commands only MipiDsiDevSetCfg changes this module's state.
SetCfg(t) ==
  /\ task[t].pc = "inside" /\ curId' = task[t].cntlr
  /\ UNCHANGED <<cntlr, misc, sem, task, spoiled>>

\* Fault: the semaphore is looked up again.
SemaUpCurrent(t) ==
  /\ task[t].pc = "inside" /\ sem[curId] \in Nat
  /\ sem' = [sem EXCEPT ![curId] = @ + 1] /\ task' = [task EXCEPT ![t] = [Closed EXCEPT !.pc = "open"]]
  /\ UNCHANGED <<curId, cntlr, misc, spoiled>>

SemaUp(t) ==
  /\ task[t].pc = "inside"
  /\ sem' = [sem EXCEPT ![task[t].sem] = @ + 1] /\ task' = [task EXCEPT ![t] = [Closed EXCEPT !.pc = "open"]]
  /\ UNCHANGED <<curId, cntlr, misc, spoiled>>

DsiNext ==
  \/ \E i \in DsiIds : RegisterDevice(i) \/ SemaInit(i) \/ UnregisterDevice(i)
  \/ \E t \in DsiTasks :
       \/ MipiDsiDevOpen(t) \/ MipiDsiDevRelease(t) \/ GetCntlr(t) \/ GetSema(t)
       \/ SemaDown(t) \/ SemaInterrupted(t) \/ SetCfg(t) \/ SemaUp(t)

DsiSpec == DsiInit /\ [][DsiNext]_dsiVars

-----------------------------------------------------------------------------
(* MipiDsiDevIoctl runs the commands of two threads that took one semaphore *)
(* one after the other, whatever g_curId does meanwhile and however often   *)
(* devices are opened, registered and removed - as long as no signal has    *)
(* ended a wait for that semaphore and nobody was inside at its sema_init.  *)
MutualExclusion ==
  \A i \in DsiIds \ spoiled : \A s, t \in Within(i) : s = t
==============================================================================
