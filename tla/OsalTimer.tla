--------------------------------- MODULE OsalTimer ---------------------------------
(***************************************************************************)
(* The OSAL timer (osal_timer.c): struct osal_ktimer around a kernel       *)
(* timer.  OsalTimerDelete only sets stop_flag; the memory is freed by the *)
(* timer's callback, the next time it runs.                                *)
(*                                                                         *)
(* One client with one OsalTimer makes timers one after another; several   *)
(* of them can be alive at once.  Its calls run beside the callbacks, on   *)
(* another processor or from within func.  A kernel timer's callback does  *)
(* not run beside itself.  The sections under the mutex are so short that  *)
(* waiting for it is left out; so is the period (OsalTimerSetTimeout).     *)
(***************************************************************************)
EXTENDS Naturals

CONSTANTS Timers,   \* addresses of struct osal_ktimer
          NoTimer

ASSUME TimerAssumption == NoTimer \notin Timers

VARIABLES kt,        \* per address: the struct, the kernel timer, the callback
          realTimer, \* the client's OsalTimer
          deleting,  \* what a thread between the halves of OsalTimerDelete points to
          late,      \* per address: calls of func begun since stop_flag was set
          gone       \* history: addresses the callback freed between the halves

tmVars == <<kt, realTimer, deleting, late, gone>>

Modes == {"once", "loop"}

Free == [alive |-> FALSE, started |-> FALSE, mode |-> "once", stop |-> FALSE,
         armed |-> FALSE, cb |-> "idle", read |-> "once"]

TmInit ==
  /\ kt = [k \in Timers |-> Free] /\ realTimer = NoTimer /\ deleting = NoTimer
  /\ late = [k \in Timers |-> 0] /\ gone = {}

\* A failed allocation leaves realTimer NULL.
OsalTimerCreate ==
  /\ realTimer = NoTimer /\ deleting = NoTimer
  /\ \E k \in Timers : /\ ~kt[k].alive /\ k \notin gone
                       /\ kt' = [kt EXCEPT ![k] = [Free EXCEPT !.alive = TRUE]]
                       /\ late' = [late EXCEPT ![k] = 0] /\ realTimer' = k
  /\ UNCHANGED <<deleting, gone>>

\* A timer is started again only when it is not armed: add_timer insists.  While
\* its callback runs that is done from within func.
OsalTimerStart(mode) ==
  /\ realTimer # NoTimer /\ deleting = NoTimer
  /\ ~kt[realTimer].armed /\ kt[realTimer].cb \in {"idle", "func"}
  /\ kt' = [kt EXCEPT ![realTimer] =
       [kt[realTimer] EXCEPT !.started = TRUE, !.mode = mode, !.armed = TRUE]]
  /\ UNCHANGED <<realTimer, deleting, late, gone>>

\* The first half of OsalTimerDelete, under the mutex.  mod_timer refuses a timer
\* that was never set up, so one that was never started cannot be deleted.
OsalTimerStop ==
  /\ realTimer # NoTimer /\ deleting = NoTimer /\ kt[realTimer].started
  /\ kt' = [kt EXCEPT ![realTimer].stop = TRUE] /\ deleting' = realTimer
  /\ UNCHANGED <<realTimer, late, gone>>

\* Fault: the memory is freed at once.
DeleteFrees ==
  /\ deleting # NoTimer
  /\ kt' = [kt EXCEPT ![deleting].alive = FALSE]
  /\ realTimer' = NoTimer /\ deleting' = NoTimer /\ UNCHANGED <<late, gone>>

\* Fault: a timer that runs once is not woken for the last time.
DeleteKeepsOnce ==
  /\ deleting # NoTimer
  /\ realTimer' = NoTimer /\ deleting' = NoTimer /\ UNCHANGED <<kt, late, gone>>

\* The second half reads the mode without the mutex.  expires of a timer that has
\* run is in the past: it expires at once.  In freed memory any mode may be read; by
\* "once" a timer is armed there, and what becomes of that address is not modelled.
OsalTimerDelete ==
  /\ deleting # NoTimer
  /\ \E mode \in IF deleting \in gone THEN Modes ELSE {kt[deleting].mode} :
       /\ kt' = [kt EXCEPT ![deleting].armed = @ \/ mode = "once"]
       /\ gone' = IF mode = "once" THEN gone ELSE gone \ {deleting}
  /\ realTimer' = NoTimer /\ deleting' = NoTimer /\ UNCHANGED late

\* osal_timer_callback up to the call of func: a stopped timer is freed, even while
\* OsalTimerDelete still has to read its mode.
Expire(k) ==
  /\ kt[k].armed /\ kt[k].cb = "idle" /\ k \notin gone
  /\ kt' = [kt EXCEPT ![k] = IF kt[k].stop THEN Free
                             ELSE [kt[k] EXCEPT !.armed = FALSE, !.cb = "call", !.read = kt[k].mode]]
  /\ gone' = IF kt[k].stop /\ deleting = k THEN gone \cup {k} ELSE gone
  /\ UNCHANGED <<realTimer, deleting, late>>

CallFunc(k) ==
  /\ kt[k].cb = "call" /\ kt' = [kt EXCEPT ![k].cb = "func"]
  /\ late' = [late EXCEPT ![k] = IF kt[k].stop THEN @ + 1 ELSE @]
  /\ UNCHANGED <<realTimer, deleting, gone>>

\* func has returned; by the mode read before, the timer is armed again.
CallbackEnd(k) ==
  /\ kt[k].cb = "func"
  /\ kt' = [kt EXCEPT ![k] = [kt[k] EXCEPT !.cb = "idle", !.armed = @ \/ kt[k].read = "loop"]]
  /\ UNCHANGED <<realTimer, deleting, late, gone>>

TmNext ==
  \/ OsalTimerCreate \/ OsalTimerStop \/ OsalTimerDelete
  \/ \E mode \in Modes : OsalTimerStart(mode)
  \/ \E k \in Timers : Expire(k) \/ CallFunc(k) \/ CallbackEnd(k)

\* Armed timers expire, func and OsalTimerDelete return.
TmFairness ==
  /\ WF_tmVars(OsalTimerDelete)
  /\ \A k \in Timers : WF_tmVars(Expire(k)) /\ WF_tmVars(CallFunc(k) \/ CallbackEnd(k))

TmSpec == TmInit /\ [][TmNext]_tmVars /\ TmFairness

-----------------------------------------------------------------------------
(* Nothing that still uses a timer finds it freed: not the kernel's list,  *)
(* not the callback, not the client, not the second half of                *)
(* OsalTimerDelete.  One case is excepted, in which the code does read      *)
(* freed memory: the timer's callback ran between the two halves (gone).    *)
(* And after stop_flag is set func is called at most once more, by a        *)
(* callback that had read stop_flag before.                                *)
TimerAlive ==
  \A k \in Timers :
    /\ k \notin gone /\ (kt[k].armed \/ kt[k].cb # "idle" \/ deleting = k \/ realTimer = k)
         => kt[k].alive
    /\ late[k] <= 1

(* A deleted timer is freed although OsalTimerDelete leaves that to a      *)
(* callback which may have run for the last time: it is armed again.       *)
DeletedFreed == \A k \in Timers : kt[k].stop ~> ~kt[k].alive
================================================================================
