------------------------------ MODULE FfsEvents ------------------------------
(***************************************************************************)
(* The event queue of a USB function instance, struct ffs_data.ev, and the *)
(* purge rule of __ffs_event_add (f_generic.c).  ev.types is an array of   *)
(* QueueSize bytes with a count; here it is the sequence of its first      *)
(* ev.count elements.  Nothing in the C code checks the array's bound: it  *)
(* rests on the purge alone.                                               *)
(***************************************************************************)
EXTENDS Naturals, Sequences

QueueSize == 4                      \* u8 types[4]

PowerTypes     == {"SUSPEND", "RESUME"}
LifecycleTypes == {"BIND", "UNBIND", "ENABLE", "DISABLE"}
EventTypes     == PowerTypes \cup LifecycleTypes \cup {"SETUP"}

(* Fault: neg is not set, so a lifecycle event purges the power events.    *)
SurvivesNoNeg(old, new) ==
  IF new \in LifecycleTypes \cup {"RESUME"} THEN old \notin PowerTypes ELSE old # new

(* Fault: neg is left set for SETUP, which then purges all but its own.    *)
SurvivesSetupNeg(old, new) ==
  CASE new = "RESUME" -> old \notin PowerTypes
    [] new = "SUSPEND" -> old # new
    [] new = "SETUP" -> old = new
    [] new \in LifecycleTypes -> old \in PowerTypes

(* Whether a queued event old stays when an event of type new is added.    *)
Survives(old, new) ==
  CASE new = "RESUME"              -> old \notin PowerTypes
    [] new \in {"SUSPEND", "SETUP"} -> old # new
    [] new \in LifecycleTypes      -> old \in PowerTypes

(* The purge loop over the array: each slot is copied down or skipped.     *)
Kept(q, i, new) ==
  IF i <= Len(q) /\ Survives(q[i], new) THEN <<q[i]>> ELSE <<>>

Purged(q, new) ==
  ((Kept(q, 1, new) \o Kept(q, 2, new)) \o Kept(q, 3, new)) \o Kept(q, 4, new)

(* Fault: the purge loop is left out.                                      *)
EventAddNoPurge(q, new) == Append(q, new)

EventAdd(q, new) == Append(Purged(q, new), new)

(* __ffs_ep0_read_events: the n oldest events leave, the rest move down.   *)
DropFirst(q, n) == SubSeq(q, n + 1, Len(q))

(* Two events of one class are never queued together; there are as many    *)
(* classes as slots.                                                       *)
Class(e) == IF e \in LifecycleTypes THEN "LIFECYCLE" ELSE e
Classes  == {"SUSPEND", "RESUME", "SETUP", "LIFECYCLE"}
Distinct(q) == \A i, j \in 1..Len(q) : Class(q[i]) = Class(q[j]) => i = j
==============================================================================
