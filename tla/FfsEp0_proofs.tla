----------------------------- MODULE FfsEp0_proofs -----------------------------
(***************************************************************************)
(* Theorems about FfsEvents and FfsEp0, for any number of threads,         *)
(* requests and signals: the event queue stays within its four slots and   *)
(* loses no last word, one thread at a time is in a read or a write, and a *)
(* pending request is the one a read took last.                            *)
(***************************************************************************)
EXTENDS FfsEp0, SequenceTheorems, FiniteSetTheorems, TLAPS

-----------------------------------------------------------------------------
(* Lemmas about the purge.                                                 *)

(* What the first n slots of a queue with distinct classes leave behind:   *)
(* elements of those slots that survive e, their classes distinct.         *)
From(r, q, e, n) ==
  /\ r \in Seq(EventTypes) /\ Distinct(r)
  /\ \A k \in 1..Len(r) : Survives(r[k], e)
                           /\ \E i \in 1..n : i <= Len(q) /\ r[k] = q[i]

(* Appending the next slot keeps this shape.                               *)
LEMMA FromStep ==
  ASSUME NEW q \in Seq(EventTypes), Distinct(q), NEW e \in EventTypes,
         NEW n \in Nat, NEW m, m = n + 1, NEW r, From(r, q, e, n)
  PROVE  From(r \o Kept(q, m, e), q, e, m)
<1>1. r \in Seq(EventTypes) /\ Len(r) \in Nat /\ Len(q) \in Nat
  BY DEF From
<1>2. CASE m <= Len(q) /\ Survives(q[m], e)
  <2> DEFINE x == q[m]
             s == Append(r, x)
  <2>1. x \in EventTypes
    BY <1>2
  <2>2. r \o Kept(q, m, e) = s
    BY <1>1, <1>2, <2>1 DEF Kept
  <2>3. /\ s \in Seq(EventTypes) /\ Len(s) = Len(r) + 1
        /\ (\A k \in 1..Len(r) : s[k] = r[k]) /\ s[Len(r) + 1] = x
    BY <1>1, <2>1
  <2>4. \A k \in 1..Len(r) : Class(r[k]) # Class(x)
    <3>1. SUFFICES ASSUME NEW k \in 1..Len(r) PROVE Class(r[k]) # Class(x)
      OBVIOUS
    <3>2. PICK i \in 1..n : i <= Len(q) /\ r[k] = q[i]
      BY DEF From
    <3>3. i \in 1..Len(q) /\ m \in 1..Len(q) /\ i # m
      BY <1>1, <1>2, <3>2
    <3>4. QED
      BY <3>2, <3>3 DEF Distinct
  <2> HIDE DEF s
  <2>5. Distinct(s)
    <3>1. SUFFICES ASSUME NEW i \in 1..(Len(r) + 1), NEW j \in 1..(Len(r) + 1),
                          Class(s[i]) = Class(s[j])
                   PROVE  i = j
      BY <2>3 DEF Distinct
    <3>2. CASE i \in 1..Len(r) /\ j \in 1..Len(r)
      <4>1. Class(r[i]) = Class(r[j])
        BY <2>3, <3>1, <3>2
      <4> QED
        BY <2>3, <3>2, <4>1 DEF From, Distinct
    <3>3. CASE i = Len(r) + 1 \/ j = Len(r) + 1
      BY <1>1, <2>3, <2>4, <3>1, <3>3
    <3>4. QED
      BY <1>1, <3>2, <3>3
  <2>6. \A k \in 1..Len(s) : Survives(s[k], e)
            /\ \E i \in 1..m : i <= Len(q) /\ s[k] = q[i]
    <3>1. SUFFICES ASSUME NEW k \in 1..Len(s)
                   PROVE  Survives(s[k], e)
                          /\ \E i \in 1..m : i <= Len(q) /\ s[k] = q[i]
      OBVIOUS
    <3>2. CASE k \in 1..Len(r)
      <4>1. 1..n \subseteq 1..m
        OBVIOUS
      <4>2. QED
        BY <1>1, <2>3, <3>2, <4>1 DEF From
    <3>3. CASE k = Len(r) + 1
      BY <1>2, <2>3, <3>3
    <3>4. QED
      BY <1>1, <2>3, <3>2, <3>3
  <2>7. QED
    BY <2>2, <2>3, <2>5, <2>6 DEF From
<1>3. CASE ~(m <= Len(q) /\ Survives(q[m], e))
  <2>1. r \o Kept(q, m, e) = r
    BY <1>1, <1>3 DEF Kept
  <2>2. 1..n \subseteq 1..m
    OBVIOUS
  <2>3. QED
    BY <1>1, <2>1, <2>2 DEF From
<1>4. QED
  BY <1>2, <1>3

LEMMA PurgedFrom ==
  ASSUME NEW q \in Seq(EventTypes), Distinct(q), NEW e \in EventTypes
  PROVE  From(Purged(q, e), q, e, 4)
<1>1. From(<<>>, q, e, 0)
  BY DEF From, Distinct
<1>2. <<>> \o Kept(q, 1, e) = Kept(q, 1, e)
  BY DEF Kept
<1>3. From(Kept(q, 1, e), q, e, 1)
  <2>1. \A m : m = 0 + 1 => From(<<>> \o Kept(q, m, e), q, e, m)
    BY <1>1, FromStep, Zenon
  <2>2. From(<<>> \o Kept(q, 1, e), q, e, 1)
    BY <2>1
  <2>3. QED
    BY <1>2, <2>2
<1>4. From(Kept(q, 1, e) \o Kept(q, 2, e), q, e, 2)
  BY <1>3, FromStep
<1>5. From((Kept(q, 1, e) \o Kept(q, 2, e)) \o Kept(q, 3, e), q, e, 3)
  BY <1>4, FromStep
<1>6. From(((Kept(q, 1, e) \o Kept(q, 2, e)) \o Kept(q, 3, e)) \o Kept(q, 4, e), q, e, 4)
  BY <1>5, FromStep
<1>7. QED
  BY <1>6 DEF Purged

(* An event of the class of the new one never survives.                    *)
LEMMA SurvivorClass ==
  ASSUME NEW old \in EventTypes, NEW new \in EventTypes, Survives(old, new)
  PROVE  Class(old) # Class(new)
BY DEF Survives, Class, EventTypes, PowerTypes, LifecycleTypes

(* Adding an event keeps the classes of the queue distinct.                *)
LEMMA EventAddDistinct ==
  ASSUME NEW q \in Seq(EventTypes), NEW e \in EventTypes, Distinct(q)
  PROVE  EventAdd(q, e) \in Seq(EventTypes) /\ Distinct(EventAdd(q, e))
<1> DEFINE r == Purged(q, e)
           s == Append(r, e)
<1>1. From(r, q, e, 4)
  BY PurgedFrom
<1>2. r \in Seq(EventTypes) /\ Len(r) \in Nat
  BY <1>1 DEF From
<1> HIDE DEF r
<1>3. \A k \in 1..Len(r) : Class(r[k]) # Class(e)
  BY <1>1, <1>2, SurvivorClass DEF From
<1>4. /\ s \in Seq(EventTypes) /\ Len(s) = Len(r) + 1
      /\ s[Len(r) + 1] = e /\ \A k \in 1..Len(r) : s[k] = r[k]
  BY <1>2
<1> HIDE DEF s
<1>5. Distinct(s)
  <2>1. SUFFICES ASSUME NEW i \in 1..(Len(r) + 1), NEW j \in 1..(Len(r) + 1),
                        Class(s[i]) = Class(s[j])
                 PROVE  i = j
    BY <1>4 DEF Distinct
  <2>2. CASE i \in 1..Len(r) /\ j \in 1..Len(r)
    <3>1. Class(r[i]) = Class(r[j])
      BY <1>4, <2>1, <2>2
    <3> QED
      BY <1>1, <2>2, <3>1 DEF From, Distinct
  <2>3. CASE i = Len(r) + 1 \/ j = Len(r) + 1
    BY <1>2, <1>3, <1>4, <2>1, <2>3
  <2> QED
    BY <1>2, <2>2, <2>3
<1>6. QED
  BY <1>4, <1>5 DEF EventAdd, s, r

(* Four classes, so at most four events: the pigeonhole.                   *)
LEMMA DistinctBound ==
  ASSUME NEW q \in Seq(EventTypes), Distinct(q)
  PROVE  Len(q) <= QueueSize
<1>1. SUFFICES ASSUME Len(q) > 4 PROVE FALSE
  BY DEF QueueSize
<1>2. \A i \in 1..5 : i \in 1..Len(q) /\ q[i] \in EventTypes
  BY <1>1
<1>3. \A i \in 1..5 : Class(q[i]) \in Classes
  BY <1>2 DEF Class, Classes, EventTypes, PowerTypes, LifecycleTypes
<1>4. \A i, j \in 1..5 : i # j => Class(q[i]) # Class(q[j])
  BY <1>2 DEF Distinct
<1>5. QED
  BY <1>3, <1>4 DEF Classes

(* Reading the oldest events keeps the rest distinct.                      *)
LEMMA DropDistinct ==
  ASSUME NEW q \in Seq(EventTypes), Distinct(q), NEW n \in 1..Len(q)
  PROVE  DropFirst(q, n) \in Seq(EventTypes) /\ Distinct(DropFirst(q, n))
<1> DEFINE r == DropFirst(q, n)
<1>1. /\ r \in Seq(EventTypes) /\ Len(r) = Len(q) - n
      /\ \A k \in 1..Len(r) : r[k] = q[n + k]
  BY DEF DropFirst
<1>2. Len(q) \in Nat
  OBVIOUS
<1> HIDE DEF r
<1>3. ASSUME NEW i \in 1..Len(r), NEW j \in 1..Len(r), Class(r[i]) = Class(r[j]) PROVE i = j
  <2>0. n + i \in 1..Len(q) /\ n + j \in 1..Len(q)
    BY <1>1, <1>2
  <2>3. r[i] = q[n + i] /\ r[j] = q[n + j]
    BY <1>1
  <2>1. n + i \in 1..Len(q) /\ n + j \in 1..Len(q) /\ Class(q[n + i]) = Class(q[n + j])
    BY <1>3, <2>0, <2>3
  <2>2. n + i = n + j
    BY <2>1 DEF Distinct
  <2> QED
    BY <1>1, <1>2, <2>2
<1>4. Distinct(r)
  BY <1>3 DEF Distinct
<1> QED
  BY <1>1, <1>4 DEF r

-----------------------------------------------------------------------------
(* Type correctness.                                                       *)

(* The purge only removes events of the queue.                             *)
LEMMA EventAddType ==
  ASSUME NEW q \in Seq(EventTypes), NEW e \in EventTypes
  PROVE  EventAdd(q, e) \in Seq(EventTypes)
<1>1. \A i \in 1..4 : Kept(q, i, e) \in Seq(EventTypes)
  <2>1. SUFFICES ASSUME NEW i \in 1..4 PROVE Kept(q, i, e) \in Seq(EventTypes)
    OBVIOUS
  <2>2. i <= Len(q) => q[i] \in EventTypes
    OBVIOUS
  <2>3. QED
    BY <2>2 DEF Kept
<1>2. Purged(q, e) \in Seq(EventTypes)
  BY <1>1 DEF Purged
<1>3. QED
  BY <1>2 DEF EventAdd

(* The last element of a class in a queue of at most four, or the default. *)
LEMMA LastOfType ==
  ASSUME NEW q \in Seq(EventTypes), Len(q) <= 4, NEW S, NEW d
  PROVE  LastOf(q, S, d) \in S \cup {d}
<1>1. CASE \E i \in 1..Len(q) : q[i] \in S
  <2>1. \E i \in 1..Len(q) : q[i] \in S /\ \A j \in (i + 1)..Len(q) : q[j] \notin S
    <3>0. Len(q) \in Nat
      OBVIOUS
    <3>1. \A n \in Nat : n <= 4 => n = 0 \/ n = 1 \/ n = 2 \/ n = 3 \/ n = 4
      OBVIOUS
    <3>1a. Len(q) = 0 \/ Len(q) = 1 \/ Len(q) = 2 \/ Len(q) = 3 \/ Len(q) = 4
      BY <3>0, <3>1
    <3>2. QED
      BY <1>1, <3>1a
  <2>2. QED
    BY <1>1, <2>1 DEF LastOf
<1>2. CASE ~\E i \in 1..Len(q) : q[i] \in S
  BY <1>2 DEF LastOf
<1>3. QED
  BY <1>1, <1>2

(* Every variable keeps its type: the fields of struct ffs_data and the    *)
(* threads' program counters stay in their ranges whatever the             *)
(* interleaving.                                                           *)
THEOREM TypeCorrect == Spec => []TypeOK
<1>1. Init => TypeOK
  <2>0. Init => courier \in [News -> Threads \cup {Nobody}]
    BY DEF Init
  <2>1. [pc |-> "idle", op |-> "read", seen |-> 0] \in ThreadRec
    BY Ep0Assumption DEF ThreadRec, Pcs, Ids
  <2>2. Init => th \in [Threads -> ThreadRec]
    BY <2>1 DEF Init
  <2>3. 0 \in Ids
    BY Ep0Assumption DEF Ids
  <2>4. QED
    BY <2>0, <2>2, <2>3, Ep0Assumption DEF Init, TypeOK, States, Setups, NoReq, Quiet, EventTypes
<1>2. TypeOK /\ [Next]_vars => TypeOK'
  <2> SUFFICES ASSUME TypeOK, [Next]_vars PROVE TypeOK'
    OBVIOUS
  <2>0. th \in [Threads -> ThreadRec]
    BY DEF TypeOK
  <2>a. \A t \in Threads, p \in Pcs : Goto(t, p) => th' \in [Threads -> ThreadRec]
    BY <2>0 DEF Goto, ThreadRec
  <2>b. \A t \in Threads : Return(t) => /\ th' \in [Threads -> ThreadRec]
                                        /\ mutex' \in Threads \cup {Nobody}
    BY <2>a DEF Return, Pcs
  <2>c. \A t \in Threads, i \in Ids, p \in Pcs :
          GotoFor(t, p, i) => th' \in [Threads -> ThreadRec]
    BY <2>0 DEF GotoFor, ThreadRec
  <2>e. \A t \in Threads : th[t].seen \in Ids
    BY <2>0 DEF ThreadRec
  <2>f. ClearCancelled => setup' \in Setups
    BY DEF TypeOK, ClearCancelled, Setups
  <2>g. Dequeue => /\ ep0req' \in [st : {"free", "queued"}, for : Ids]
                   /\ done' \in Nat /\ setup' \in Setups /\ ended' \in Ids
    BY Ep0Assumption DEF TypeOK, Dequeue, NoReq, Ids, Setups
  <2> USE <2>a, <2>b, <2>c, <2>e, <2>f, <2>g DEF TypeOK, shared, history
  <2>1. ASSUME NEW t \in Threads, NEW op \in {"read", "write"}, Enter(t, op) PROVE TypeOK'
    <3>1. [pc |-> "lock", op |-> op, seen |-> 0] \in ThreadRec
      BY Ep0Assumption DEF ThreadRec, Pcs, Ids
    <3>2. th' \in [Threads -> ThreadRec]
      BY <2>1, <3>1 DEF Enter
    <3>3. QED
      BY <2>1, <3>2 DEF Enter
  <2>2. ASSUME NEW t \in Threads, Lock(t) PROVE TypeOK'
    BY <2>2 DEF Lock, Pcs
  <2>3. ASSUME NEW t \in Threads, TryLockFails(t) PROVE TypeOK'
    BY <2>3 DEF TryLockFails, Pcs
  <2>4. ASSUME NEW t \in Threads, Config(t) PROVE TypeOK'
    BY <2>4 DEF Config, States, Pcs
  <2>5. ASSUME NEW t \in Threads, Ready(t) PROVE TypeOK'
    BY <2>5 DEF Ready, States, Pcs
  <2>6. ASSUME NEW t \in Threads, CheckWrite(t) PROVE TypeOK'
    BY <2>6 DEF CheckWrite, Pcs
  <2>7. ASSUME NEW t \in Threads, CheckRead(t) PROVE TypeOK'
    BY <2>7 DEF CheckRead, Pcs
  <2>8. ASSUME NEW t \in Threads, NEW n \in 1..QueueSize, ReadEvents(t, n) PROVE TypeOK'
    <3>1. n \in 1..Len(types) /\ n <= 4
      BY <2>8 DEF ReadEvents, QueueSize
    <3>2. /\ SubSeq(types, 1, n) \in Seq(EventTypes) /\ Len(SubSeq(types, 1, n)) <= 4
          /\ types' \in Seq(EventTypes)
      BY <2>8, <3>1 DEF ReadEvents, DropFirst
    <3>3. /\ LastOf(SubSeq(types, 1, n), PowerTypes, taken.power) \in PowerTypes \cup {"none"}
          /\ LastOf(SubSeq(types, 1, n), LifecycleTypes, taken.life)
               \in LifecycleTypes \cup {"none"}
      <4>1. /\ LastOf(SubSeq(types, 1, n), PowerTypes, taken.power)
                 \in PowerTypes \cup {taken.power}
            /\ LastOf(SubSeq(types, 1, n), LifecycleTypes, taken.life)
                 \in LifecycleTypes \cup {taken.life}
        BY <3>2, LastOfType
      <4>2. QED
        BY <4>1
    <3>4. taken' \in [power : PowerTypes \cup {"none"},
                    life : LifecycleTypes \cup {"none"}, setup : Ids]
      BY <2>8, <3>3 DEF ReadEvents
    <3>5. courier' \in [News -> Threads \cup {Nobody}]
      BY <2>8 DEF ReadEvents
    <3>6. th' \in [Threads -> ThreadRec]
      <4>1. request.id \in Ids /\ 0 \in Ids /\ "copyout" \in Pcs
        BY Ep0Assumption DEF Ids, Pcs
      <4>2. \E i \in Ids : GotoFor(t, "copyout", i)
        BY <2>8, <4>1 DEF ReadEvents
      <4> QED
        BY <4>1, <4>2
    <3>7. QED
      BY <2>8, <3>2, <3>4, <3>5, <3>6 DEF ReadEvents, Setups
  <2>9. ASSUME NEW t \in Threads, ReadNothing(t) PROVE TypeOK'
    BY <2>9 DEF ReadNothing
  <2>10. ASSUME NEW t \in Threads, Stall(t) PROVE TypeOK'
    BY <2>10 DEF Stall, Setups
  <2>11. ASSUME NEW t \in Threads, CopyFails(t) PROVE TypeOK'
    BY <2>11 DEF CopyFails
  <2>12. ASSUME NEW t \in Threads, Recheck(t) PROVE TypeOK'
    BY <2>12 DEF Recheck, Pcs
  <2>13. ASSUME NEW t \in Threads, Queue(t) PROVE TypeOK'
    BY <2>13 DEF Queue, QueueEp0, Pcs
  <2>14. ASSUME NEW t \in Threads, Answered(t) PROVE TypeOK'
    BY <2>14 DEF Answered, Setups
  <2>15. ASSUME NEW t \in Threads, Interrupted(t) PROVE TypeOK'
    BY <2>15 DEF Interrupted
  <2>16. ASSUME Complete PROVE TypeOK'
    <3>1. ep0req' \in [st : {"free", "queued"}, for : Ids] /\ done' \in Nat
      BY <2>16, Ep0Assumption DEF Complete, NoReq, Ids
    <3>2. ep0req.for \in Ids
      OBVIOUS
    <3>3. setup' \in Setups /\ ended' \in Ids /\ tail' \subseteq Ids
      <4>1. CASE Smp
        BY <2>16, <3>2, <4>1 DEF Complete
      <4>2. CASE ~Smp
        BY <2>16, <3>2, <4>2 DEF Complete, Setups
      <4>3. QED
        BY <4>1, <4>2
    <3>4. QED
      BY <2>16, <3>1, <3>3 DEF Complete
  <2>17. ASSUME NEW id \in Ids, CompleteTail(id) PROVE TypeOK'
    BY <2>17 DEF CompleteTail, Setups
  <2>18. ASSUME NEW t \in Threads, Iorw(t) PROVE TypeOK'
    BY <2>18 DEF Iorw, QueueEp0, Pcs
  <2>19. ASSUME NEW t \in Threads, IorwDone(t) PROVE TypeOK'
    <3>1. done' \in Nat
      BY <2>19 DEF IorwDone
    <3>2. th' \in [Threads -> ThreadRec]
      BY <2>19 DEF IorwDone, Pcs
    <3>3. QED
      BY <2>19, <3>1, <3>2 DEF IorwDone
  <2>20. ASSUME NEW t \in Threads, IorwGiveUp(t) PROVE TypeOK'
    BY <2>20 DEF IorwGiveUp, Pcs
  <2>21. ASSUME NEW t \in Threads, AioSubmit(t) PROVE TypeOK'
    BY <2>21 DEF AioSubmit
  <2>22. ASSUME NEW id \in Ids, AioComplete(id) PROVE TypeOK'
    BY <2>22 DEF AioComplete
  <2>23. ASSUME NEW t \in Threads, GetEp0Event(t) PROVE TypeOK'
    BY <2>23 DEF GetEp0Event, Setups
  <2>24. ASSUME NEW type \in EventTypes, Raise(type) PROVE TypeOK'
    BY <2>24 DEF Raise
  <2>25. ASSUME NEW dir \in {"IN", "OUT"}, RaiseSetup(dir) PROVE TypeOK'
    BY <2>25, Ep0Assumption DEF RaiseSetup, EventTypes, Ids
  <2>26. ASSUME EventAdded PROVE TypeOK'
    BY <2>26, EventAddType DEF EventAdded, LockFree, Quiet, Setups
  <2>27. CASE UNCHANGED vars
    BY <2>27 DEF vars
  <2>29. ASSUME NEW t \in Threads, CopyOut(t) \/ CopyOutFails(t) PROVE TypeOK'
    <3>1. th' \in [Threads -> ThreadRec]
      <4>1. 0 \in Ids /\ "idle" \in Pcs
        BY Ep0Assumption DEF Ids, Pcs
      <4> QED
        BY <2>29, <4>1 DEF CopyOut, CopyOutFails
    <3>2. courier' \in [News -> Threads \cup {Nobody}] /\ told' \in Ids
      BY <2>29 DEF CopyOut, CopyOutFails
    <3> QED
      BY <2>29, <3>1, <3>2 DEF CopyOut, CopyOutFails
  <2>28. QED
    BY <2>1, <2>2, <2>3, <2>4, <2>5, <2>6, <2>7, <2>8, <2>9, <2>10, <2>11, <2>12,
       <2>13, <2>14, <2>15, <2>16, <2>17, <2>18, <2>19, <2>20, <2>21, <2>22, <2>23,
       <2>24, <2>25, <2>26, <2>27, <2>29
       DEF Next, ThreadStep, Call, Refused, Udc, Gadget
<1>3. QED
  BY <1>1, <1>2, PTL DEF Spec

-----------------------------------------------------------------------------
(* The event queue.                                                        *)

(* The steps that touch the queue, or what has been taken and raised, at all. *)
LEMMA QueueSteps ==
  ASSUME [Next]_vars
  PROVE  \/ UNCHANGED <<types, taken, raised>>
         \/ \E t \in Threads, n \in 1..QueueSize : ReadEvents(t, n)
         \/ EventAdded
<1> DEFINE Untouched == UNCHANGED <<types, taken, raised>>
           Read == \E t \in Threads, n \in 1..QueueSize : ReadEvents(t, n)
<1>1. ASSUME NEW t \in Threads, ThreadStep(t) PROVE Untouched \/ Read
  <2>1. CASE \E n \in 1..QueueSize : ReadEvents(t, n)
    BY <2>1, Zenon
  <2>2. CASE \/ Lock(t) \/ Config(t) \/ Ready(t) \/ CheckWrite(t) \/ CheckRead(t) \/ CopyOut(t)
             \/ Stall(t) \/ Recheck(t) \/ Queue(t) \/ Answered(t) \/ IorwDone(t)
    BY <2>2 DEF history, Lock, Config, Ready, CheckWrite, CheckRead, CopyOut, Stall, Recheck,
                Queue, Answered, IorwDone
  <2> QED
    BY <1>1, <2>1, <2>2, Zenon DEF ThreadStep
<1>2. ASSUME NEW t \in Threads, Call(t) PROVE Untouched
  BY <1>2 DEF Call, history, Enter, Iorw, AioSubmit, GetEp0Event
<1>3. ASSUME NEW t \in Threads, Refused(t) PROVE Untouched
  BY <1>3 DEF Refused, history, TryLockFails, ReadNothing, CopyOutFails, CopyFails, Interrupted,
     IorwGiveUp
<1>4. ASSUME Udc PROVE Untouched
  BY <1>4 DEF Udc, history, Complete, CompleteTail, AioComplete
<1>5. ASSUME Gadget PROVE Untouched \/ EventAdded
  <2>1. ASSUME NEW type \in EventTypes, Raise(type) PROVE Untouched
    BY <2>1 DEF history, Raise
  <2>2. ASSUME NEW dir \in {"IN", "OUT"}, RaiseSetup(dir) PROVE Untouched
    BY <2>2 DEF history, RaiseSetup
  <2> HIDE DEF Untouched
  <2> QED
    BY <1>5, <2>1, <2>2, Zenon DEF Gadget
<1>6. ASSUME UNCHANGED vars PROVE Untouched
  BY <1>6 DEF vars, history
<1>7. Untouched \/ Read \/ EventAdded
  <2> HIDE DEF Untouched, Read
  <2> QED
    BY <1>1, <1>2, <1>3, <1>4, <1>5, <1>6, Zenon DEF Next
<1> QED
  BY <1>7, Zenon

(* The classes of the queued events stay distinct: __ffs_event_add purges  *)
(* the class it adds, a read removes.                                      *)
THEOREM ClassesDistinct == Spec => []QueueDistinct
<1>1. Init => QueueDistinct
  BY DEF Init, QueueDistinct, Distinct
<1>2. TypeOK /\ QueueDistinct /\ [Next]_vars => QueueDistinct'
  <2> SUFFICES ASSUME TypeOK, QueueDistinct, [Next]_vars PROVE QueueDistinct'
    OBVIOUS
  <2>0. types \in Seq(EventTypes) /\ Distinct(types)
    BY DEF TypeOK, QueueDistinct
  <2>1. CASE types' = types
    BY <2>0, <2>1 DEF QueueDistinct
  <2>2. ASSUME NEW t \in Threads, NEW n \in 1..QueueSize, ReadEvents(t, n)
        PROVE  QueueDistinct'
    BY <2>0, <2>2, DropDistinct DEF ReadEvents, QueueDistinct
  <2>3. CASE EventAdded
    <3>1. irq.type \in EventTypes
      BY <2>3 DEF EventAdded, LockFree, TypeOK
    <3>2. QED
      BY <2>0, <2>3, <3>1, EventAddDistinct DEF EventAdded, QueueDistinct
  <2>4. QED
    BY <2>1, <2>2, <2>3, QueueSteps
<1>3. QED
  BY <1>1, <1>2, TypeCorrect, PTL DEF Spec

(* ev.types never needs a fifth element: the append of __ffs_event_add and *)
(* the copy of __ffs_ep0_read_events stay inside their arrays.             *)
THEOREM QueueWithinArray == Spec => []QueueBounded
<1>1. TypeOK /\ QueueDistinct => QueueBounded
  BY DistinctBound DEF TypeOK, QueueDistinct, QueueBounded
<1>2. QED
  BY <1>1, TypeCorrect, ClassesDistinct, PTL

-----------------------------------------------------------------------------
(* The mutex.                                                              *)

(* Exactly the holder of ffs->mutex is between ffs_mutex_lock and the      *)
(* return of a read or a write, so two of them never overlap.              *)
THEOREM OneInside == Spec => []HolderInside
<1>1. Init => HolderInside
  BY Ep0Assumption DEF Init, HolderInside, Inside
<1>2. TypeOK /\ HolderInside /\ [Next]_vars => HolderInside'
  <2> SUFFICES ASSUME TypeOK, HolderInside, [Next]_vars PROVE HolderInside'
    OBVIOUS
  <2>0. Nobody \notin Threads /\ th \in [Threads -> ThreadRec]
    BY Ep0Assumption DEF TypeOK
  <2>a. ASSUME NEW t \in Threads, mutex = t, Return(t) PROVE HolderInside'
    BY <2>0, <2>a DEF Return, Goto, HolderInside, Inside, ThreadRec
  <2>b. ASSUME NEW t \in Threads, NEW p \in Inside, NEW id, mutex = t, mutex' = mutex,
               Goto(t, p) \/ GotoFor(t, p, id)
        PROVE  HolderInside'
    BY <2>0, <2>b DEF Goto, GotoFor, HolderInside, ThreadRec
  <2>c. ASSUME NEW t \in Threads, NEW p \in Pcs \ Inside, NEW id,
               th[t].pc \notin Inside, mutex' = mutex, Goto(t, p) \/ GotoFor(t, p, id)
        PROVE  HolderInside'
    BY <2>0, <2>c DEF Goto, GotoFor, HolderInside, ThreadRec
  <2>1. CASE UNCHANGED <<th, mutex>>
    BY <2>1 DEF HolderInside
  <2>2. ASSUME NEW t \in Threads, ThreadStep(t) PROVE HolderInside'
    <3>1. CASE Lock(t)
      <4>1. mutex = Nobody /\ th[t].pc = "lock"
        BY <3>1 DEF Lock, At
      <4>2. \A u \in Threads : th[u].pc \notin Inside
        BY <2>0, <4>1 DEF HolderInside
      <4>3. \/ mutex' = t /\ (Goto(t, "check") \/ Goto(t, "config"))
            \/ mutex' = Nobody /\ Goto(t, "idle")
        BY <3>1 DEF Lock, Return
      <4>4. QED
        BY <2>0, <4>2, <4>3 DEF Goto, HolderInside, Inside, ThreadRec
    <3>2. CASE Config(t)
      <4>1. mutex = t
        BY <3>2 DEF Config, At, HolderInside, Inside
      <4>2. CASE Goto(t, "ready") /\ mutex' = Nobody
        BY <2>0, <4>1, <4>2 DEF Goto, HolderInside, Inside, ThreadRec
      <4>3. QED
        BY <2>a, <3>2, <4>1, <4>2 DEF Config
    <3>3. CASE Ready(t)
      BY <2>c, <3>3 DEF Ready, At, Inside, Pcs
    <3>4. CASE IorwDone(t)
      BY <2>c, <3>4 DEF IorwDone, Inside, Pcs
    <3>7. CASE CopyOut(t)
      BY <2>c, <3>7 DEF CopyOut, At, Inside, Pcs
    <3>8. ASSUME NEW n \in 1..QueueSize, ReadEvents(t, n) PROVE HolderInside'
      <4>1. mutex = t /\ mutex' = Nobody /\ \E id : GotoFor(t, "copyout", id)
        BY <3>8 DEF ReadEvents, At, HolderInside, Inside
      <4> QED
        BY <2>0, <4>1 DEF GotoFor, HolderInside, Inside, ThreadRec
    <3>5. CASE th[t].pc \in Inside \ {"config"} /\ ~\E n \in 1..QueueSize : ReadEvents(t, n)
      <4>1. mutex = t
        BY <3>5 DEF HolderInside
      <4>2. \/ Return(t)
            \/ mutex' = mutex /\ \E p \in Inside, id \in Ids : Goto(t, p) \/ GotoFor(t, p, id)
        <5>1. request.id \in Ids /\ th[t].seen \in Ids
          BY <2>0 DEF TypeOK, ThreadRec
        <5>2. QED
          BY <2>2, <3>5, <5>1 DEF ThreadStep, At, Inside, CheckWrite, CheckRead, CopyOut,
             Stall, Recheck, Queue, QueueEp0, Answered, Lock, Config, Ready, IorwDone
      <4>3. QED
        BY <2>a, <2>b, <4>1, <4>2
    <3>6. QED
      BY <2>2, <3>1, <3>2, <3>3, <3>4, <3>5, <3>7, <3>8
         DEF ThreadStep, At, Inside, CheckWrite, CheckRead, Stall, Recheck, Queue, Answered
  <2>3. ASSUME NEW t \in Threads, Call(t) PROVE HolderInside'
    <3>1. ASSUME NEW op \in {"read", "write"}, Enter(t, op) PROVE HolderInside'
      BY <2>0, <3>1 DEF Enter, At, HolderInside, Inside, ThreadRec
    <3>2. CASE Iorw(t)
      BY <2>1, <2>c, <3>2 DEF Iorw, QueueEp0, At, Inside, Pcs
    <3>3. CASE AioSubmit(t) \/ GetEp0Event(t)
      BY <2>1, <3>3 DEF AioSubmit, GetEp0Event
    <3>4. QED
      BY <2>3, <3>1, <3>2, <3>3 DEF Call
  <2>4. ASSUME NEW t \in Threads, Refused(t) PROVE HolderInside'
    <3>1. CASE TryLockFails(t)
      BY <2>c, <3>1 DEF TryLockFails, At, Inside, Pcs
    <3>2. CASE IorwGiveUp(t)
      BY <2>c, <3>2 DEF IorwGiveUp, At, Inside, Pcs
    <3>3. CASE ReadNothing(t) \/ CopyFails(t) \/ Interrupted(t)
      <4>1. mutex = t
        BY <3>3 DEF ReadNothing, CopyFails, Interrupted, At, HolderInside, Inside
      <4>2. QED
        BY <2>a, <3>3, <4>1 DEF ReadNothing, CopyFails, Interrupted
    <3>4. CASE CopyOutFails(t)
      BY <2>c, <3>4 DEF CopyOutFails, At, Inside, Pcs
    <3>5. QED
      BY <2>4, <3>1, <3>2, <3>3, <3>4 DEF Refused
  <2>5. CASE Udc \/ Gadget
    BY <2>1, <2>5 DEF Udc, Gadget, Complete, CompleteTail, AioComplete, Raise,
                      RaiseSetup, EventAdded
  <2>6. QED
    BY <2>1, <2>2, <2>3, <2>4, <2>5 DEF Next, vars
<1>3. QED
  BY <1>1, <1>2, TypeCorrect, PTL DEF Spec

-----------------------------------------------------------------------------
(* The latest news.                                                        *)

(* An element of S with none behind it is the last one.                    *)
LEMMA LastOfAt ==
  ASSUME NEW q \in Seq(EventTypes), NEW S, NEW d, NEW i \in 1..Len(q), q[i] \in S,
         \A j \in 1..Len(q) : i < j => q[j] \notin S
  PROVE  LastOf(q, S, d) = q[i]
<1> DEFINE P(k) == q[k] \in S /\ \A j \in (k + 1)..Len(q) : q[j] \notin S
<1>1. Len(q) \in Nat
  OBVIOUS
<1>2. P(i)
  BY <1>1
<1>3. ASSUME NEW k \in 1..Len(q), P(k) PROVE k = i
  BY <1>1, <1>3
<1>4. LastOf(q, S, d) = q[CHOOSE k \in 1..Len(q) : P(k)]
  BY DEF LastOf
<1> HIDE DEF P
<1>5. (CHOOSE k \in 1..Len(q) : P(k)) = i
  BY <1>2, <1>3
<1> QED
  BY <1>4, <1>5

(* A queue of at most four events has a last one of S, or none.            *)
LEMMA LastExists ==
  ASSUME NEW q \in Seq(EventTypes), Len(q) <= 4, NEW S
  PROVE  \/ \A i \in 1..Len(q) : q[i] \notin S
         \/ \E i \in 1..Len(q) : q[i] \in S /\ \A j \in 1..Len(q) : i < j => q[j] \notin S
<1>1. Len(q) \in Nat
  OBVIOUS
<1>2. \A n \in Nat : n <= 4 => n = 0 \/ n = 1 \/ n = 2 \/ n = 3 \/ n = 4
  OBVIOUS
<1>3. Len(q) = 0 \/ Len(q) = 1 \/ Len(q) = 2 \/ Len(q) = 3 \/ Len(q) = 4
  BY <1>1, <1>2
<1> QED
  BY <1>3

(* The word of the first n slots of q: v is the last of S in them, or d.   *)
LastWord(v, q, n, S, d) ==
  \/ \E i \in 1..n : /\ i <= Len(q) /\ q[i] \in S /\ v = q[i]
                     /\ \A j \in 1..n : i < j /\ j <= Len(q) => q[j] \notin S
  \/ v = d /\ \A i \in 1..n : i <= Len(q) => q[i] \notin S

(* LastOf is the word of the whole queue.                                  *)
LEMMA LastOfIsWord ==
  ASSUME NEW q \in Seq(EventTypes), NEW n \in Nat, Len(q) <= n, NEW S, NEW d, NEW v,
         LastWord(v, q, n, S, d)
  PROVE  LastOf(q, S, d) = v
<1>0. Len(q) \in Nat
  OBVIOUS
<1>1. ASSUME NEW i \in 1..n, i <= Len(q), q[i] \in S, v = q[i],
             \A j \in 1..n : i < j /\ j <= Len(q) => q[j] \notin S
      PROVE  LastOf(q, S, d) = v
  <2>1. i \in 1..Len(q) /\ \A j \in 1..Len(q) : i < j => q[j] \notin S
    BY <1>0, <1>1
  <2> QED
    BY <1>1, <2>1, LastOfAt
<1>2. CASE v = d /\ \A i \in 1..n : i <= Len(q) => q[i] \notin S
  <2>1. \A i \in 1..Len(q) : q[i] \notin S
    BY <1>0, <1>2
  <2> QED
    BY <1>2, <2>1 DEF LastOf
<1> QED
  BY <1>1, <1>2 DEF LastWord

(* ... and has one, whatever the queue.                                    *)
LEMMA WordOf ==
  ASSUME NEW q \in Seq(EventTypes), Len(q) <= 4, NEW S, NEW d
  PROVE  LastWord(LastOf(q, S, d), q, Len(q), S, d)
<1>0. Len(q) \in Nat
  OBVIOUS
<1>1. CASE \A i \in 1..Len(q) : q[i] \notin S
  BY <1>0, <1>1 DEF LastWord, LastOf
<1>2. ASSUME NEW i \in 1..Len(q), q[i] \in S, \A j \in 1..Len(q) : i < j => q[j] \notin S
      PROVE  LastWord(LastOf(q, S, d), q, Len(q), S, d)
  <2>1. LastOf(q, S, d) = q[i]
    BY <1>2, LastOfAt
  <2> QED
    BY <1>0, <1>2, <2>1 DEF LastWord
<1> QED
  BY <1>1, <1>2, LastExists

(* An event at the end is the last word if it is in S, else nothing new.   *)
LEMMA LastAppend ==
  ASSUME NEW q \in Seq(EventTypes), Len(q) <= 4, NEW e \in EventTypes, NEW S, NEW d
  PROVE  LastOf(Append(q, e), S, d) = IF e \in S THEN e ELSE LastOf(q, S, d)
<1> DEFINE s == Append(q, e)
<1>0. Len(q) \in Nat
  OBVIOUS
<1>1. /\ s \in Seq(EventTypes) /\ Len(s) = Len(q) + 1 /\ s[Len(q) + 1] = e
      /\ \A k \in 1..Len(q) : s[k] = q[k]
  OBVIOUS
<1> HIDE DEF s
<1>2. CASE e \in S
  <2>1. Len(q) + 1 \in 1..Len(s) /\ \A j \in 1..Len(s) : ~(Len(q) + 1 < j)
    BY <1>0, <1>1
  <2>2. LastOf(s, S, d) = s[Len(q) + 1]
    BY <1>1, <1>2, <2>1, LastOfAt
  <2> QED
    BY <1>1, <1>2, <2>2 DEF s
<1>3. CASE e \notin S
  <2>1. LastWord(LastOf(q, S, d), q, Len(q), S, d)
    BY WordOf
  <2>2. LastWord(LastOf(q, S, d), s, Len(s), S, d)
    <3>1. ASSUME NEW i \in 1..Len(q), q[i] \in S, LastOf(q, S, d) = q[i],
                 \A j \in 1..Len(q) : i < j => q[j] \notin S
          PROVE  LastWord(LastOf(q, S, d), s, Len(s), S, d)
      <4>1. i \in 1..Len(s) /\ i <= Len(s) /\ s[i] = q[i]
        BY <1>0, <1>1
      <4>2. \A j \in 1..Len(s) : i < j => s[j] \notin S
        BY <1>0, <1>1, <1>3, <3>1
      <4> QED
        BY <3>1, <4>1, <4>2 DEF LastWord
    <3>2. CASE LastOf(q, S, d) = d /\ \A i \in 1..Len(q) : q[i] \notin S
      BY <1>0, <1>1, <1>3, <3>2 DEF LastWord
    <3> QED
      BY <1>0, <2>1, <3>1, <3>2 DEF LastWord
  <2>3. Len(s) \in Nat /\ Len(s) <= Len(s)
    BY <1>0, <1>1
  <2>4. LastOf(s, S, d) = LastOf(q, S, d)
    BY <1>1, <2>2, <2>3, LastOfIsWord
  <2> QED
    BY <1>3, <2>4 DEF s
<1> QED
  BY <1>2, <1>3

(* What is read and what is left have together the word of the queue.      *)
LEMMA LastSplit ==
  ASSUME NEW q \in Seq(EventTypes), Len(q) <= 4, NEW n \in 1..Len(q), NEW S, NEW d
  PROVE  LastOf(DropFirst(q, n), S, LastOf(SubSeq(q, 1, n), S, d)) = LastOf(q, S, d)
<1> DEFINE a == SubSeq(q, 1, n)
           b == DropFirst(q, n)
           u == LastOf(a, S, d)
           v == LastOf(b, S, u)
<1>0. Len(q) \in Nat /\ n \in Nat /\ n <= Len(q)
  OBVIOUS
<1>1. a \in Seq(EventTypes) /\ Len(a) = n /\ \A k \in 1..n : a[k] = q[k]
  OBVIOUS
<1>2. /\ b \in Seq(EventTypes) /\ Len(b) = Len(q) - n
      /\ \A k \in 1..Len(b) : b[k] = q[n + k]
  BY DEF DropFirst
<1> HIDE DEF a, b
<1>3. LastWord(u, a, n, S, d)
  BY <1>0, <1>1, WordOf
<1>4. LastWord(v, b, Len(b), S, u)
  BY <1>0, <1>2, WordOf
<1> HIDE DEF u, v
<1>5. LastWord(v, q, Len(q), S, d)
  <2>1. ASSUME NEW k \in 1..Len(b), b[k] \in S, v = b[k],
               \A j \in 1..Len(b) : k < j => b[j] \notin S
        PROVE  LastWord(v, q, Len(q), S, d)
    <3>1. n + k \in 1..Len(q) /\ q[n + k] = v /\ v \in S
      BY <1>0, <1>2, <2>1
    <3>2. ASSUME NEW j \in 1..Len(q), n + k < j PROVE q[j] \notin S
      <4>1. j - n \in 1..Len(b) /\ k < j - n /\ n + (j - n) = j
        BY <1>0, <1>2, <3>2
      <4> QED
        BY <1>2, <2>1, <4>1
    <3> QED
      BY <3>1, <3>2 DEF LastWord
  <2>2. ASSUME v = u, \A k \in 1..Len(b) : b[k] \notin S PROVE LastWord(v, q, Len(q), S, d)
    <3>1. ASSUME NEW j \in 1..Len(q), n < j PROVE q[j] \notin S
      <4>1. j - n \in 1..Len(b) /\ n + (j - n) = j
        BY <1>0, <1>2, <3>1
      <4> QED
        BY <1>2, <2>2, <4>1
    <3>2. ASSUME NEW i \in 1..n, a[i] \in S, u = a[i], \A j \in 1..n : i < j => a[j] \notin S
          PROVE  LastWord(v, q, Len(q), S, d)
      <4>1. i \in 1..Len(q) /\ q[i] = v /\ q[i] \in S
        BY <1>0, <1>1, <2>2, <3>2
      <4>2. \A j \in 1..Len(q) : i < j => q[j] \notin S
        BY <1>0, <1>1, <3>1, <3>2
      <4> QED
        BY <4>1, <4>2 DEF LastWord
    <3>3. CASE u = d /\ \A i \in 1..n : a[i] \notin S
      BY <1>0, <1>1, <2>2, <3>1, <3>3 DEF LastWord
    <3> QED
      BY <1>0, <1>1, <1>3, <3>2, <3>3 DEF LastWord
  <2>3. \/ \E k \in 1..Len(b) : /\ b[k] \in S /\ v = b[k]
                                /\ \A j \in 1..Len(b) : k < j => b[j] \notin S
        \/ v = u /\ \A k \in 1..Len(b) : b[k] \notin S
    BY <1>0, <1>2, <1>4 DEF LastWord
  <2> QED
    BY <2>1, <2>2, <2>3, Zenon
<1>6. LastOf(q, S, d) = v
  BY <1>0, <1>5, LastOfIsWord
<1> QED
  BY <1>6 DEF v, u, a, b

(* The purge of the first n slots keeps their word, for a set S whose      *)
(* members the new event spares.                                           *)
WordKept(r, q, n, S, d) ==
  r \in Seq(EventTypes) /\ Len(r) <= n /\ LastWord(LastOf(r, S, d), q, n, S, d)

LEMMA WordKeptStep ==
  ASSUME NEW q \in Seq(EventTypes), NEW e \in EventTypes, NEW S, NEW d,
         \A x \in EventTypes \cap S : Survives(x, e),
         NEW n \in 0..3, NEW m, m = n + 1, NEW r, WordKept(r, q, n, S, d)
  PROVE  WordKept(r \o Kept(q, m, e), q, m, S, d)
<1>1. r \in Seq(EventTypes) /\ Len(r) \in Nat /\ Len(r) <= 4 /\ Len(q) \in Nat
  BY DEF WordKept
<1>2. LastWord(LastOf(r, S, d), q, n, S, d)
  BY DEF WordKept
<1>3. m \in 1..m /\ \A i \in 1..n : i \in 1..m /\ i # m
  OBVIOUS
<1>4. \A i \in 1..m : i \in 1..n \/ i = m
  OBVIOUS
<1>5. ASSUME m <= Len(q) => q[m] \notin S PROVE LastWord(LastOf(r, S, d), q, m, S, d)
  BY <1>2, <1>3, <1>4, <1>5 DEF LastWord
<1>6. CASE m <= Len(q) /\ Survives(q[m], e)
  <2> DEFINE x == q[m]
             s == Append(r, x)
  <2>1. x \in EventTypes
    BY <1>1, <1>6
  <2>2. r \o Kept(q, m, e) = s
    BY <1>1, <1>6, <2>1 DEF Kept
  <2>3. s \in Seq(EventTypes) /\ Len(s) <= m
    BY <1>1, <2>1 DEF WordKept
  <2>4. LastOf(s, S, d) = IF x \in S THEN x ELSE LastOf(r, S, d)
    BY <1>1, <2>1, LastAppend
  <2> HIDE DEF s
  <2>5. LastWord(LastOf(s, S, d), q, m, S, d)
    <3>1. CASE x \in S
      <4>1. \A j \in 1..m : ~(m < j)
        OBVIOUS
      <4> QED
        BY <1>3, <1>6, <2>4, <3>1, <4>1 DEF LastWord
    <3>2. CASE x \notin S
      BY <1>5, <2>4, <3>2
    <3> QED
      BY <3>1, <3>2
  <2> QED
    BY <2>2, <2>3, <2>5 DEF WordKept
<1>7. CASE ~(m <= Len(q) /\ Survives(q[m], e))
  <2>1. r \o Kept(q, m, e) = r
    BY <1>1, <1>7 DEF Kept
  <2>2. m <= Len(q) => q[m] \notin S
    <3>1. m <= Len(q) => q[m] \in EventTypes
      BY <1>1
    <3> QED
      BY <1>7, <3>1
  <2>3. Len(r) <= m
    BY <1>1 DEF WordKept
  <2> QED
    BY <1>1, <1>5, <2>1, <2>2, <2>3 DEF WordKept
<1> QED
  BY <1>6, <1>7

(* Adding an event to a queue of at most four: it has the last word in its *)
(* own set, and the other set keeps the one it had.                        *)
LEMMA EventAddWord ==
  ASSUME NEW q \in Seq(EventTypes), Len(q) <= 4, NEW e \in EventTypes, NEW d,
         NEW S \in {PowerTypes, LifecycleTypes}
  PROVE  LastOf(EventAdd(q, e), S, d) = IF e \in S THEN e ELSE LastOf(q, S, d)
<1> DEFINE r == Purged(q, e)
<1>1. CASE e \notin S
  <2>1. \A x \in EventTypes \cap S : Survives(x, e)
    BY <1>1 DEF Survives, EventTypes, PowerTypes, LifecycleTypes
  <2>2. WordKept(<<>>, q, 0, S, d)
    BY DEF WordKept, LastWord, LastOf
  <2>3. <<>> \o Kept(q, 1, e) = Kept(q, 1, e)
    BY DEF Kept
  <2>4. WordKept(<<>> \o Kept(q, 1, e), q, 1, S, d)
    <3>1. \A n \in 0..3 : \A m, t : m = n + 1 /\ WordKept(t, q, n, S, d)
             => WordKept(t \o Kept(q, m, e), q, m, S, d)
      BY <2>1, WordKeptStep
    <3>2. 0 \in 0..3 /\ 1 = 0 + 1
      OBVIOUS
    <3> QED
      BY <2>2, <3>1, <3>2
  <2>5. WordKept(Kept(q, 1, e) \o Kept(q, 2, e), q, 2, S, d)
    BY <2>1, <2>3, <2>4, WordKeptStep
  <2>6. WordKept((Kept(q, 1, e) \o Kept(q, 2, e)) \o Kept(q, 3, e), q, 3, S, d)
    BY <2>1, <2>5, WordKeptStep
  <2>7. WordKept(r, q, 4, S, d)
    BY <2>1, <2>6, WordKeptStep DEF Purged
  <2> HIDE DEF r
  <2>8. LastOf(q, S, d) = LastOf(r, S, d)
    BY <2>7, LastOfIsWord DEF WordKept
  <2>9. LastOf(Append(r, e), S, d) = LastOf(r, S, d)
    BY <1>1, <2>7, LastAppend DEF WordKept
  <2> QED
    BY <1>1, <2>8, <2>9 DEF EventAdd, r
<1>2. CASE e \in S
  <2>1. PICK n \in Nat : n = Len(Append(r, e)) /\ r \in Seq(EventTypes)
    <3>1. \A i \in 1..4 : Kept(q, i, e) \in Seq(EventTypes)
      <4>1. ASSUME NEW i \in 1..4 PROVE Kept(q, i, e) \in Seq(EventTypes)
        <5>1. i <= Len(q) => q[i] \in EventTypes
          OBVIOUS
        <5> QED
          BY <5>1 DEF Kept
      <4> QED
        BY <4>1
    <3>2. r \in Seq(EventTypes)
      BY <3>1 DEF Purged
    <3> QED
      BY <3>2
  <2> HIDE DEF r
  <2> DEFINE s == Append(r, e)
  <2>2. s \in Seq(EventTypes) /\ n = Len(r) + 1 /\ Len(s) = n /\ s[n] = e /\ Len(r) \in Nat
    BY <2>1
  <2> HIDE DEF s
  <2>3. n \in 1..Len(s) /\ \A j \in 1..Len(s) : ~(n < j)
    BY <2>2
  <2>4. LastOf(s, S, d) = e
    BY <1>2, <2>2, <2>3, LastOfAt
  <2> QED
    BY <1>2, <2>4 DEF EventAdd, s, r
<1> QED
  BY <1>1, <1>2

(* News in hand: the steps that change who has it, and those that do not,  *)
(* which leave every thread in copy_to_user where it is.                   *)
LEMMA CourierSteps ==
  ASSUME TypeOK, [Next]_vars
  PROVE  \/ /\ courier' = courier
            /\ \A u \in Threads : th[u].pc = "copyout" => th'[u].pc = "copyout"
         \/ \E t \in Threads, n \in 1..QueueSize : ReadEvents(t, n)
         \/ \E t \in Threads : CopyOut(t) \/ CopyOutFails(t)
<1> DEFINE Same == /\ courier' = courier
                   /\ \A u \in Threads : th[u].pc = "copyout" => th'[u].pc = "copyout"
<1>0. th \in [Threads -> ThreadRec]
  BY DEF TypeOK
<1>1. ASSUME NEW t \in Threads, th[t].pc # "copyout", courier' = courier,
             th' = th \/ \E r : th' = [th EXCEPT ![t] = r] \/ \E p : th' = [th EXCEPT ![t].pc = p]
      PROVE  Same
  BY <1>0, <1>1
<1>2. ASSUME NEW t \in Threads, ThreadStep(t),
             ~\E n \in 1..QueueSize : ReadEvents(t, n), ~CopyOut(t)
      PROVE  Same
  <2>1. /\ th[t].pc # "copyout" /\ courier' = courier
        /\ \/ \E r : th' = [th EXCEPT ![t] = r] 
           \/ \E p : th' = [th EXCEPT ![t].pc = p]
    BY <1>2 DEF ThreadStep, history, At, Goto, GotoFor, Return, Lock, Config, Ready, CheckWrite,
       CheckRead, Stall, Recheck, Queue, QueueEp0, Answered, IorwDone
  <2> QED
    BY <1>1, <2>1
<1>3. ASSUME NEW t \in Threads, Call(t) PROVE Same
  <2>1. /\ courier' = courier
        /\ \/ th' = th
           \/ th[t].pc # "copyout" /\ \E r : th' = [th EXCEPT ![t] = r]
    BY <1>3 DEF Call, history, At, GotoFor, Enter, Iorw, QueueEp0, AioSubmit, GetEp0Event
  <2> QED
    BY <1>1, <2>1
<1>4. ASSUME NEW t \in Threads, Refused(t), ~CopyOutFails(t) PROVE Same
  <2>1. /\ th[t].pc # "copyout" /\ courier' = courier /\ \E p : th' = [th EXCEPT ![t].pc = p]
    BY <1>4 DEF Refused, history, At, Goto, Return, TryLockFails, ReadNothing, CopyFails,
       Interrupted, IorwGiveUp
  <2> QED
    BY <1>1, <2>1
<1>5. ASSUME Udc \/ Gadget \/ UNCHANGED vars PROVE Same
  <2>1. UNCHANGED <<courier, th>>
    BY <1>5 DEF Udc, Gadget, vars, history, Complete, CompleteTail, AioComplete, Raise,
       RaiseSetup, EventAdded
  <2> QED
    BY <2>1
<1> HIDE DEF Same
<1>6. ASSUME NEW t \in Threads, ThreadStep(t) \/ Call(t) \/ Refused(t)
      PROVE  \/ Same \/ \E n \in 1..QueueSize : ReadEvents(t, n)
             \/ CopyOut(t) \/ CopyOutFails(t)
  BY <1>2, <1>3, <1>4, <1>6, Zenon
<1>7. \/ \E t \in Threads : ThreadStep(t) \/ Call(t) \/ Refused(t)
      \/ Udc \/ Gadget \/ UNCHANGED vars
  BY DEF Next
<1>8. \/ Same \/ \E t \in Threads, n \in 1..QueueSize : ReadEvents(t, n)
      \/ \E t \in Threads : CopyOut(t) \/ CopyOutFails(t)
  <2>1. CASE Udc \/ Gadget \/ UNCHANGED vars
    BY <1>5, <2>1
  <2>2. ASSUME NEW t \in Threads, ThreadStep(t) \/ Call(t) \/ Refused(t)
        PROVE  \/ Same \/ \E u \in Threads, n \in 1..QueueSize : ReadEvents(u, n)
               \/ \E u \in Threads : CopyOut(u) \/ CopyOutFails(u)
    <3>1. \/ Same \/ \E n \in 1..QueueSize : ReadEvents(t, n)
          \/ CopyOut(t) \/ CopyOutFails(t)
      BY <1>6, <2>2
    <3> QED
      BY <3>1, Zenon
  <2> QED
    BY <1>7, <2>1, <2>2
<1> QED
  BY <1>8, Zenon DEF Same

\* No news is in the hand of a thread that has left its read.
AllHanded == \A k \in News : Handed(k)

(* Every step keeps AllHanded.                                             *)
LEMMA HandedStep == ASSUME TypeOK, AllHanded, [Next]_vars PROVE AllHanded'
<1>0. th \in [Threads -> ThreadRec] /\ Nobody \notin Threads
  BY Ep0Assumption DEF TypeOK
<1>1. CASE /\ courier' = courier
           /\ \A u \in Threads : th[u].pc = "copyout" => th'[u].pc = "copyout"
  BY <1>1 DEF AllHanded, Handed, At
<1>2. ASSUME NEW t \in Threads, NEW n \in 1..QueueSize, ReadEvents(t, n) PROVE AllHanded'
  <2>1. /\ \A k \in News : courier'[k] = t \/ courier'[k] = courier[k]
        /\ \E i : th' = [th EXCEPT ![t] = [pc |-> "copyout", op |-> th[t].op, seen |-> i]]
    BY <1>2 DEF ReadEvents, GotoFor
  <2>2. th'[t].pc = "copyout" /\ \A u \in Threads \ {t} : th'[u] = th[u]
    BY <1>0, <2>1
  <2> QED
    BY <2>1, <2>2 DEF AllHanded, Handed, At
<1>3. ASSUME NEW t \in Threads, CopyOut(t) \/ CopyOutFails(t) PROVE AllHanded'
  <2>1. /\ \A k \in News : courier'[k] = IF courier[k] = t THEN Nobody ELSE courier[k]
        /\ \E r : th' = [th EXCEPT ![t] = r]
    BY <1>3 DEF CopyOut, CopyOutFails, GotoFor
  <2>2. \A u \in Threads \ {t} : th'[u] = th[u]
    BY <1>0, <2>1
  <2> QED
    BY <1>0, <2>1, <2>2 DEF AllHanded, Handed, At
<1> QED
  BY <1>1, <1>2, <1>3, CourierSteps

(* What is taken from the queue is read by the daemon, or still being      *)
(* copied by the read that took it, or lost with its -EFAULT.              *)
LEMMA NewsHanded == Spec => []AllHanded
<1>1. Init => AllHanded
  BY Ep0Assumption DEF Init, AllHanded, Handed
<1> QED
  BY <1>1, HandedStep, TypeCorrect, PTL DEF Spec

\* The first half of LatestKept for both kinds.
LatestTaken ==
  /\ LastOf(types, PowerTypes, taken.power) = raised.power
  /\ LastOf(types, LifecycleTypes, taken.life) = raised.life

(* Whatever the purge drops and however the daemon's reads are split, the  *)
(* latest power state and the latest of bind, unbind, enable and disable   *)
(* are the last queued or the last taken by a read, and what was taken has *)
(* been read, unless its read is still copying or has returned -EFAULT.    *)
THEOREM LatestNewsKept == Spec => []LatestKept
<1>1. Init => LatestTaken
  BY DEF Init, LatestTaken, LastOf
<1>2. TypeOK /\ QueueBounded /\ LatestTaken /\ [Next]_vars => LatestTaken'
  <2> SUFFICES ASSUME TypeOK, QueueBounded, LatestTaken, [Next]_vars PROVE LatestTaken'
    OBVIOUS
  <2>0. types \in Seq(EventTypes) /\ Len(types) <= 4
    BY DEF TypeOK, QueueBounded, QueueSize
  <2>1. CASE UNCHANGED <<types, taken, raised>>
    BY <2>1 DEF LatestTaken
  <2>2. ASSUME NEW t \in Threads, NEW n \in 1..QueueSize, ReadEvents(t, n)
        PROVE  LatestTaken'
    <3>1. /\ n \in 1..Len(types) /\ types' = DropFirst(types, n) /\ raised' = raised
          /\ taken'.power = LastOf(SubSeq(types, 1, n), PowerTypes, taken.power)
          /\ taken'.life = LastOf(SubSeq(types, 1, n), LifecycleTypes, taken.life)
      BY <2>2 DEF ReadEvents
    <3>2. LastOf(types', PowerTypes, taken'.power) = LastOf(types, PowerTypes, taken.power)
      BY <2>0, <3>1, LastSplit
    <3>3. LastOf(types', LifecycleTypes, taken'.life) = LastOf(types, LifecycleTypes, taken.life)
      BY <2>0, <3>1, LastSplit
    <3> QED
      BY <3>1, <3>2, <3>3 DEF LatestTaken
  <2>3. CASE EventAdded
    <3>1. /\ irq.type \in EventTypes /\ types' = EventAdd(types, irq.type) /\ taken' = taken
          /\ raised'.power = IF irq.type \in PowerTypes THEN irq.type ELSE raised.power
          /\ raised'.life = IF irq.type \in LifecycleTypes THEN irq.type ELSE raised.life
      BY <2>3 DEF EventAdded, LockFree, TypeOK
    <3>2. LastOf(types', PowerTypes, taken.power)
             = IF irq.type \in PowerTypes THEN irq.type ELSE LastOf(types, PowerTypes, taken.power)
      BY <2>0, <3>1, EventAddWord
    <3>3. LastOf(types', LifecycleTypes, taken.life)
             = IF irq.type \in LifecycleTypes THEN irq.type
               ELSE LastOf(types, LifecycleTypes, taken.life)
      BY <2>0, <3>1, EventAddWord
    <3> QED
      BY <3>1, <3>2, <3>3 DEF LatestTaken
  <2> QED
    BY <2>1, <2>2, <2>3, QueueSteps
<1>3. LatestTaken /\ AllHanded => LatestKept
  BY DEF LatestTaken, AllHanded, LatestKept, News
<1> QED
  BY <1>1, <1>2, <1>3, TypeCorrect, QueueWithinArray, NewsHanded, PTL DEF Spec

-----------------------------------------------------------------------------
(* The pending request.                                                    *)

(* The pending request is the last taken, and while an event source holds  *)
(* the lock what it has seen: a pending request that it is about to cancel. *)
PendingInv ==
  setup = "PENDING" => IF LockFree THEN taken.setup = request.id ELSE irq.pending

(* The steps that do not make a request pending.                           *)
LEMMA PendingSteps ==
  ASSUME TypeOK, [Next]_vars
  PROVE  \/ UNCHANGED <<taken, request, irq>> /\ setup' \in {setup, "NO_SETUP"}
         \/ \E t \in Threads, n \in 1..QueueSize : ReadEvents(t, n)
         \/ (\E type \in EventTypes : Raise(type)) \/ \E dir \in {"IN", "OUT"} : RaiseSetup(dir)
         \/ EventAdded
<1>1. ASSUME NEW t \in Threads, ThreadStep(t) \/ Call(t) \/ Refused(t)
      PROVE  \/ UNCHANGED <<taken, request, irq>> /\ setup' \in {setup, "NO_SETUP"}
             \/ \E n \in 1..QueueSize : ReadEvents(t, n)
  BY <1>1 DEF ThreadStep, Call, Refused, history, Enter, Lock, TryLockFails, Config, Ready,
     CheckWrite, CheckRead, ClearCancelled, ReadNothing, CopyOut, CopyOutFails, Stall, CopyFails, Recheck, Queue,
     Answered, Interrupted, Dequeue, Iorw, IorwDone, IorwGiveUp, AioSubmit, GetEp0Event
<1>2. CASE Udc
  BY <1>2 DEF Udc, history, Complete, CompleteTail, AioComplete
<1>3. CASE UNCHANGED vars
  BY <1>3 DEF vars
<1> QED
  BY <1>1, <1>2, <1>3 DEF Next, Gadget

(* Every step keeps PendingInv.                                            *)
LEMMA PendingStep == ASSUME TypeOK, PendingInv, [Next]_vars PROVE PendingInv'
<1>1. CASE UNCHANGED <<taken, request, irq>> /\ setup' \in {setup, "NO_SETUP"}
  BY <1>1 DEF PendingInv, LockFree
<1>2. ASSUME NEW t \in Threads, NEW n \in 1..QueueSize, ReadEvents(t, n)
      PROVE  PendingInv'
  <2>1. LockFree /\ UNCHANGED <<irq, request>>
    BY <1>2 DEF ReadEvents
  <2>2. CASE \E i \in 1..n : types[i] = "SETUP"
    <3>1. taken'.setup = request.id
      BY <1>2, <2>2 DEF ReadEvents
    <3> QED
      BY <2>1, <3>1 DEF PendingInv, LockFree
  <2>3. CASE ~\E i \in 1..n : types[i] = "SETUP"
    <3>1. taken'.setup = taken.setup /\ setup' = setup
      BY <1>2, <2>3 DEF ReadEvents
    <3> QED
      BY <2>1, <3>1 DEF PendingInv, LockFree
  <2> QED
    BY <2>2, <2>3
<1>3. CASE (\E type \in EventTypes : Raise(type)) \/ \E dir \in {"IN", "OUT"} : RaiseSetup(dir)
  <2>1. setup' = setup /\ irq'.pending = (setup = "PENDING") /\ irq'.type # "none"
    BY <1>3 DEF Raise, RaiseSetup, EventTypes, PowerTypes, LifecycleTypes
  <2> QED
    BY <2>1 DEF PendingInv, LockFree
<1>4. CASE EventAdded
  <2>1. setup' # "PENDING"
    BY <1>4 DEF EventAdded, PendingInv
  <2> QED
    BY <2>1 DEF PendingInv
<1> QED
  BY <1>1, <1>2, <1>3, <1>4, PendingSteps

(* ffs_ep0_read and ffs_ep0_write take direction and length from ev.setup: *)
(* while a request is pending it is the one a read took last, although     *)
(* ffs_func_setup overwrites it whenever the host sends another; and the   *)
(* daemon has it, unless that read is still copying or returned -EFAULT.   *)
THEOREM PendingTold == Spec => []PendingIsTold
<1>1. Init => PendingInv
  BY DEF Init, PendingInv
<1>2. PendingInv /\ AllHanded => PendingIsTold
  BY DEF PendingInv, AllHanded, PendingIsTold, News
<1> QED
  BY <1>1, <1>2, PendingStep, TypeCorrect, NewsHanded, PTL DEF Spec

-----------------------------------------------------------------------------
(* A daemon that only reads and writes, on one processor.                  *)

Answering == {"stall", "copy", "queue", "wait"}

\* The request a thread answers is the one a read took last, and so is the one
\* in the UDC, whose thread sleeps with the mutex.
EndInv ==
  /\ tail = {} /\ aio = {} /\ fifo = <<>>
  /\ \A t \in Threads : /\ th[t].pc \notin {"iowait", "iodrain"}
                        /\ th[t].pc \in Answering => th[t].seen = taken.setup
  /\ ep0req.st = "queued" => /\ done = 0 /\ ep0req.for = taken.setup
                             /\ mutex \in Threads /\ th[mutex].pc = "wait"

\* One thread goes to p, with what it has seen of the request if it answers it.
Moves(t, p) ==
  /\ th' \in [Threads -> ThreadRec] /\ th'[t].pc = p
  /\ \A u \in Threads \ {t} : th'[u] = th[u]
  /\ p \in Answering => th'[t].seen = taken.setup

(* How a thread moves.                                                     *)
LEMMA MovesTo ==
  ASSUME TypeOK, NEW t \in Threads, NEW p \in Pcs, NEW i \in Ids
  PROVE  /\ Goto(t, p) /\ (p \in Answering => th[t].seen = taken.setup) => Moves(t, p)
         /\ GotoFor(t, p, i) /\ (p \in Answering => i = taken.setup) => Moves(t, p)
<1>1. th \in [Threads -> ThreadRec]
  BY DEF TypeOK
<1>2. ASSUME Goto(t, p), p \in Answering => th[t].seen = taken.setup PROVE Moves(t, p)
  BY <1>1, <1>2 DEF Goto, Moves, ThreadRec
<1>3. ASSUME GotoFor(t, p, i), p \in Answering => i = taken.setup PROVE Moves(t, p)
  BY <1>1, <1>3 DEF GotoFor, Moves, ThreadRec
<1> QED
  BY <1>2, <1>3

(* A move of a thread outside the UDC's wait keeps EndInv.                 *)
LEMMA MoveKeeps ==
  ASSUME EndInv, NEW t \in Threads, NEW p \in Pcs \ {"iowait", "iodrain"}, Moves(t, p),
         UNCHANGED <<tail, aio, fifo>>,
         taken'.setup = taken.setup \/ \A u \in Threads \ {t} : th[u].pc \notin Answering,
         taken'.setup # taken.setup => p \notin Answering,
         ep0req'.st = "queued" => /\ done' = 0 /\ ep0req'.for = taken'.setup
                                  /\ mutex' \in Threads /\ th'[mutex'].pc = "wait"
  PROVE  EndInv'
<1>1. ASSUME NEW u \in Threads
      PROVE  /\ th'[u].pc \notin {"iowait", "iodrain"}
             /\ th'[u].pc \in Answering => th'[u].seen = taken'.setup
  <2>1. CASE u = t
    BY <2>1 DEF Moves
  <2>2. CASE u # t
    <3>1. /\ th'[u] = th[u] /\ th[u].pc \notin {"iowait", "iodrain"}
          /\ th[u].pc \in Answering => th[u].seen = taken.setup
      BY <2>2 DEF Moves, EndInv
    <3>2. taken'.setup = taken.setup \/ th[u].pc \notin Answering
      BY <2>2
    <3> QED
      BY <3>1, <3>2
  <2> QED
    BY <2>1, <2>2
<1> QED
  BY <1>1 DEF EndInv

\* The steps that leave the shared request and what has been read alone, of a
\* thread that is not asleep in __ffs_ep0_queue_wait.
Elsewhere(t) ==
  /\ UNCHANGED <<tail, aio, fifo, taken, ep0req, done>> /\ th[t].pc # "wait"
  /\ mutex' = mutex \/ mutex = t \/ mutex = Nobody

(* They keep EndInv.                                                       *)
LEMMA ElsewhereKeeps ==
  ASSUME EndInv, NEW t \in Threads, NEW p \in Pcs \ {"iowait", "iodrain"}, Moves(t, p),
         Elsewhere(t)
  PROVE  EndInv'
<1>1. ASSUME ep0req'.st = "queued"
      PROVE  /\ done' = 0 /\ ep0req'.for = taken'.setup
             /\ mutex' \in Threads /\ th'[mutex'].pc = "wait"
  <2>1. ep0req.st = "queued" /\ mutex \in Threads /\ th[mutex].pc = "wait"
    BY <1>1 DEF EndInv, Elsewhere
  <2>2. mutex # t /\ mutex # Nobody
    BY <2>1, Ep0Assumption DEF Elsewhere
  <2> QED
    BY <1>1, <2>1, <2>2 DEF EndInv, Elsewhere, Moves
<1>2. UNCHANGED <<tail, aio, fifo>> /\ taken' = taken
  BY DEF Elsewhere
<1> QED
  BY <1>1, <1>2, MoveKeeps

(* A step of a thread.                                                     *)
LEMMA EndThread ==
  ASSUME ~SyncIorw, MaxAio = 0, TypeOK, HolderInside, PendingInv, EndInv,
         NEW t \in Threads, ThreadStep(t) \/ Call(t) \/ Refused(t)
  PROVE  /\ EndInv'
         /\ setup = "PENDING" /\ setup' = "NO_SETUP" => ended' = taken.setup
<1> DEFINE Own == setup = "PENDING" /\ setup' = "NO_SETUP" => ended' = taken.setup
<1>0. /\ "idle" \in Pcs \ {"iowait", "iodrain"} /\ "idle" \notin Answering
      /\ th[t].seen \in Ids /\ th[t].pc \in Pcs /\ request.id \in Ids
  BY DEF Pcs, Answering, TypeOK, ThreadRec
<1>1. ASSUME NEW p \in Pcs \ ({"iowait", "iodrain"} \cup Answering),
             Goto(t, p) \/ \E i \in Ids : GotoFor(t, p, i)
      PROVE  Moves(t, p)
  <2>1. p \in Pcs /\ p \notin Answering
    OBVIOUS
  <2>2. ASSUME NEW i \in Ids, Goto(t, p) \/ GotoFor(t, p, i) PROVE Moves(t, p)
    BY <2>1, <2>2, MovesTo
  <2> QED
    BY <1>0, <1>1, <2>2
<1>2. CASE \E op \in {"read", "write"} : Enter(t, op)
  <2>1. /\ Elsewhere(t) /\ Own /\ th[t].pc = "idle"
        /\ th' = th \/ \E op \in {"read", "write"} : th' = [th EXCEPT ![t] = [pc |-> "lock", op |-> op, seen |-> 0]]
    BY <1>2 DEF Enter, Elsewhere, history, ClearCancelled, At
  <2>2. CASE th' = th
    <3>1. Moves(t, "idle")
      BY <1>0, <2>1, <2>2 DEF Moves, TypeOK
    <3> QED
      BY <1>0, <2>1, <3>1, ElsewhereKeeps
  <2>3. ASSUME NEW op \in {"read", "write"}, th' = [th EXCEPT ![t] = [pc |-> "lock", op |-> op, seen |-> 0]]
        PROVE  EndInv'
    <3>1. [pc |-> "lock", op |-> op, seen |-> 0] \in ThreadRec
      BY Ep0Assumption DEF ThreadRec, Pcs, Ids
    <3>2. Moves(t, "lock")
      BY <2>3, <3>1 DEF Moves, TypeOK, Answering
    <3> QED
      BY <2>1, <3>2, ElsewhereKeeps DEF Pcs
  <2> QED
    BY <2>1, <2>2, <2>3
<1>3. CASE Lock(t)
  <2>1. /\ Elsewhere(t) /\ Own
        /\ \E p \in {"check", "config", "idle"} : Goto(t, p)
    BY <1>3 DEF Lock, Elsewhere, history, At, Return
  <2> QED
    BY <1>1, <2>1, ElsewhereKeeps DEF Pcs, Answering
<1>4. CASE Config(t)
  <2>1. /\ Elsewhere(t) /\ Own /\ \E p \in {"ready", "idle"} : Goto(t, p)
    BY <1>4 DEF Config, Elsewhere, history, At, Return, HolderInside, Inside
  <2> QED
    BY <1>1, <2>1, ElsewhereKeeps DEF Pcs, Answering
<1>5. CASE Ready(t)
  <2>1. /\ Elsewhere(t) /\ Own /\ Goto(t, "idle")
    BY <1>5 DEF Ready, Elsewhere, history, At
  <2> QED
    BY <1>0, <1>1, <2>1, ElsewhereKeeps
<1>6. CASE CheckWrite(t) \/ CheckRead(t)
  <2>1. /\ Elsewhere(t) /\ Own
        /\ \/ Goto(t, "idle") \/ Goto(t, "waitev")
           \/ setup = "PENDING" /\ LockFree /\ \E p \in {"copy", "stall"} : GotoFor(t, p, request.id)
    BY <1>6 DEF CheckWrite, CheckRead, Elsewhere, history, At, Return, HolderInside, Inside,
       ClearCancelled
  <2>2. ASSUME setup = "PENDING", LockFree, NEW p \in {"copy", "stall"}, GotoFor(t, p, request.id)
        PROVE  EndInv'
    <3>1. request.id = taken.setup
      BY <2>2 DEF PendingInv
    <3>2. p \in Pcs \ {"iowait", "iodrain"}
      BY DEF Pcs
    <3>3. Moves(t, p)
      BY <1>0, <2>2, <3>1, <3>2, MovesTo
    <3> QED
      BY <2>1, <3>2, <3>3, ElsewhereKeeps
  <2> QED
    BY <1>1, <2>1, <2>2, ElsewhereKeeps DEF Pcs, Answering
<1>7. CASE \E n \in 1..QueueSize : ReadEvents(t, n)
  <2>1. /\ mutex = t /\ th[t].pc = "waitev" /\ Own
        /\ UNCHANGED <<tail, aio, fifo, ep0req>>
    BY <1>7 DEF ReadEvents, At, HolderInside, Inside
  <2>4. "copyout" \in Pcs \ ({"iowait", "iodrain"} \cup Answering) /\ 0 \in Ids
    BY Ep0Assumption DEF Pcs, Answering, Ids
  <2>5. Moves(t, "copyout")
    <3>1. \E i \in Ids : GotoFor(t, "copyout", i)
      BY <1>0, <1>7, <2>4 DEF ReadEvents
    <3> QED
      BY <1>1, <2>4, <3>1
  <2>2. ep0req.st # "queued"
    BY <2>1 DEF EndInv
  <2>3. \A u \in Threads \ {t} : th[u].pc \notin Answering
    BY <2>1 DEF HolderInside, Inside, Answering
  <2> QED
    BY <2>1, <2>2, <2>3, <2>4, <2>5, MoveKeeps
<1>16. CASE CopyOut(t) \/ CopyOutFails(t)
  <2>1. 0 \in Ids
    BY Ep0Assumption DEF Ids
  <2>2. /\ Elsewhere(t) /\ Own /\ GotoFor(t, "idle", 0)
    BY <1>16 DEF CopyOut, CopyOutFails, Elsewhere, At
  <2> QED
    BY <1>0, <1>1, <2>1, <2>2, ElsewhereKeeps
<1>8. CASE ReadNothing(t) \/ CopyFails(t)
  <2>1. /\ Elsewhere(t) /\ Own /\ Goto(t, "idle")
    BY <1>8 DEF ReadNothing, CopyFails, Elsewhere, history, At, Return, HolderInside, Inside
  <2> QED
    BY <1>0, <1>1, <2>1, ElsewhereKeeps
<1>9. CASE Stall(t)
  <2>1. /\ Elsewhere(t) /\ Goto(t, "idle") /\ ended' = th[t].seen /\ th[t].pc = "stall"
    BY <1>9 DEF Stall, Elsewhere, history, At, Return, HolderInside, Inside
  <2>2. Own
    BY <2>1 DEF EndInv, Answering
  <2> QED
    BY <1>0, <1>1, <2>1, <2>2, ElsewhereKeeps
<1>10. CASE Recheck(t)
  <2>1. /\ Elsewhere(t) /\ Own /\ th[t].seen = taken.setup
        /\ Goto(t, "idle") \/ Goto(t, "queue")
    BY <1>10 DEF Recheck, Elsewhere, history, At, Return, HolderInside, Inside, ClearCancelled,
       EndInv, Answering
  <2>2. ASSUME Goto(t, "queue") PROVE EndInv'
    <3>1. "queue" \in Pcs \ {"iowait", "iodrain"}
      BY DEF Pcs
    <3>2. Moves(t, "queue")
      BY <1>0, <2>1, <2>2, <3>1, MovesTo
    <3> QED
      BY <2>1, <3>1, <3>2, ElsewhereKeeps
  <2> QED
    BY <1>0, <1>1, <2>1, <2>2, ElsewhereKeeps
<1>11. CASE Queue(t)
  <2>1. /\ mutex = t /\ th[t].pc = "queue" /\ th[t].seen = taken.setup /\ Own
        /\ UNCHANGED <<tail, aio, fifo, taken>> /\ done' = 0
    BY <1>11 DEF Queue, QueueEp0, history, At, HolderInside, Inside, EndInv, Answering
  <2>2. ep0req.st # "queued"
    BY <2>1 DEF EndInv
  <2>3. CASE /\ ep0req' = [st |-> "queued", for |-> th[t].seen] /\ GotoFor(t, "wait", th[t].seen)
             /\ mutex' = mutex
    <3>1. "wait" \in Pcs \ {"iowait", "iodrain"}
      BY DEF Pcs
    <3>2. Moves(t, "wait")
      BY <1>0, <2>1, <2>3, <3>1, MovesTo
    <3>3. /\ done' = 0 /\ ep0req'.for = taken'.setup /\ mutex' \in Threads /\ th'[mutex'].pc = "wait"
      BY <2>1, <2>3, <3>2 DEF Moves
    <3> QED
      BY <2>1, <3>1, <3>2, <3>3, MoveKeeps
  <2>4. CASE ep0req' = ep0req /\ Goto(t, "idle")
    BY <1>0, <1>1, <2>1, <2>2, <2>4, MoveKeeps
  <2> QED
    BY <1>11, <2>1, <2>3, <2>4 DEF Queue, QueueEp0, Return
<1>12. CASE Answered(t) \/ Interrupted(t)
  <2>1. /\ mutex = t /\ th[t].pc = "wait" /\ th[t].seen = taken.setup /\ Goto(t, "idle")
        /\ UNCHANGED <<tail, aio, fifo, taken>>
    BY <1>12 DEF Answered, Interrupted, Return, history, At, HolderInside, Inside, EndInv, Answering
  <2>2. CASE Answered(t)
    <3>1. ep0req'.st # "queued" /\ ended' = th[t].seen
      BY <2>2 DEF Answered, EndInv
    <3> QED
      BY <1>0, <1>1, <2>1, <3>1, MoveKeeps
  <2>3. CASE Interrupted(t)
    <3>1. CASE ep0req.st = "queued"
      <4>1. ep0req'.st # "queued" /\ ended' = ep0req.for /\ ep0req.for = taken.setup
        BY <2>3, <3>1 DEF Interrupted, Dequeue, NoReq, EndInv
      <4> QED
        BY <1>0, <1>1, <2>1, <4>1, MoveKeeps
    <3>2. CASE ep0req.st # "queued"
      <4>1. ep0req'.st # "queued" /\ setup' = setup
        BY <2>3, <3>2 DEF Interrupted, Dequeue
      <4> QED
        BY <1>0, <1>1, <2>1, <4>1, MoveKeeps
    <3> QED
      BY <3>1, <3>2
  <2> QED
    BY <1>12, <2>2, <2>3
<1>13. CASE TryLockFails(t)
  <2>1. /\ Elsewhere(t) /\ Own /\ Goto(t, "idle")
    BY <1>13 DEF TryLockFails, Elsewhere, history, At
  <2> QED
    BY <1>0, <1>1, <2>1, ElsewhereKeeps
<1>14. ~(Iorw(t) \/ IorwDone(t) \/ IorwGiveUp(t) \/ GetEp0Event(t))
  BY DEF Iorw, IorwDone, IorwGiveUp, GetEp0Event, EndInv, At
<1>15. ~AioSubmit(t)
  <2>1. aio = {} /\ ~(0 < MaxAio)
    BY DEF EndInv
  <2> QED
    BY <2>1, FS_EmptySet DEF AioSubmit
<1> QED
  BY <1>2, <1>3, <1>4, <1>5, <1>6, <1>7, <1>8, <1>9, <1>10, <1>11, <1>12, <1>13, <1>14, <1>15, <1>16
     DEF ThreadStep, Call, Refused

(* setup_state leaves PENDING for NO_SETUP only on behalf of the pending   *)
(* request, for any number of threads that read and write only, on a       *)
(* uniprocessor: there no late completion handler and no FUNCTIONFS_       *)
(* ENDPOINT call can end a request that came after the one they answer.    *)
THEOREM OwnRequestEnded ==
  ASSUME ~Smp, ~SyncIorw, MaxAio = 0 PROVE Spec => EndsItsOwnRequest
<1>1. Init => EndInv
  BY DEF Init, EndInv, NoReq, Answering
<1>2. Init => PendingInv
  BY DEF Init, PendingInv
<1> DEFINE All == TypeOK /\ HolderInside /\ PendingInv /\ EndInv
<1>3. ASSUME All, [Next]_vars
      PROVE  EndInv' /\ (setup = "PENDING" /\ setup' = "NO_SETUP" => ended' = taken.setup)
  <2>1. ASSUME NEW t \in Threads, ThreadStep(t) \/ Call(t) \/ Refused(t)
        PROVE  EndInv' /\ (setup = "PENDING" /\ setup' = "NO_SETUP" => ended' = taken.setup)
    BY <1>3, <2>1, EndThread
  <2>2. CASE Complete
    BY <1>3, <2>2 DEF Complete, EndInv, NoReq, history
  <2>3. CASE (\E id \in Ids : CompleteTail(id)) \/ \E id \in Ids : AioComplete(id)
    BY <1>3, <2>3 DEF CompleteTail, AioComplete, EndInv
  <2>4. CASE Gadget \/ UNCHANGED vars
    <3>1. /\ UNCHANGED <<tail, aio, fifo, th, taken, ep0req, done, mutex>>
          /\ setup' = setup \/ setup' = "CANCELLED"
      BY <2>4 DEF Gadget, vars, Raise, RaiseSetup, EventAdded, history
    <3> QED
      BY <1>3, <3>1 DEF EndInv
  <2> QED
    BY <1>3, <2>1, <2>2, <2>3, <2>4 DEF Next, Udc
<1>4. Spec => []PendingInv
  BY <1>2, PendingStep, TypeCorrect, PTL DEF Spec
<1>5. Spec => []EndInv
  BY <1>1, <1>3, <1>4, TypeCorrect, OneInside, PTL DEF Spec
<1>6. All /\ [Next]_vars => [setup = "PENDING" /\ setup' = "NO_SETUP" => ended' = taken.setup]_vars
  BY <1>3
<1> QED
  BY <1>4, <1>5, <1>6, TypeCorrect, OneInside, PTL DEF Spec, EndsItsOwnRequest
==============================================================================
