----------------------------- MODULE Osal_proofs ------------------------------
(***************************************************************************)
(* Theorems about the OS abstraction: character devices, timers, work      *)
(* queues and memory.                                                      *)
(***************************************************************************)
EXTENDS OsalCdev, OsalTimer, OsalWork, OsalMem, FiniteSetTheorems, SequenceTheorems, TLAPS

-----------------------------------------------------------------------------
(* OsalCdev.                                                               *)

Places == {"free", "allocated", "init", "region", "class"} \cup
          {"minor", "added", "registered", "hidden", "unwound"}

CdTypeOK ==
  /\ class \in {"none", "registered"} /\ initted \in BOOLEAN /\ ids \subseteq Minors
  /\ op \in [Cdevs -> Places] /\ minor \in [Cdevs -> Minors \cup {NoMinor}]
  /\ cdevMap \subseteq Cdevs /\ nodes \subseteq Cdevs

\* A class that may be unregistered again has no device yet.
ClassMadeOnce ==
  /\ initted => class = "registered"
  /\ \A d \in Cdevs : op[d] = "region" => class = "registered" /\ ~initted
  /\ \A d, e \in Cdevs : op[d] = "region" /\ op[e] = "region" => d = e
  /\ \A d \in Holders : initted
  /\ \A d \in Cdevs : op[d] = "class" => initted

\* What is reachable is what its thread has added and not yet removed.
Reachable ==
  /\ cdevMap = {d \in Cdevs : op[d] \in {"added", "registered", "hidden"}}
  /\ nodes = {d \in Cdevs : op[d] = "registered"}

\* A minor in use is one device's.
OneOwner ==
  /\ ids = {minor[d] : d \in Holders}
  /\ \A d, e \in Holders : minor[d] = minor[e] => d = e

CdIInv == CdTypeOK /\ ClassMadeOnce /\ Reachable /\ OneOwner

-----------------------------------------------------------------------------
(* Before the first registration nothing is taken.                          *)
LEMMA InitCdIInv == CdInit => CdIInv
  BY DEF CdInit, CdIInv, CdTypeOK, Places, ClassMadeOnce, Reachable, OneOwner, Holders

\* The steps that leave every minor with its device.
KeepsHolders(d) ==
  \/ OsalAllocCdev(d) \/ HdfClassInit(d) \/ ClassRegister(d) \/ ClassRegisterFails(d)
  \/ AllocRegion(d) \/ AllocRegionFails(d) \/ NoMinorLeft(d) \/ CdevAdd(d) \/ DeviceAdd(d)
  \/ DeviceAddFails(d) \/ DeviceDel(d) \/ CdevDel(d)

\* The steps that give a minor back.
GivesBack(d) == CdevAddFails(d) \/ RemoveMinor(d)

(* Every step keeps the types.                                              *)
LEMMA StepCdTypeOK ==
  ASSUME CdIInv, CdNext
  PROVE  CdTypeOK'
<1> PICK d \in Cdevs : KeepsHolders(d) \/ GetMinor(d) \/ GivesBack(d) \/ OsalFreeCdev(d)
  BY DEF CdNext, KeepsHolders, GivesBack
<1>1. CASE KeepsHolders(d)
  BY <1>1 DEF KeepsHolders, CdIInv, CdTypeOK, Places, Go, OsalAllocCdev, HdfClassInit, ClassRegister,
     ClassRegisterFails, AllocRegion, AllocRegionFails, NoMinorLeft, CdevAdd, DeviceAdd,
     DeviceAddFails, DeviceDel, CdevDel
<1>2. CASE GetMinor(d)
  BY <1>2 DEF GetMinor, CdIInv, CdTypeOK, Places, Go
<1>3. CASE GivesBack(d) \/ OsalFreeCdev(d)
  BY <1>3 DEF GivesBack, CdevAddFails, RemoveMinor, OsalFreeCdev, CdIInv, CdTypeOK, Places, Go
<1> QED
  BY <1>1, <1>2, <1>3

(* Every step keeps the class under its devices.                            *)
LEMMA StepClassMadeOnce ==
  ASSUME CdIInv, CdNext
  PROVE  ClassMadeOnce'
<1> PICK d \in Cdevs : KeepsHolders(d) \/ GetMinor(d) \/ GivesBack(d) \/ OsalFreeCdev(d)
  BY DEF CdNext, KeepsHolders, GivesBack
<1>1. CASE KeepsHolders(d)
  BY <1>1 DEF KeepsHolders, CdIInv, CdTypeOK, Places, ClassMadeOnce, Holders, Go, OsalAllocCdev, HdfClassInit,
     ClassRegister, ClassRegisterFails, AllocRegion, AllocRegionFails, NoMinorLeft, CdevAdd,
     DeviceAdd, DeviceAddFails, DeviceDel, CdevDel
<1>2. CASE GetMinor(d)
  BY <1>2 DEF GetMinor, CdIInv, CdTypeOK, Places, ClassMadeOnce, Holders, Go
<1>3. CASE GivesBack(d) \/ OsalFreeCdev(d)
  BY <1>3 DEF GivesBack, CdevAddFails, RemoveMinor, OsalFreeCdev, CdIInv, CdTypeOK, Places,
     ClassMadeOnce, Holders, Go
<1> QED
  BY <1>1, <1>2, <1>3

(* Every step keeps the map of numbers and the class's devices.             *)
LEMMA StepReachable ==
  ASSUME CdIInv, CdNext
  PROVE  Reachable'
<1> PICK d \in Cdevs : KeepsHolders(d) \/ GetMinor(d) \/ GivesBack(d) \/ OsalFreeCdev(d)
  BY DEF CdNext, KeepsHolders, GivesBack
<1>1. CASE KeepsHolders(d)
  BY <1>1 DEF KeepsHolders, CdIInv, CdTypeOK, Places, Reachable, Go, OsalAllocCdev, HdfClassInit,
     ClassRegister, ClassRegisterFails, AllocRegion, AllocRegionFails, NoMinorLeft, CdevAdd,
     DeviceAdd, DeviceAddFails, DeviceDel, CdevDel
<1>2. CASE GetMinor(d)
  BY <1>2 DEF GetMinor, CdIInv, CdTypeOK, Places, Reachable, Go
<1>3. CASE GivesBack(d) \/ OsalFreeCdev(d)
  BY <1>3 DEF GivesBack, CdevAddFails, RemoveMinor, OsalFreeCdev, CdIInv, CdTypeOK, Places,
     Reachable, Go
<1> QED
  BY <1>1, <1>2, <1>3

(* A step gives a minor nobody has, gives back its own, or moves none.      *)
LEMMA StepOneOwner ==
  ASSUME CdIInv, CdNext
  PROVE  OneOwner'
<1> PICK d \in Cdevs : KeepsHolders(d) \/ GetMinor(d) \/ GivesBack(d) \/ OsalFreeCdev(d)
  BY DEF CdNext, KeepsHolders, GivesBack
<1>1. CASE KeepsHolders(d)
  <2>1. Holders' = Holders
    BY <1>1 DEF KeepsHolders, CdIInv, CdTypeOK, Places, Holders, Go, OsalAllocCdev, HdfClassInit,
       ClassRegister, ClassRegisterFails, AllocRegion, AllocRegionFails, NoMinorLeft, CdevAdd,
       DeviceAdd, DeviceAddFails, DeviceDel, CdevDel
  <2>2. UNCHANGED <<ids, minor>>
    BY <1>1 DEF KeepsHolders, OsalAllocCdev, HdfClassInit, ClassRegister, ClassRegisterFails,
       AllocRegion, AllocRegionFails, NoMinorLeft, CdevAdd, DeviceAdd, DeviceAddFails, DeviceDel, CdevDel
  <2> QED
    BY <2>1, <2>2 DEF CdIInv, OneOwner
<1>2. CASE GetMinor(d)
  <2>1. PICK m \in Minors \ ids : ids' = ids \cup {m} /\ minor' = [minor EXCEPT ![d] = m]
    BY <1>2 DEF GetMinor
  <2>2. d \notin Holders /\ Holders' = Holders \cup {d}
    BY <1>2 DEF GetMinor, Go, CdIInv, CdTypeOK, Places, Holders
  <2>3. minor'[d] = m /\ \A e \in Holders : minor'[e] = minor[e]
    BY <2>1, <2>2 DEF CdIInv, CdTypeOK
  <2> QED
    BY <2>1, <2>2, <2>3 DEF CdIInv, OneOwner
<1>3. CASE GivesBack(d)
  <2>1. ids' = ids \ {minor[d]} /\ minor' = minor
    BY <1>3 DEF GivesBack, CdevAddFails, RemoveMinor
  <2>2. d \in Holders /\ Holders' = Holders \ {d}
    BY <1>3 DEF GivesBack, CdevAddFails, RemoveMinor, Go, CdIInv, CdTypeOK, Places, Holders
  <2> QED
    BY <2>1, <2>2 DEF CdIInv, OneOwner
<1>4. CASE OsalFreeCdev(d)
  <2>1. d \notin Holders /\ Holders' = Holders /\ ids' = ids
    BY <1>4 DEF OsalFreeCdev, Go, CdIInv, CdTypeOK, Places, Holders
  <2>2. \A e \in Holders : minor'[e] = minor[e]
    BY <1>4, <2>1 DEF OsalFreeCdev, CdIInv, CdTypeOK, Holders
  <2> QED
    BY <2>1, <2>2 DEF CdIInv, OneOwner
<1> QED
  BY <1>1, <1>2, <1>3, <1>4

(* No two devices share a minor and no device is without the class, however *)
(* OsalRegisterCdev and OsalUnregisterCdev of any number of them interleave *)
(* and fail.                                                                *)
THEOREM MinorsHaveOwners == CdSpec => []MinorsOwned
<1>1. CdIInv => MinorsOwned
  BY DEF CdIInv, ClassMadeOnce, Reachable, OneOwner, MinorsOwned, Holders
<1>2. CdIInv /\ UNCHANGED cdVars => CdIInv'
  BY DEF cdVars, CdIInv, CdTypeOK, ClassMadeOnce, Reachable, OneOwner, Holders
<1>3. CdIInv /\ [CdNext]_cdVars => CdIInv'
  BY <1>2, StepCdTypeOK, StepClassMadeOnce, StepReachable, StepOneOwner DEF CdIInv
<1> QED
  BY InitCdIInv, <1>1, <1>3, PTL DEF CdSpec

-----------------------------------------------------------------------------
(* OsalTimer.                                                              *)

TimerData == [alive : BOOLEAN, started : BOOLEAN, mode : Modes, stop : BOOLEAN,
              armed : BOOLEAN, cb : {"idle", "call", "func"}, read : Modes]

TmTypeOK ==
  /\ kt \in [Timers -> TimerData] /\ late \in [Timers -> Nat]
  /\ realTimer \in Timers \cup {NoTimer} /\ deleting \in Timers \cup {NoTimer}

\* The client still has the timer it is deleting; a stopped one is otherwise out
\* of its hands, and the call of func under way when it was stopped is the last.
\* Of a timer freed between the halves only OsalTimerDelete still knows.
TimerIs(k, t, n, real, del, freed) ==
  /\ ~freed /\ (t.armed \/ t.cb # "idle" \/ real = k) => t.alive
  /\ ~freed /\ real = k => (t.stop <=> del = k)
  /\ freed => ~t.alive /\ ~t.stop /\ t.cb = "idle" /\ (real = k => del = k) /\ (del = k => ~t.armed)
  /\ t.alive /\ ~t.stop => n = 0
  /\ t.stop /\ t.cb = "call" => n = 0
  /\ n <= 1

TimerOK(k) == TimerIs(k, kt[k], late[k], realTimer, deleting, k \in gone)

TmIInv ==
  /\ TmTypeOK
  /\ deleting # NoTimer => realTimer = deleting
  /\ \A k \in Timers : TimerOK(k)

(* Before the first OsalTimerCreate there is nothing to find freed.        *)
LEMMA InitTmIInv == TmInit => TmIInv
<1>1. SUFFICES ASSUME TmInit PROVE TmIInv
  OBVIOUS
<1>2. Free \in TimerData /\ ~Free.alive /\ ~Free.stop /\ ~Free.armed /\ Free.cb = "idle"
  BY DEF Free, TimerData, Modes
<1>3. TmTypeOK
  BY <1>1, <1>2 DEF TmInit, TmTypeOK
<1>4. \A k \in Timers : TimerOK(k)
  BY <1>1, <1>2, TimerAssumption DEF TmInit, TimerOK, TimerIs
<1> QED
  BY <1>1, <1>3, <1>4 DEF TmInit, TmIInv

(* A step on one timer leaves what holds of the others.                    *)
LEMMA OthersKept ==
  ASSUME TmIInv, NEW k \in Timers, NEW t \in TimerData, NEW n \in Nat,
         kt' = [kt EXCEPT ![k] = t], late' = [late EXCEPT ![k] = n],
         realTimer' \in {realTimer, k, NoTimer}, deleting' \in {deleting, k, NoTimer},
         \A j \in Timers \ {k} : realTimer' = j => deleting' = deleting,
         deleting' # NoTimer => realTimer' = deleting',
         \A j \in Timers \ {k} : j \in gone' <=> j \in gone,
         TimerIs(k, t, n, realTimer', deleting', k \in gone')
  PROVE  TmIInv'
<1>1. TmTypeOK'
  BY DEF TmIInv, TmTypeOK
<1>2. kt'[k] = t /\ late'[k] = n
  BY DEF TmIInv, TmTypeOK
<1>3. TimerOK(k)'
  BY <1>2 DEF TimerOK
<1>4. ASSUME NEW j \in Timers \ {k} PROVE TimerOK(j)'
  <2>1. kt'[j] = kt[j] /\ late'[j] = late[j]
    BY DEF TmIInv, TmTypeOK
  <2>2. /\ realTimer' = j => realTimer = j /\ deleting' = deleting
        /\ deleting' = j => deleting = j
    BY TimerAssumption
  <2>3. TimerOK(j)
    BY DEF TmIInv
  <2> QED
    BY <2>1, <2>2, <2>3 DEF TimerOK, TimerIs
<1> QED
  BY <1>1, <1>3, <1>4 DEF TmIInv

(* No step makes the memory of a timer go away under what still uses it,   *)
(* but for a callback between the halves of OsalTimerDelete.               *)
LEMMA StepTmIInv == TmIInv /\ [TmNext]_tmVars => TmIInv'
<1>1. SUFFICES ASSUME TmIInv, [TmNext]_tmVars PROVE TmIInv'
  OBVIOUS
<1>2. /\ \A k \in Timers : kt[k] \in TimerData /\ late[k] \in Nat /\ TimerOK(k)
      /\ late = [k \in Timers |-> late[k]]
      /\ deleting # NoTimer => realTimer = deleting
      /\ realTimer \in Timers \cup {NoTimer} /\ deleting \in Timers \cup {NoTimer}
  BY <1>1 DEF TmIInv, TmTypeOK
<1>3. CASE OsalTimerCreate
  <2>1. PICK k \in Timers : /\ ~kt[k].alive /\ k \notin gone /\ kt' = [kt EXCEPT ![k] = [Free EXCEPT !.alive = TRUE]]
                            /\ late' = [late EXCEPT ![k] = 0]
                            /\ realTimer' = k
    BY <1>3 DEF OsalTimerCreate
  <2>2. realTimer = NoTimer /\ deleting = NoTimer /\ deleting' = deleting /\ gone' = gone
    BY <1>3 DEF OsalTimerCreate
  <2>3. PICK t \in TimerData : t = [Free EXCEPT !.alive = TRUE]
    BY DEF TimerData, Modes, Free
  <2>4. t.alive /\ ~t.armed /\ t.cb = "idle" /\ ~t.stop
    BY <2>3 DEF Free
  <2>5. kt' = [kt EXCEPT ![k] = t]
    BY <2>1, <2>3
  <2>6. TimerIs(k, t, 0, realTimer', deleting', k \in gone')
    BY <2>1, <2>2, <2>4, TimerAssumption DEF TimerIs
  <2> QED
    BY <1>1, <2>1, <2>2, <2>5, <2>6, TimerAssumption, OthersKept
<1>4. ASSUME NEW mode \in Modes, OsalTimerStart(mode) PROVE TmIInv'
  <2>1. PICK k \in Timers : k = realTimer
    BY <1>2, <1>4 DEF OsalTimerStart
  <2>2. PICK t \in TimerData :
          t = [kt[k] EXCEPT !.started = TRUE, !.mode = mode, !.armed = TRUE]
    BY <1>2, <1>4 DEF TimerData
  <2>3. t.alive = kt[k].alive /\ t.armed /\ t.cb = kt[k].cb /\ t.stop = kt[k].stop
    BY <1>2, <2>2 DEF TimerData
  <2>4. /\ kt' = [kt EXCEPT ![k] = t] /\ late' = [late EXCEPT ![k] = late[k]]
        /\ deleting = NoTimer /\ UNCHANGED <<realTimer, deleting, gone>>
    BY <1>2, <1>4, <2>1, <2>2 DEF OsalTimerStart
  <2> QED
    <3>1. k \notin gone
      BY <1>2, <2>1, <2>4, TimerAssumption DEF TimerOK, TimerIs
    <3>2. TimerIs(k, t, late[k], realTimer', deleting', k \in gone')
      BY <1>2, <2>1, <2>3, <2>4, <3>1 DEF TimerOK, TimerIs
    <3> QED
      BY <1>1, <1>2, <2>1, <2>4, <3>2, OthersKept
<1>5. CASE OsalTimerStop
  <2>1. PICK k \in Timers : k = realTimer
    BY <1>2, <1>5 DEF OsalTimerStop
  <2>2. PICK t \in TimerData : t = [kt[k] EXCEPT !.stop = TRUE]
    BY <1>2 DEF TimerData
  <2>3. t.alive = kt[k].alive /\ t.armed = kt[k].armed /\ t.cb = kt[k].cb /\ t.stop
    BY <1>2, <2>2 DEF TimerData
  <2>4. /\ kt' = [kt EXCEPT ![k] = t] /\ late' = [late EXCEPT ![k] = late[k]]
        /\ realTimer' = realTimer /\ deleting = NoTimer /\ deleting' = k /\ gone' = gone
    BY <1>2, <1>5, <2>1, <2>2 DEF OsalTimerStop
  <2>5. late[k] = 0 /\ k \notin gone
    BY <1>2, <2>1, <2>4, TimerAssumption DEF TimerOK, TimerIs
  <2> QED
    <3>1. TimerIs(k, t, late[k], realTimer', deleting', k \in gone')
      BY <1>2, <2>1, <2>3, <2>4, <2>5 DEF TimerOK, TimerIs
    <3> QED
      BY <1>1, <1>2, <2>1, <2>4, <3>1, OthersKept
<1>6. CASE OsalTimerDelete
  <2>1. PICK k \in Timers : k = deleting
    BY <1>2, <1>6 DEF OsalTimerDelete
  <2>a. PICK mode \in Modes :
          /\ k \notin gone => mode = kt[k].mode
          /\ kt' = [kt EXCEPT ![k].armed = @ \/ mode = "once"]
          /\ gone' = IF mode = "once" THEN gone ELSE gone \ {k}
    <3>1. PICK mode \in IF k \in gone THEN Modes ELSE {kt[k].mode} :
            /\ kt' = [kt EXCEPT ![k].armed = @ \/ mode = "once"]
            /\ gone' = IF mode = "once" THEN gone ELSE gone \ {k}
      BY <1>6, <2>1 DEF OsalTimerDelete
    <3>2. kt[k].mode \in Modes
      BY <1>2 DEF TimerData
    <3> QED
      BY <3>1, <3>2
  <2>2. PICK t \in TimerData : t = [kt[k] EXCEPT !.armed = @ \/ mode = "once"]
    BY <1>2 DEF TimerData
  <2>3. t.alive = kt[k].alive /\ t.cb = kt[k].cb /\ t.stop = kt[k].stop
    BY <1>2, <2>2 DEF TimerData
  <2>4. /\ kt' = [kt EXCEPT ![k] = t] /\ late' = [late EXCEPT ![k] = late[k]]
        /\ realTimer = k /\ realTimer' = NoTimer /\ deleting' = NoTimer
    BY <1>2, <1>6, <2>1, <2>a, <2>2 DEF OsalTimerDelete
  <2>5. \A j \in Timers \ {k} : j \in gone' <=> j \in gone
    BY <2>a
  <2>6. k \in gone' => k \in gone
    BY <2>a
  <2>b. k \in gone /\ k \notin gone' => ~t.armed
    <3>1. k \in gone /\ k \notin gone' => ~kt[k].armed /\ mode # "once"
      BY <1>2, <2>1, <2>a DEF TimerOK, TimerIs
    <3> QED
      BY <1>2, <2>2, <3>1 DEF TimerData
  <2>7. TimerIs(k, t, late[k], realTimer', deleting', k \in gone')
    BY <1>2, <2>1, <2>3, <2>4, <2>6, <2>b, TimerAssumption DEF TimerOK, TimerIs
  <2> QED
    BY <1>1, <1>2, <2>1, <2>4, <2>5, <2>7, TimerAssumption, OthersKept
<1>7. ASSUME NEW k \in Timers, Expire(k) PROVE TmIInv'
  <2>1. kt[k].armed /\ kt[k].cb = "idle" /\ k \notin gone /\ UNCHANGED <<realTimer, deleting>>
    BY <1>1, <1>7 DEF Expire
  <2>2. late' = [late EXCEPT ![k] = late[k]]
    BY <1>2, <1>7 DEF Expire
  <2>3. CASE kt[k].stop
    <3>1. /\ kt' = [kt EXCEPT ![k] = Free] /\ (realTimer = k <=> deleting = k)
          /\ gone' = IF deleting = k THEN gone \cup {k} ELSE gone
      BY <1>2, <1>7, <2>1, <2>3, TimerAssumption DEF Expire, TimerOK, TimerIs
    <3>2. Free \in TimerData /\ ~Free.armed /\ Free.cb = "idle" /\ ~Free.alive /\ ~Free.stop
      BY DEF TimerData, Modes, Free
    <3>3. TimerIs(k, Free, late[k], realTimer', deleting', k \in gone')
      BY <1>2, <2>1, <3>1, <3>2 DEF TimerOK, TimerIs
    <3>4. \A j \in Timers \ {k} : j \in gone' <=> j \in gone
      BY <3>1
    <3> QED
      BY <1>1, <1>2, <2>1, <2>2, <3>1, <3>2, <3>3, <3>4, OthersKept
  <2>4. CASE ~kt[k].stop
    <3>1. PICK t \in TimerData :
            t = [kt[k] EXCEPT !.armed = FALSE, !.cb = "call", !.read = kt[k].mode]
      BY <1>2 DEF TimerData
    <3>2. t.alive = kt[k].alive /\ ~t.armed /\ t.stop = kt[k].stop
      BY <1>2, <3>1 DEF TimerData
    <3>3. kt' = [kt EXCEPT ![k] = t] /\ gone' = gone
      BY <1>7, <2>4, <3>1 DEF Expire
    <3>4. TimerIs(k, t, late[k], realTimer', deleting', k \in gone')
      BY <1>2, <2>1, <2>4, <3>2, <3>3 DEF TimerOK, TimerIs
    <3> QED
      BY <1>1, <1>2, <2>1, <2>2, <3>3, <3>4, OthersKept
  <2> QED
    BY <2>3, <2>4
<1>8. ASSUME NEW k \in Timers, CallFunc(k) PROVE TmIInv'
  <2>1. PICK t \in TimerData : t = [kt[k] EXCEPT !.cb = "func"]
    BY <1>2 DEF TimerData
  <2>2. t.alive = kt[k].alive /\ t.armed = kt[k].armed /\ t.cb = "func" /\ t.stop = kt[k].stop
    BY <1>2, <2>1 DEF TimerData
  <2>3. /\ kt' = [kt EXCEPT ![k] = t] /\ kt[k].cb = "call"
        /\ UNCHANGED <<realTimer, deleting, gone>>
    BY <1>8, <2>1 DEF CallFunc
  <2>4. PICK n \in Nat : n = IF kt[k].stop THEN late[k] + 1 ELSE late[k]
    BY <1>2
  <2>5. late' = [late EXCEPT ![k] = n]
    BY <1>8, <2>4 DEF CallFunc
  <2>6. n <= 1 /\ (~kt[k].stop => n = 0)
    BY <1>2, <2>3, <2>4 DEF TimerOK, TimerIs
  <2> QED
    BY <1>1, <1>2, <2>2, <2>3, <2>5, <2>6, OthersKept DEF TimerOK, TimerIs
<1>9. ASSUME NEW k \in Timers, CallbackEnd(k) PROVE TmIInv'
  <2>1. PICK t \in TimerData : t = [kt[k] EXCEPT !.cb = "idle", !.armed = @ \/ kt[k].read = "loop"]
    BY <1>2 DEF TimerData
  <2>2. t.alive = kt[k].alive /\ t.cb = "idle" /\ t.stop = kt[k].stop
    BY <1>2, <2>1 DEF TimerData
  <2>3. /\ kt' = [kt EXCEPT ![k] = t] /\ kt[k].cb = "func"
        /\ late' = [late EXCEPT ![k] = late[k]] /\ UNCHANGED <<realTimer, deleting, gone>>
    BY <1>2, <1>9, <2>1 DEF CallbackEnd
  <2> QED
    BY <1>1, <1>2, <2>2, <2>3, OthersKept DEF TimerOK, TimerIs
<1>10. CASE UNCHANGED tmVars
  BY <1>1, <1>10 DEF tmVars, TmIInv, TmTypeOK, TimerOK
<1> QED
  BY <1>1, <1>3, <1>4, <1>5, <1>6, <1>7, <1>8, <1>9, <1>10 DEF TmNext, Modes

(* Neither the kernel's list nor a callback nor the client nor             *)
(* OsalTimerDelete itself finds a timer freed, unless its callback ran     *)
(* between the halves of OsalTimerDelete, which then reads freed memory;   *)
(* and func is called at most once after the timer was stopped.            *)
THEOREM TimerStaysAlive == TmSpec => []TimerAlive
<1>1. TmIInv => TimerAlive
  BY TimerAssumption DEF TmIInv, TimerOK, TimerIs, TimerAlive
<1>2. TmIInv /\ [TmNext]_tmVars => TmIInv'
  BY StepTmIInv
<1> QED
  BY InitTmIInv, <1>1, <1>2, PTL DEF TmSpec

-----------------------------------------------------------------------------
(* OsalWork.                                                               *)

WkTypeOK ==
  /\ realWork \in [Works -> BOOLEAN] /\ cancel \in [Works -> {"idle", "held", "cancelled"}]
  /\ pending \in [Works -> {"no", "timer", "queue"}]
  /\ workQueue \in {"none", "up", "draining", "gone"}
  /\ fifo \in Seq(Works) /\ running \in Works \cup {NoWork}

\* The queue has every work that waits there, once.
ListedOnce ==
  /\ \A i, j \in 1..Len(fifo) : fifo[i] = fifo[j] => i = j
  /\ \A w \in Works : pending[w] = "queue" <=> \E i \in 1..Len(fifo) : fifo[i] = w

\* What a canceller holds or has cancelled, and what a drained queue no longer
\* takes, is neither on the timer nor on the queue.
Settled(w) ==
  /\ cancel[w] # "idle" => pending[w] = "no"
  /\ cancel[w] = "cancelled" => running # w
  /\ pending[w] = "timer" => w \in Delayed
  /\ workQueue = "draining" /\ w \in Delayed => pending[w] = "no" /\ running # w

WkIInv == WkTypeOK /\ ListedOnce /\ WrapperAlive /\ \A w \in Works : Settled(w)

(* Before the first call no work waits and no queue is there.              *)
LEMMA InitWkIInv == WkInit => WkIInv
<1>1. SUFFICES ASSUME WkInit PROVE WkIInv
  OBVIOUS
<1>2. fifo = <<>> /\ fifo \in Seq(Works) /\ Len(fifo) = 0
  BY <1>1 DEF WkInit
<1>3. WkTypeOK
  BY <1>1, <1>2 DEF WkInit, WkTypeOK
<1>4. ListedOnce
  BY <1>1, <1>2 DEF WkInit, ListedOnce
<1>5. WrapperAlive /\ \A w \in Works : Settled(w)
  BY <1>1, WorkAssumption DEF WkInit, WrapperAlive, Settled
<1> QED
  BY <1>3, <1>4, <1>5 DEF WkIInv

(* A sequence without one of its places keeps the others.                  *)
LEMMA RemovedAt ==
  ASSUME NEW S, NEW s \in Seq(S), NEW p \in 1..Len(s)
  PROVE  /\ RemoveAt(s, p) \in Seq(S) /\ Len(RemoveAt(s, p)) = Len(s) - 1
         /\ \A i \in 1..(Len(s) - 1) : RemoveAt(s, p)[i] = IF i < p THEN s[i] ELSE s[i + 1]
<1> DEFINE a == SubSeq(s, 1, p - 1)
           b == SubSeq(s, p + 1, Len(s))
<1>1. Len(s) \in Nat /\ \A i \in 1..Len(s) : s[i] \in S
  OBVIOUS
<1>2. a \in Seq(S) /\ Len(a) = p - 1 /\ \A i \in 1..(p - 1) : a[i] = s[i]
  BY <1>1, SubSeqProperties
<1>3. b \in Seq(S) /\ Len(b) = Len(s) - p /\ \A i \in 1..(Len(s) - p) : b[i] = s[p + i]
  BY <1>1, SubSeqProperties
<1>4. RemoveAt(s, p) = a \o b
  BY DEF RemoveAt
<1> HIDE DEF a, b
<1>5. /\ a \o b \in Seq(S) /\ Len(a \o b) = Len(s) - 1
      /\ \A i \in 1..(Len(s) - 1) : (a \o b)[i] = IF i <= p - 1 THEN a[i] ELSE b[i - (p - 1)]
  BY <1>1, <1>2, <1>3, ConcatProperties
<1>6. ASSUME NEW i \in 1..(Len(s) - 1)
      PROVE  (a \o b)[i] = IF i < p THEN s[i] ELSE s[i + 1]
  <2>1. CASE i < p
    BY <1>1, <1>2, <1>5, <2>1
  <2>2. CASE ~(i < p)
    <3>1. PICK k \in 1..(Len(s) - p) : k = i - (p - 1)
      BY <1>1, <2>2
    <3>2. (a \o b)[i] = s[p + k] /\ p + k = i + 1
      BY <1>1, <1>3, <1>5, <2>2, <3>1
    <3> QED
      BY <2>2, <3>2
  <2> QED
    BY <2>1, <2>2
<1> QED
  BY <1>4, <1>5, <1>6

(* A work that is added stands last on the queue.                          *)
LEMMA ListedLast ==
  ASSUME WkTypeOK, ListedOnce, NEW w \in Works, pending[w] # "queue",
         pending' = [pending EXCEPT ![w] = "queue"], fifo' = Append(fifo, w)
  PROVE  ListedOnce' /\ fifo' \in Seq(Works)
<1>1. PICK n \in Nat : n = Len(fifo)
  BY DEF WkTypeOK
<1>2. /\ fifo' \in Seq(Works) /\ Len(fifo') = n + 1 /\ fifo'[n + 1] = w
      /\ \A i \in 1..n : fifo'[i] = fifo[i]
  BY <1>1 DEF WkTypeOK
<1>3. \A i \in 1..(n + 1) : i \in 1..n \/ i = n + 1
  OBVIOUS
<1>4. \A i \in 1..n : fifo[i] # w
  BY <1>1 DEF ListedOnce
<1>5. \A i, j \in 1..(n + 1) : fifo'[i] = fifo'[j] => i = j
  BY <1>1, <1>2, <1>3, <1>4 DEF ListedOnce
<1>6. \A v \in Works : pending'[v] = "queue" <=> \E i \in 1..(n + 1) : fifo'[i] = v
  <2>1. n + 1 \in 1..(n + 1) /\ \A i \in 1..n : i \in 1..(n + 1)
    OBVIOUS
  <2>2. \A v \in Works \ {w} : pending'[v] = pending[v]
    BY DEF WkTypeOK
  <2>3. pending'[w] = "queue"
    BY DEF WkTypeOK
  <2> QED
    BY <1>1, <1>2, <1>3, <2>1, <2>2, <2>3 DEF ListedOnce
<1> QED
  BY <1>2, <1>5, <1>6 DEF ListedOnce

(* A work that is taken off a queue leaves the others there.               *)
LEMMA TakenOff ==
  ASSUME WkTypeOK, ListedOnce, NEW w \in Works, NEW p \in 1..Len(fifo), fifo[p] = w,
         pending' = [pending EXCEPT ![w] = "no"],
         fifo' \in Seq(Works), Len(fifo') = Len(fifo) - 1,
         \A i \in 1..(Len(fifo) - 1) : fifo'[i] = IF i < p THEN fifo[i] ELSE fifo[i + 1]
  PROVE  ListedOnce'
<1>1. PICK n \in Nat : n = Len(fifo)
  BY DEF WkTypeOK
<1> DEFINE old(i) == IF i < p THEN i ELSE i + 1
           new(i) == IF i < p THEN i ELSE i - 1
<1>2. /\ \A i \in 1..(n - 1) : old(i) \in 1..n /\ old(i) # p /\ fifo'[i] = fifo[old(i)]
      /\ \A i, j \in 1..(n - 1) : old(i) = old(j) => i = j
      /\ \A i \in (1..n) \ {p} : new(i) \in 1..(n - 1) /\ old(new(i)) = i
  BY <1>1
<1> HIDE DEF old, new
<1>3. ASSUME NEW i \in 1..(n - 1), NEW j \in 1..(n - 1), fifo'[i] = fifo'[j] PROVE i = j
  <2>1. fifo[old(i)] = fifo[old(j)] /\ old(i) \in 1..n /\ old(j) \in 1..n
    BY <1>2, <1>3
  <2>2. old(i) = old(j)
    BY <1>1, <2>1 DEF ListedOnce
  <2> QED
    BY <1>2, <2>2
<1>4. \A v \in Works \ {w} : pending'[v] = "queue" <=> \E i \in 1..(n - 1) : fifo'[i] = v
  <2>1. SUFFICES ASSUME NEW v \in Works \ {w}
                 PROVE  pending'[v] = "queue" <=> \E i \in 1..(n - 1) : fifo'[i] = v
    OBVIOUS
  <2>2. pending'[v] = "queue" <=> \E i \in 1..n : fifo[i] = v
    BY <1>1 DEF WkTypeOK, ListedOnce
  <2>3. ASSUME NEW i \in 1..n, fifo[i] = v PROVE \E j \in 1..(n - 1) : fifo'[j] = v
    <3>1. i # p
      BY <2>3
    <3>2. new(i) \in 1..(n - 1) /\ fifo'[new(i)] = v
      BY <1>2, <2>3, <3>1
    <3> QED
      BY <3>2
  <2>4. ASSUME NEW i \in 1..(n - 1), fifo'[i] = v PROVE \E j \in 1..n : fifo[j] = v
    <3>1. old(i) \in 1..n /\ fifo[old(i)] = v
      BY <1>2, <2>4
    <3> QED
      BY <3>1
  <2> QED
    BY <2>2, <2>3, <2>4, Zenon
<1>5. pending'[w] = "no" /\ \A i \in 1..(n - 1) : fifo'[i] # w
  BY <1>1, <1>2 DEF WkTypeOK, ListedOnce
<1> QED
  BY <1>1, <1>3, <1>4, <1>5 DEF ListedOnce

(* No step takes the wrapper or the queue from a work that waits or runs.  *)
LEMMA StepWkIInv == WkIInv /\ [WkNext]_wkVars => WkIInv'
<1>1. SUFFICES ASSUME WkIInv, [WkNext]_wkVars PROVE WkIInv'
  OBVIOUS
<1> USE <1>1
<1>2. /\ WkTypeOK /\ ListedOnce /\ WrapperAlive /\ \A w \in Works : Settled(w)
      /\ NoWork \notin Works
  BY WorkAssumption DEF WkIInv
<1>3. ASSUME UNCHANGED <<pending, fifo>> PROVE ListedOnce'
  BY <1>2, <1>3 DEF ListedOnce
<1>4. CASE HdfWorkQueueInit \/ HdfWorkQueueDestroy \/ WorkReturns \/ UNCHANGED wkVars
  <2>1. WkTypeOK' /\ UNCHANGED <<pending, fifo>>
    BY <1>2, <1>4 DEF WkTypeOK, HdfWorkQueueInit, HdfWorkQueueDestroy, WorkReturns, wkVars
  <2>2. WrapperAlive'
    BY <1>2, <1>4 DEF WrapperAlive, HdfWorkQueueInit, HdfWorkQueueDestroy, WorkReturns, wkVars
  <2>3. ASSUME NEW w \in Works PROVE Settled(w)'
    <3>1. Settled(w) /\ (pending[w] # "no" \/ running = w => realWork[w])
      BY <1>2 DEF WrapperAlive
    <3> QED
      BY <1>2, <1>4, <3>1
      DEF Settled, HdfWorkQueueInit, HdfWorkQueueDestroy, WorkReturns, wkVars
  <2> QED
    BY <1>3, <2>1, <2>2, <2>3 DEF WkIInv
<1>5. CASE Drained
  <2>1. WkTypeOK' /\ UNCHANGED <<pending, fifo>>
    BY <1>2, <1>5 DEF WkTypeOK, Drained
  <2>2. \A w \in Works : pending[w] = "no" /\ running # w
    <3>1. Len(fifo) = 0
      BY <1>5 DEF Drained
    <3>2. \A w \in Works : pending[w] # "queue"
      BY <1>2, <3>1 DEF ListedOnce
    <3> QED
      BY <1>2, <1>5, <3>2 DEF Drained, Settled, WkTypeOK
  <2>3. WrapperAlive' /\ \A w \in Works : Settled(w)'
    BY <1>2, <1>5, <2>2 DEF WrapperAlive, Settled, Drained
  <2> QED
    BY <1>3, <2>1, <2>3 DEF WkIInv
<1>6. CASE WorkEntry
  <2>1. PICK w \in Works : w = Head(fifo) /\ w = fifo[1]
    BY <1>2, <1>6 DEF WorkEntry, WkTypeOK
  <2>2. /\ Len(fifo) \in Nat \ {0} /\ fifo' \in Seq(Works) /\ Len(fifo') = Len(fifo) - 1
        /\ \A i \in 1..(Len(fifo) - 1) : fifo'[i] = fifo[i + 1]
    BY <1>2, <1>6 DEF WorkEntry, WkTypeOK
  <2>3. /\ pending' = [pending EXCEPT ![w] = "no"] /\ running' = w
        /\ UNCHANGED <<realWork, cancel, workQueue>>
    BY <1>6, <2>1 DEF WorkEntry
  <2>4. ListedOnce'
    <3>1. /\ 1 \in 1..Len(fifo)
          /\ \A i \in 1..(Len(fifo) - 1) : fifo'[i] = IF i < 1 THEN fifo[i] ELSE fifo[i + 1]
      BY <2>2
    <3> QED
      BY <1>2, <2>1, <2>2, <2>3, <3>1, TakenOff
  <2>5. pending[w] = "queue"
    BY <1>2, <2>1, <2>2 DEF ListedOnce
  <2>6. WkTypeOK'
    BY <1>2, <2>2, <2>3 DEF WkTypeOK
  <2>7. WrapperAlive' /\ \A v \in Works : Settled(v)'
    BY <1>2, <2>3, <2>5 DEF WkTypeOK, WrapperAlive, Settled
  <2> QED
    BY <2>4, <2>6, <2>7 DEF WkIInv
<1>7. ASSUME NEW w \in Works, HdfWorkInit(w) \/ CancelReturns(w) \/ HdfWorkDestroy(w)
      PROVE  WkIInv'
  <2>1. WkTypeOK' /\ UNCHANGED <<pending, fifo>>
    BY <1>2, <1>7 DEF WkTypeOK, HdfWorkInit, CancelReturns, HdfWorkDestroy
  <2>2. WrapperAlive' /\ \A v \in Works : Settled(v)'
    BY <1>2, <1>7 DEF WkTypeOK, WrapperAlive, Settled, HdfWorkInit, CancelReturns, HdfWorkDestroy
  <2> QED
    BY <1>3, <2>1, <2>2 DEF WkIInv
<1>8. ASSUME NEW w \in Works, HdfAddWork(w) \/ TimerExpires(w) PROVE WkIInv'
  <2>1. /\ pending[w] # "queue" /\ pending' = [pending EXCEPT ![w] = "queue"]
        /\ fifo' = Append(fifo, w)
    BY <1>8 DEF HdfAddWork, TimerExpires, MayAdd
  <2>2. ListedOnce' /\ fifo' \in Seq(Works)
    BY <1>2, <2>1, ListedLast
  <2>3. WkTypeOK'
    BY <1>2, <1>8, <2>1, <2>2 DEF WkTypeOK, HdfAddWork, TimerExpires
  <2>4. WrapperAlive' /\ \A v \in Works : Settled(v)'
    BY <1>2, <1>8, <2>1 DEF WkTypeOK, WrapperAlive, Settled, HdfAddWork, TimerExpires, MayAdd
  <2> QED
    BY <2>2, <2>3, <2>4 DEF WkIInv
<1>9. ASSUME NEW w \in Works, HdfAddDelayedWork(w) PROVE WkIInv'
  <2>1. WkTypeOK'
    BY <1>2, <1>9 DEF WkTypeOK, HdfAddDelayedWork
  <2>2. ListedOnce'
    BY <1>2, <1>9 DEF WkTypeOK, ListedOnce, HdfAddDelayedWork, MayAdd
  <2>3. WrapperAlive' /\ \A v \in Works : Settled(v)'
    BY <1>2, <1>9 DEF WkTypeOK, WrapperAlive, Settled, HdfAddDelayedWork, MayAdd
  <2> QED
    BY <2>1, <2>2, <2>3 DEF WkIInv
<1>10. ASSUME NEW w \in Works, HdfCancelDelayedWorkSync(w) PROVE WkIInv'
  <2>1. /\ cancel' = [cancel EXCEPT ![w] = "held"] /\ pending' = [pending EXCEPT ![w] = "no"]
        /\ fifo' = Unlisted(w) /\ UNCHANGED <<realWork, workQueue, running>>
    BY <1>10 DEF HdfCancelDelayedWorkSync
  <2>2. ListedOnce' /\ fifo' \in Seq(Works)
    <3>1. CASE \E i \in 1..Len(fifo) : fifo[i] = w
      <4>1. PICK p \in 1..Len(fifo) : fifo[p] = w /\ fifo' = RemoveAt(fifo, p)
        BY <2>1, <3>1 DEF Unlisted
      <4>2. /\ fifo' \in Seq(Works) /\ Len(fifo') = Len(fifo) - 1
            /\ \A i \in 1..(Len(fifo) - 1) : fifo'[i] = IF i < p THEN fifo[i] ELSE fifo[i + 1]
        <5>1. fifo \in Seq(Works)
          BY <1>2 DEF WkTypeOK
        <5> QED
          BY ONLY <4>1, <5>1, RemovedAt
      <4>3. pending' = [pending EXCEPT ![w] = "no"]
        BY <2>1
      <4> QED
        BY <1>2, <4>1, <4>2, <4>3, TakenOff, Zenon
    <3>2. CASE ~\E i \in 1..Len(fifo) : fifo[i] = w
      <4>1. fifo' = fifo /\ pending[w] # "queue"
        BY <1>2, <2>1, <3>2 DEF Unlisted, ListedOnce
      <4> QED
        BY <1>2, <2>1, <4>1 DEF WkTypeOK, ListedOnce
    <3> QED
      BY <3>1, <3>2
  <2>3. WkTypeOK'
    BY <1>2, <2>1, <2>2 DEF WkTypeOK
  <2>4. WrapperAlive' /\ \A v \in Works : Settled(v)'
    BY <1>2, <2>1 DEF WkTypeOK, WrapperAlive, Settled
  <2> QED
    BY <2>2, <2>3, <2>4 DEF WkIInv
<1> QED
  BY <1>4, <1>5, <1>6, <1>7, <1>8, <1>9, <1>10 DEF WkNext

(* A work that waits or runs has its wrapper and its queue, for any number *)
(* of works that are added, cancelled, run and destroyed in any order.     *)
THEOREM WorkKeepsWrapper == WkSpec => []WrapperAlive
<1>1. WkIInv => WrapperAlive
  BY DEF WkIInv
<1> QED
  BY InitWkIInv, StepWkIInv, <1>1, PTL DEF WkSpec

-----------------------------------------------------------------------------
(* OsalMem.                                                                *)

Allocators == {"kmalloc", "vmalloc"}
Allocations == [base : Nat \ {0}, size : Nat \ {0}, type : Allocators]
Holdings == [buf : Nat, size : Nat \ {0}, align : Alignments \cup {1}]

OmTypeOK ==
  /\ kernel \subseteq Allocations /\ IsFiniteSet(kernel)
  /\ owned \subseteq Holdings /\ IsFiniteSet(owned)
  /\ header \in [1 .. MemTop -> [type : Allocators \cup {"none"}, offset : Nat]]

Apart(k, l) == k.base + k.size <= l.base \/ l.base + l.size <= k.base
Inside(u, k) == k.base <= u.buf - 1 /\ u.buf + u.size <= k.base + k.size

\* The allocator's own blocks, and no block with two holders: what it takes for
\* a header to be its holder's alone.
BlocksApart ==
  /\ \A k \in kernel : k.base + k.size <= MemTop + 1 /\ \A l \in kernel : k = l \/ Apart(k, l)
  /\ \A u, v \in owned, k \in kernel : Inside(u, k) /\ Inside(v, k) => u = v

OmIInv == OmTypeOK /\ BlocksApart /\ FreesItsBlock

(* Division by a number that is not zero.                                  *)
LEMMA Division ==
  ASSUME NEW n \in Nat, NEW a \in Nat \ {0}
  PROVE  n \div a \in Nat /\ n % a \in 0 .. (a - 1) /\ n = (n \div a) * a + (n % a)
OBVIOUS

(* A multiple leaves no rest.                                              *)
LEMMA Multiple == ASSUME NEW b \in Nat, NEW a \in Nat \ {0} PROVE b * a \in Nat /\ (b * a) % a = 0
OBVIOUS

(* Aligning moves up to a multiple, by less than the alignment.            *)
LEMMA AlignedUpWithin ==
  ASSUME NEW buf \in Nat, NEW align \in Nat \ {0}
  PROVE  /\ AlignedUp(buf, align) \in Nat /\ AlignedUp(buf, align) % align = 0
         /\ buf <= AlignedUp(buf, align) /\ AlignedUp(buf, align) < buf + align
<1>1. PICK n \in Nat : n = buf + align - 1
  OBVIOUS
<1>2. PICK b \in Nat, r \in 0 .. (align - 1) : b = n \div align /\ n = b * align + r
  BY Division
<1>3. b * align = AlignedUp(buf, align)
  BY <1>1, <1>2 DEF AlignedUp
<1>4. PICK up \in Nat : up = b * align /\ up % align = 0
  BY Multiple
<1>5. buf <= up /\ up < buf + align
  BY <1>1, <1>2, <1>4
<1> QED
  BY <1>3, <1>4, <1>5

(* What holds of every holding and its block.                              *)
LEMMA HoldingBlock ==
  ASSUME OmIInv, NEW u \in owned
  PROVE  /\ u.buf \in Nat /\ u.size \in Nat \ {0} /\ u.buf - 1 \in 1 .. MemTop
         /\ \E k \in kernel :
              /\ k.base \in Nat /\ k.size \in Nat /\ Inside(u, k) /\ k.base + k.size <= MemTop + 1
              /\ header[u.buf - 1] = [type |-> k.type, offset |-> u.buf - 1 - k.base]
<1>1. u.buf \in Nat /\ u.size \in Nat \ {0}
  BY DEF OmIInv, OmTypeOK, Holdings
<1>2. PICK k \in kernel :
        /\ Inside(u, k)
        /\ header[u.buf - 1] = [type |-> k.type, offset |-> u.buf - 1 - k.base]
  BY DEF OmIInv, FreesItsBlock, Inside, mngSize
<1>3. k.base \in Nat \ {0} /\ k.size \in Nat /\ k.base + k.size <= MemTop + 1
  BY DEF OmIInv, OmTypeOK, Allocations, BlocksApart
<1>4. u.buf - 1 \in 1 .. MemTop
  BY <1>1, <1>2, <1>3, OmAssumption DEF Inside
<1> QED
  BY <1>1, <1>2, <1>3, <1>4

\* The block k lies apart from the others, and has room for what it is asked for.
Fits(k, offset, size, align) ==
  /\ k.base + k.size <= MemTop + 1 /\ \A l \in kernel : Apart(k, l)
  /\ offset + 1 + size <= k.size /\ (k.base + offset + 1) % align = 0

(* A block that lies apart from the others is handed out, header and all.  *)
LEMMA HandedKeeps ==
  ASSUME OmIInv, NEW k \in Allocations, NEW offset \in Nat, NEW size \in Nat \ {0},
         NEW align \in Alignments \cup {1}, Handed(k, offset, size, align),
         Fits(k, offset, size, align)
  PROVE  OmIInv'
<1> USE DEF Fits
<1> DEFINE at == k.base + offset
           new == [buf |-> at + 1, size |-> size, align |-> align]
           word == [type |-> k.type, offset |-> offset]
<1>1. /\ k.base \in Nat \ {0} /\ k.size \in Nat \ {0} /\ k.type \in Allocators
      /\ at \in 1 .. MemTop
  BY OmAssumption DEF Allocations
<1>2. /\ kernel' = kernel \cup {k} /\ owned' = owned \cup {new} /\ mistaken' = mistaken
      /\ header' = [header EXCEPT ![at] = word]
  BY DEF Handed, mngSize
<1>3. new \in Holdings /\ new.buf = at + 1 /\ new.size = size /\ new.align = align
  BY <1>1 DEF Holdings
<1>4. word \in [type : Allocators \cup {"none"}, offset : Nat]
  BY <1>1
<1> HIDE DEF new, word
<1>5. header'[at] = word /\ \A a \in 1 .. MemTop : a # at => header'[a] = header[a]
  BY <1>1, <1>2 DEF OmIInv, OmTypeOK
<1>6. Inside(new, k)
  BY <1>1, <1>3 DEF Inside
<1>7. \A l \in kernel : l.base \in Nat /\ l.size \in Nat \ {0}
  BY DEF OmIInv, OmTypeOK, Allocations
<1>8. k \notin kernel
  BY <1>1, <1>7 DEF Apart
<1>9. ASSUME NEW u \in owned PROVE ~Inside(u, k) /\ u.buf - 1 # at
  <2>1. PICK l \in kernel : Inside(u, l)
    BY <1>9, HoldingBlock
  <2>2. u.buf \in Nat /\ u.size \in Nat \ {0}
    BY <1>9, HoldingBlock
  <2> QED
    BY <1>1, <1>7, <2>1, <2>2 DEF Inside, Apart
<1>10. ASSUME NEW l \in kernel PROVE ~Inside(new, l)
  BY <1>1, <1>3, <1>7, <1>10 DEF Inside, Apart
<1>11. new \notin owned
  BY <1>6, <1>9
<1>12. OmTypeOK'
  BY <1>1, <1>2, <1>3, <1>4, FS_AddElement DEF OmIInv, OmTypeOK
<1>13. BlocksApart'
  <2>1. ASSUME NEW j \in kernel', NEW l \in kernel' PROVE j = l \/ Apart(j, l)
    BY <1>2, <2>1 DEF OmIInv, BlocksApart, Apart
  <2>2. ASSUME NEW u \in owned', NEW v \in owned', NEW l \in kernel', Inside(u, l), Inside(v, l)
        PROVE  u = v
    <3>1. CASE l = k
      BY <1>2, <1>9, <2>2, <3>1
    <3>2. CASE l \in kernel
      BY <1>2, <1>10, <2>2, <3>2 DEF OmIInv, BlocksApart
    <3> QED
      BY <1>2, <3>1, <3>2
  <2>3. \A l \in kernel' : l.base + l.size <= MemTop + 1
    BY <1>2 DEF OmIInv, BlocksApart
  <2> QED
    BY <2>1, <2>2, <2>3 DEF BlocksApart, Apart, Inside
<1>14. FreesItsBlock'
  <2>1. ~mistaken' /\ Cardinality(kernel') = Cardinality(owned')
    <3>1. /\ ~mistaken /\ Cardinality(kernel) = Cardinality(owned)
          /\ IsFiniteSet(kernel) /\ IsFiniteSet(owned)
      BY DEF OmIInv, OmTypeOK, FreesItsBlock
    <3>2. Cardinality(kernel') = Cardinality(kernel) + 1
      BY <1>2, <1>8, <3>1, FS_AddElement
    <3>3. Cardinality(owned') = Cardinality(owned) + 1
      BY <1>2, <1>11, <3>1, FS_AddElement
    <3> QED
      BY <1>2, <3>1, <3>2, <3>3
  <2>2. ASSUME NEW u \in owned
        PROVE  /\ u.buf % u.align = 0
               /\ \E l \in kernel : /\ Inside(u, l)
                    /\ header'[u.buf - 1] = [type |-> l.type, offset |-> u.buf - 1 - l.base]
    <3>1. header'[u.buf - 1] = header[u.buf - 1]
      BY <1>5, <1>9, <2>2, HoldingBlock
    <3>2. u.buf % u.align = 0
      BY <2>2 DEF OmIInv, FreesItsBlock
    <3> QED
      BY <2>2, <3>1, <3>2, HoldingBlock
  <2>3. /\ new.buf % new.align = 0
        /\ header'[new.buf - 1] = [type |-> k.type, offset |-> new.buf - 1 - k.base]
    <3>1. new.buf - 1 = at /\ new.buf - 1 - k.base = offset
      BY <1>1, <1>3
    <3> QED
      BY <1>3, <1>5, <3>1 DEF word
  <2> QED
    BY <1>2, <1>6, <2>1, <2>2, <2>3 DEF FreesItsBlock, Inside, mngSize
<1> QED
  BY <1>12, <1>13, <1>14 DEF OmIInv

(* OsalMemAlloc and OsalMemAllocAlign, of every size up to SIZE_MAX: what   *)
(* they hand out is a block apart from the others, with room for what was  *)
(* asked for behind the header.                                            *)
LEMMA AllocHands ==
  ASSUME OmIInv, NEW size \in MemSizes,
         OsalMemAlloc(size) \/ \E align \in Alignments : OsalMemAllocAlign(align, size)
  PROVE  \E k \in Allocations, offset \in Nat, align \in Alignments \cup {1} :
           Handed(k, offset, size, align) /\ Fits(k, offset, size, align)
<1>1. size \in Nat \ {0} /\ size <= SizeMax /\ SizeMax \in Nat /\ MemTop \in Nat
  BY OmAssumption
<1>2. \A l \in kernel : l.base \in Nat /\ l.size \in Nat \ {0}
  BY DEF OmIInv, OmTypeOK, Allocations
<1>3. ASSUME NEW n \in Nat, NEW k \in OsMemAlloc(n)
      PROVE  /\ k \in Allocations /\ k.size = n + 1 /\ k.base + k.size <= MemTop + 1
             /\ \A l \in kernel : Apart(k, l)
  <2>1. PICK b \in Bases(n + 1), type \in Allocators : k = [base |-> b, size |-> n + 1, type |-> type]
    BY <1>3, Zenon DEF OsMemAlloc, Allocators, mngSize
  <2>2. b \in Nat \ {0} /\ b + (n + 1) <= MemTop + 1
    BY <1>1, <1>3, <2>1 DEF Bases
  <2>3. \A l \in kernel : b + (n + 1) <= l.base \/ l.base + l.size <= b
    BY <2>1 DEF Bases
  <2>4. k \in Allocations
    BY <1>3, <2>1, <2>2 DEF Allocations
  <2> QED
    BY <2>1, <2>2, <2>3, <2>4 DEF Apart
<1>4. CASE OsalMemAlloc(size)
  <2>1. PICK k \in OsMemAlloc(size) : Handed(k, 0, size, 1)
    BY <1>4 DEF OsalMemAlloc
  <2>2. (k.base + 0 + 1) % 1 = 0
    BY <1>1, <1>3, <2>1 DEF Allocations
  <2>3. k \in Allocations /\ k.base \in Nat /\ Fits(k, 0, size, 1)
    BY <1>1, <1>3, <2>1, <2>2 DEF Fits, Allocations
  <2> QED
    BY <2>1, <2>3
<1>5. CASE \E align \in Alignments : OsalMemAllocAlign(align, size)
  <2>1. PICK align \in Alignments : OsalMemAllocAlign(align, size)
    BY <1>5
  <2>2. align \in Nat \ {0} /\ size + align <= SizeMax
    BY <1>1, <2>1, OmAssumption DEF OsalMemAllocAlign
  <2>3. (size + align) % (SizeMax + 1) = size + align
    BY <1>1, <2>2
  <2>4. PICK k \in OsMemAlloc(size + align) :
          Handed(k, AlignedUp(k.base + 1, align) - (k.base + 1), size, align)
    BY <2>1, <2>3 DEF OsalMemAllocAlign, mngSize
  <2>5. /\ k \in Allocations /\ k.size = size + align + 1 /\ k.base + k.size <= MemTop + 1
        /\ \A l \in kernel : Apart(k, l)
    BY <1>1, <1>3, <2>2, <2>4
  <2> DEFINE up == AlignedUp(k.base + 1, align)
             offset == up - (k.base + 1)
  <2>6. k.base \in Nat /\ k.base + 1 \in Nat
    BY <2>5 DEF Allocations
  <2>7. up \in Nat /\ up % align = 0 /\ k.base + 1 <= up /\ up < k.base + 1 + align
    BY <2>2, <2>6, AlignedUpWithin, Zenon
  <2> HIDE DEF up
  <2>8. offset \in Nat /\ offset + 1 + size <= k.size /\ k.base + offset + 1 = up
    BY <1>1, <2>2, <2>5, <2>6, <2>7
  <2>9. Handed(k, offset, size, align)
    BY <2>4 DEF up
  <2> HIDE DEF offset
  <2> QED
    BY <1>1, <2>1, <2>5, <2>7, <2>8, <2>9 DEF Fits
<1> QED
  BY <1>4, <1>5

(* An allocation keeps the invariant.                                      *)
LEMMA AllocKeeps ==
  ASSUME OmIInv, NEW size \in MemSizes,
         OsalMemAlloc(size) \/ \E align \in Alignments : OsalMemAllocAlign(align, size)
  PROVE  OmIInv'
<1>1. size \in Nat \ {0}
  BY OmAssumption
<1> QED
  BY <1>1, AllocHands, HandedKeeps

(* A caller who fills his memory overwrites no header in use.              *)
LEMMA FillKeeps == ASSUME OmIInv, NEW v \in owned, Fill(v) PROVE OmIInv'
<1>1. /\ UNCHANGED <<kernel, owned, mistaken>>
      /\ header' = [a \in 1 .. MemTop |->
                      IF a \in v.buf .. (v.buf + v.size - 1) THEN NoHeader ELSE header[a]]
  BY DEF Fill
<1>2. OmTypeOK'
  BY <1>1 DEF OmIInv, OmTypeOK, NoHeader
<1>3. BlocksApart'
  BY <1>1 DEF OmIInv, BlocksApart, Apart, Inside
<1>4. ASSUME NEW u \in owned PROVE header'[u.buf - 1] = header[u.buf - 1]
  <2>1. /\ u.buf \in Nat /\ u.size \in Nat \ {0} /\ v.buf \in Nat /\ v.size \in Nat \ {0}
        /\ u.buf - 1 \in 1 .. MemTop
    BY <1>4, HoldingBlock
  <2>2. PICK k \in kernel : k.base \in Nat /\ k.size \in Nat /\ Inside(u, k)
    BY <1>4, HoldingBlock
  <2>3. PICK l \in kernel : l.base \in Nat /\ l.size \in Nat /\ Inside(v, l)
    BY HoldingBlock
  <2>4. ~(u.buf - 1 \in v.buf .. (v.buf + v.size - 1))
    <3>1. CASE k = l
      <4>1. u = v
        BY <1>4, <2>2, <2>3, <3>1 DEF OmIInv, BlocksApart
      <4> QED
        BY <2>1, <4>1
    <3>2. CASE k # l
      <4>1. Apart(k, l)
        BY <2>2, <2>3, <3>2 DEF OmIInv, BlocksApart
      <4> QED
        BY ONLY <2>1, <2>2, <2>3, <4>1 DEF Apart, Inside
    <3> QED
      BY <3>1, <3>2
  <2> QED
    BY <1>1, <2>1, <2>4
<1>5. FreesItsBlock'
  <2>1. ~mistaken' /\ Cardinality(kernel') = Cardinality(owned')
    BY <1>1 DEF OmIInv, FreesItsBlock
  <2>2. ASSUME NEW u \in owned
        PROVE  /\ u.buf % u.align = 0
               /\ \E k \in kernel : /\ k.base <= u.buf - mngSize /\ u.buf + u.size <= k.base + k.size
                                    /\ header'[u.buf - mngSize]
                                         = [type |-> k.type, offset |-> u.buf - mngSize - k.base]
    BY <1>4, <2>2 DEF OmIInv, FreesItsBlock, mngSize
  <2> QED
    BY <1>1, <2>1, <2>2 DEF FreesItsBlock
<1> QED
  BY <1>2, <1>3, <1>5 DEF OmIInv

(* OsalMemFree finds in the header its own block and no other.             *)
LEMMA FreeKeeps == ASSUME OmIInv, NEW v \in owned, OsalMemFree(v) PROVE OmIInv'
<1>1. PICK k \in kernel :
        /\ k.base \in Nat /\ k.size \in Nat /\ Inside(v, k)
        /\ header[v.buf - 1] = [type |-> k.type, offset |-> v.buf - 1 - k.base]
  BY HoldingBlock
<1>2. v.buf \in Nat /\ v.size \in Nat \ {0}
  BY HoldingBlock
<1>3. \A l \in kernel : l.base \in Nat /\ l.size \in Nat \ {0}
  BY DEF OmIInv, OmTypeOK, Allocations
<1> DEFINE h == header[v.buf - 1]
           freed == {l \in kernel : h.type = l.type /\ l.base + h.offset = v.buf - 1}
<1>4. h.type = k.type /\ h.offset = v.buf - 1 - k.base
  BY <1>1
<1>5. freed = {k}
  <2>1. ASSUME NEW l \in freed PROVE l = k
    <3>1. l \in kernel /\ l.base = k.base
      BY <1>1, <1>2, <1>3, <1>4, <2>1
    <3> QED
      BY <1>1, <1>3, <3>1 DEF OmIInv, BlocksApart, Apart
  <2>2. k \in freed
    BY <1>1, <1>2, <1>4
  <2> QED
    BY <2>1, <2>2
<1>6. /\ owned' = owned \ {v} /\ kernel' = kernel \ freed
      /\ mistaken' = (mistaken \/ Cardinality(freed) # 1)
      /\ header' = [a \in 1 .. MemTop |->
           IF \E l \in freed : a \in l.base .. (l.base + l.size - 1) THEN NoHeader ELSE header[a]]
  BY DEF OsalMemFree, mngSize
<1>7. Cardinality(freed) = 1
  BY <1>5, FS_Singleton
<1> HIDE DEF freed, h
<1>8. /\ kernel' = kernel \ {k} /\ ~mistaken'
      /\ header' = [a \in 1 .. MemTop |->
           IF a \in k.base .. (k.base + k.size - 1) THEN NoHeader ELSE header[a]]
  BY <1>5, <1>6, <1>7 DEF OmIInv, FreesItsBlock
<1>9. OmTypeOK'
  <2>1. IsFiniteSet(kernel') /\ IsFiniteSet(owned')
    BY <1>6, <1>8, FS_RemoveElement DEF OmIInv, OmTypeOK
  <2>2. header' \in [1 .. MemTop -> [type : Allocators \cup {"none"}, offset : Nat]]
    BY <1>8 DEF OmIInv, OmTypeOK, NoHeader
  <2> QED
    BY <1>6, <1>8, <2>1, <2>2 DEF OmIInv, OmTypeOK
<1>10. BlocksApart'
  BY <1>6, <1>8 DEF OmIInv, BlocksApart, Apart, Inside
<1>11. ~mistaken' /\ Cardinality(kernel') = Cardinality(owned')
  <2>1. /\ ~mistaken /\ Cardinality(kernel) = Cardinality(owned)
        /\ IsFiniteSet(kernel) /\ IsFiniteSet(owned)
    BY DEF OmIInv, OmTypeOK, FreesItsBlock
  <2>2. Cardinality(kernel') = Cardinality(kernel) - 1
    BY <1>1, <1>8, <2>1, FS_RemoveElement
  <2>3. Cardinality(owned') = Cardinality(owned) - 1
    BY <1>6, <2>1, FS_RemoveElement
  <2> QED
    BY <1>8, <2>1, <2>2, <2>3
<1>12. ASSUME NEW u \in owned'
       PROVE  /\ u.buf % u.align = 0
              /\ \E l \in kernel' : /\ Inside(u, l)
                   /\ header'[u.buf - 1] = [type |-> l.type, offset |-> u.buf - 1 - l.base]
  <2>1. u \in owned /\ u # v
    BY <1>6, <1>12
  <2>2. u.buf \in Nat /\ u.size \in Nat \ {0} /\ u.buf - 1 \in 1 .. MemTop
    BY <2>1, HoldingBlock
  <2>3. PICK l \in kernel :
          /\ l.base \in Nat /\ l.size \in Nat /\ Inside(u, l)
          /\ header[u.buf - 1] = [type |-> l.type, offset |-> u.buf - 1 - l.base]
    BY <2>1, HoldingBlock
  <2>4. l # k
    BY <1>1, <2>1, <2>3 DEF OmIInv, BlocksApart
  <2>5. Apart(k, l)
    BY <1>1, <2>3, <2>4 DEF OmIInv, BlocksApart
  <2>6. ~(u.buf - 1 \in k.base .. (k.base + k.size - 1))
    BY <1>1, <2>2, <2>3, <2>5 DEF Apart, Inside
  <2>7. header'[u.buf - 1] = header[u.buf - 1]
    BY <1>8, <2>2, <2>6
  <2>8. u.buf % u.align = 0
    BY <2>1 DEF OmIInv, FreesItsBlock
  <2> QED
    BY <1>8, <2>3, <2>4, <2>7, <2>8
<1>13. FreesItsBlock'
  BY <1>11, <1>12 DEF FreesItsBlock, Inside, mngSize
<1> QED
  BY <1>9, <1>10, <1>13 DEF OmIInv

(* The invariant.                                                          *)
LEMMA OmAlways == OmSpec => []OmIInv
<1>1. OmInit => OmIInv
  BY FS_EmptySet DEF OmInit, OmIInv, OmTypeOK, BlocksApart, FreesItsBlock, NoHeader
<1>2. OmIInv /\ [OmNext]_omVars => OmIInv'
  <2>1. SUFFICES ASSUME OmIInv, [OmNext]_omVars PROVE OmIInv'
    OBVIOUS
  <2>2. CASE UNCHANGED omVars
    BY <2>1, <2>2 DEF omVars, OmIInv, OmTypeOK, BlocksApart, Apart, Inside, FreesItsBlock
  <2> QED
    BY <2>1, <2>2, AllocKeeps, FillKeeps, FreeKeeps DEF OmNext
<1> QED
  BY <1>1, <1>2, PTL DEF OmSpec

(* Memory of any size and alignment is whole, aligned and apart, and a free *)
(* returns it to the allocator it came from, for any size of the memory and *)
(* of size_t, whatever callers write into what they hold.                   *)
THEOREM FreesWhatItAllocated == OmSpec => []FreesItsBlock
<1>1. OmIInv => FreesItsBlock
  BY DEF OmIInv
<1> QED
  BY <1>1, OmAlways, PTL

(* What is handed out, with the header in front, is beside all that is held. *)
LEMMA HandedObtains ==
  ASSUME OmIInv, NEW k \in Allocations, NEW offset \in Nat, NEW size \in MemSizes,
         NEW align \in Alignments \cup {1}, Handed(k, offset, size, align),
         Fits(k, offset, size, align)
  PROVE  Heap!Obtain
<1>1. PICK buf \in Nat : buf = k.base + offset + 1
  BY DEF Allocations
<1>2. /\ k.base \in Nat \ {0} /\ k.size \in Nat \ {0} /\ size \in Nat \ {0} /\ MemTop \in Nat
      /\ align \in Nat \ {0}
  BY OmAssumption DEF Allocations
<1>3. PICK new : new = [buf |-> buf, size |-> size, align |-> align]
  OBVIOUS
<1>4. owned' = owned \cup {new}
  BY <1>1, <1>3 DEF Handed, mngSize
<1>5. buf - 1 \in k.base .. MemTop /\ buf + size <= k.base + k.size /\ buf + size <= MemTop + 1
  BY <1>1, <1>2 DEF Fits
<1>6. buf \in (1 + 1) .. MemTop /\ buf % align = 0
  BY <1>1, <1>2, <1>5 DEF Fits
<1>7. ASSUME NEW v \in owned
      PROVE  buf + size <= v.buf - 1 \/ v.buf + v.size <= buf - 1
  <2>1. v.buf \in Nat /\ v.size \in Nat \ {0}
    BY HoldingBlock
  <2>2. PICK l \in kernel : Inside(v, l)
    BY HoldingBlock
  <2>3. l.base \in Nat /\ l.size \in Nat /\ Apart(k, l)
    BY DEF OmIInv, OmTypeOK, Allocations, Fits
  <2> QED
    BY <1>2, <1>5, <2>1, <2>2, <2>3 DEF Apart, Inside
<1>8. new.buf = buf /\ new.size = size
  BY <1>3
<1>9. \A v \in owned : Heap!Beside(new, v)
  BY <1>7, <1>8 DEF Heap!Beside, mngSize
<1> QED
  BY <1>3, <1>4, <1>5, <1>6, <1>9 DEF Heap!Obtain, mngSize

(* Every allocation obtains, a free returns, and a caller who writes does  *)
(* neither: the OSAL allocator is an allocator.                            *)
THEOREM OsalMemIsAllocator == OmSpec => IsAllocator
<1>1. OmInit => Heap!AllocInit
  BY DEF OmInit, Heap!AllocInit
<1>2. OmIInv /\ [OmNext]_omVars => [Heap!Obtain \/ Heap!Return]_owned
  <2>1. SUFFICES ASSUME OmIInv, [OmNext]_omVars PROVE [Heap!Obtain \/ Heap!Return]_owned
    OBVIOUS
  <2>2. CASE UNCHANGED omVars
    BY <2>2 DEF omVars
  <2>3. ASSUME NEW size \in MemSizes,
               OsalMemAlloc(size) \/ \E align \in Alignments : OsalMemAllocAlign(align, size)
        PROVE  Heap!Obtain
    BY <2>1, <2>3, AllocHands, HandedObtains
  <2>4. ASSUME NEW u \in owned, Fill(u) PROVE owned' = owned
    BY <2>4 DEF Fill
  <2>5. ASSUME NEW u \in owned, OsalMemFree(u) PROVE Heap!Return
    BY <2>5 DEF OsalMemFree, Heap!Return
  <2> QED
    BY <2>1, <2>2, <2>3, <2>4, <2>5, Zenon DEF OmNext
<1> QED
  BY <1>1, <1>2, OmAlways, PTL DEF OmSpec, IsAllocator, Heap!AllocSpec
=============================================================================
