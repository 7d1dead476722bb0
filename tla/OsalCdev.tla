------------------------------- MODULE OsalCdev -------------------------------
(***************************************************************************)
(* The OSAL character devices (osal_cdev.c): drivers register and remove   *)
(* their devices, each in a thread of its own.  The first registration     *)
(* makes the class and the numbers of the devices; nothing keeps a second  *)
(* from doing it too, which fails at the class.  Then a device takes a     *)
(* minor, and its number is added to the kernel's map before its name is   *)
(* added to the class; either can fail and gives back what was taken.      *)
(***************************************************************************)
EXTENDS Naturals

CONSTANTS Cdevs,      \* devices, each with the thread that owns it
          MaxCdevs,   \* HDF_MAX_CHAR_DEVICES
          NoMinor

ASSUME CdevAssumption == MaxCdevs \in Nat \ {0} /\ NoMinor \notin Nat

VARIABLES class,      \* g_hdfClass: none, registered
          initted,    \* g_hdfClassInitted
          ids,        \* hdf_vnode_ids: the minors in use
          op,         \* per device, where its thread is
          minor,      \* per device, its minor
          cdevMap,    \* the devices open can reach, by the kernel's map of numbers
          nodes       \* the devices under the class

cdVars == <<class, initted, ids, op, minor, cdevMap, nodes>>

CdInit ==
  /\ class = "none" /\ initted = FALSE /\ ids = {} /\ cdevMap = {} /\ nodes = {}
  /\ op = [d \in Cdevs |-> "free"] /\ minor = [d \in Cdevs |-> NoMinor]

Minors == 0 .. (MaxCdevs - 1)

Go(d, from, to) == op[d] = from /\ op' = [op EXCEPT ![d] = to]

-----------------------------------------------------------------------------
OsalAllocCdev(d) ==
  /\ Go(d, "free", "allocated")
  /\ UNCHANGED <<class, initted, ids, minor, cdevMap, nodes>>

\* OsalRegisterCdev begins: HdfClassInit looks at the flag.
HdfClassInit(d) ==
  /\ Go(d, "allocated", IF initted THEN "class" ELSE "init")
  /\ UNCHANGED <<class, initted, ids, minor, cdevMap, nodes>>

\* A class of that name can be registered once: who comes second fails.  (What the
\* second call does to the struct class before it fails is the kernel's.)
ClassRegister(d) ==
  /\ Go(d, "init", IF class = "none" THEN "region" ELSE "allocated")
  /\ class' = "registered"
  /\ UNCHANGED <<initted, ids, minor, cdevMap, nodes>>

ClassRegisterFails(d) ==
  /\ Go(d, "init", "allocated")
  /\ UNCHANGED <<class, initted, ids, minor, cdevMap, nodes>>

AllocRegion(d) ==
  /\ Go(d, "region", "class") /\ initted' = TRUE
  /\ UNCHANGED <<class, ids, minor, cdevMap, nodes>>

AllocRegionFails(d) ==
  /\ Go(d, "region", "allocated") /\ class' = "none"
  /\ UNCHANGED <<initted, ids, minor, cdevMap, nodes>>

\* ida_simple_get gives the lowest that is free.
GetMinor(d) ==
  \E m \in Minors \ ids :
    /\ \A k \in Minors \ ids : m <= k
    /\ Go(d, "class", "minor") /\ ids' = ids \cup {m} /\ minor' = [minor EXCEPT ![d] = m]
    /\ UNCHANGED <<class, initted, cdevMap, nodes>>

NoMinorLeft(d) ==
  /\ Minors \subseteq ids /\ Go(d, "class", "allocated")
  /\ UNCHANGED <<class, initted, ids, minor, cdevMap, nodes>>

CdevAdd(d) ==
  /\ Go(d, "minor", "added") /\ cdevMap' = cdevMap \cup {d}
  /\ UNCHANGED <<class, initted, ids, minor, nodes>>

CdevAddFails(d) ==
  /\ Go(d, "minor", "allocated") /\ ids' = ids \ {minor[d]}
  /\ UNCHANGED <<class, initted, minor, cdevMap, nodes>>

DeviceAdd(d) ==
  /\ Go(d, "added", "registered") /\ nodes' = nodes \cup {d}
  /\ UNCHANGED <<class, initted, ids, minor, cdevMap>>

\* Fault: the minor is given back before the number.
DeviceAddFailsMinorFirst(d) ==
  /\ Go(d, "added", "unwound") /\ ids' = ids \ {minor[d]}
  /\ UNCHANGED <<class, initted, minor, cdevMap, nodes>>

\* The number is given back here, the minor in the next step.
DeviceAddFails(d) ==
  /\ Go(d, "added", "unwound") /\ cdevMap' = cdevMap \ {d}
  /\ UNCHANGED <<class, initted, ids, minor, nodes>>

-----------------------------------------------------------------------------
\* OsalUnregisterCdev: device_del, cdev_del, ida_simple_remove.
DeviceDel(d) ==
  /\ Go(d, "registered", "hidden") /\ nodes' = nodes \ {d}
  /\ UNCHANGED <<class, initted, ids, minor, cdevMap>>

CdevDel(d) ==
  /\ Go(d, "hidden", "unwound") /\ cdevMap' = cdevMap \ {d}
  /\ UNCHANGED <<class, initted, ids, minor, nodes>>

RemoveMinor(d) ==
  /\ Go(d, "unwound", "allocated") /\ ids' = ids \ {minor[d]}
  /\ UNCHANGED <<class, initted, minor, cdevMap, nodes>>

OsalFreeCdev(d) ==
  /\ Go(d, "allocated", "free") /\ minor' = [minor EXCEPT ![d] = NoMinor]
  /\ UNCHANGED <<class, initted, ids, cdevMap, nodes>>

CdNext ==
  \E d \in Cdevs :
    \/ OsalAllocCdev(d) \/ HdfClassInit(d) \/ ClassRegister(d) \/ ClassRegisterFails(d)
    \/ AllocRegion(d) \/ AllocRegionFails(d) \/ GetMinor(d) \/ NoMinorLeft(d)
    \/ CdevAdd(d) \/ CdevAddFails(d) \/ DeviceAdd(d) \/ DeviceAddFails(d)
    \/ DeviceDel(d) \/ CdevDel(d) \/ RemoveMinor(d) \/ OsalFreeCdev(d)

CdSpec == CdInit /\ [][CdNext]_cdVars

-----------------------------------------------------------------------------
\* The devices that have taken a minor and not given it back.
Holders == {d \in Cdevs : op[d] \in {"minor", "added", "registered", "hidden", "unwound"}}

(* An open of a number reaches one device, which is there and whose class  *)
(* is; and with nobody under way the minors in use are those of the         *)
(* registered devices - whichever threads register, fail, race for the      *)
(* class and unregister meanwhile.                                         *)
MinorsOwned ==
  /\ cdevMap \subseteq {d \in Cdevs : op[d] \in {"added", "registered", "hidden"}}
  /\ nodes # {} => class = "registered"
  /\ ids = {minor[d] : d \in Holders}
  /\ \A d, e \in Holders : minor[d] = minor[e] => d = e
=============================================================================
