-------------------------- MODULE FfsInstance_proofs --------------------------
(***************************************************************************)
(* Theorems about FfsInstance: while configfs keeps out of a set-up and a  *)
(* deletion (Orderly), what a function is bound to is allocated.           *)
(***************************************************************************)
EXTENDS FfsInstance, Integers, TLAPS

MaybeInst == Instances \cup {None}
Devs  == [alloc : BOOLEAN, mounted : BOOLEAN, desc_ready : BOOLEAN, ffs_data : MaybeInst]
Data  == [state : {"READ_DESCRIPTORS", "READ_STRINGS", "ACTIVE", "CLOSING"}, ref : Int,
          bound : BOOLEAN, gadget : BOOLEAN, private : {"null", "dev", "stale"}, node : BOOLEAN]
Admins == [pc : {"idle", "new", "node", "release", "closed", "unregister", "clear"}, ffs : MaybeInst]
Confs == [pc : {"none", "idle", "lookup", "func", "bound"}, ffs : MaybeInst, refcnt : Int]

InsTypeOK ==
  /\ dev \in Devs /\ mem \subseteq Instances /\ inst \in [Instances -> Data]
  /\ writing \in MaybeInst /\ admin \in Admins /\ conf \in Confs

Closing == {"closed", "unregister", "clear"}

\* Whoever says to have the ffs_dev is the only one, and it is mounted or on its
\* way out.
OneDev ==
  \A i \in mem : inst[i].private = "dev" =>
    /\ dev.mounted \/ (admin.pc \in Closing /\ admin.ffs = i)
    /\ \A j \in mem : inst[j].private = "dev" => i = j

\* An ffs_dev and the instance that is ready in it.
DevOK ==
  /\ dev.alloc <=> conf.pc # "none"
  /\ dev.mounted \/ dev.desc_ready => dev.alloc
  /\ dev.desc_ready <=> dev.ffs_data # None
  /\ dev.ffs_data # None => dev.ffs_data \in mem /\ inst[dev.ffs_data].private = "dev"

\* The instance the administrator works on has no node the daemon could write to.
AdminOK ==
  admin.pc # "idle" =>
    /\ admin.ffs \in mem /\ ~inst[admin.ffs].node
    /\ inst[admin.ffs].private = IF admin.pc = "new" THEN "null" ELSE "dev"
    /\ admin.pc \in {"unregister", "clear"} => dev.ffs_data # admin.ffs

WritingOK == writing # None => writing \in mem /\ inst[writing].node

\* What is being bound is what is ready; what is bound stays so until it is
\* being unregistered.
ConfOK ==
  /\ conf.pc \in {"lookup", "func"} =>
       conf.ffs # None /\ dev.ffs_data = conf.ffs /\ admin.pc \in {"idle", "new"}
  /\ conf.pc = "bound" =>
       /\ conf.ffs \in mem
       /\ dev.ffs_data = conf.ffs \/ (admin.pc = "unregister" /\ admin.ffs = conf.ffs)

\* The gadget's reference is that of the function configfs has bound.
RefOK ==
  \A i \in mem :
    /\ inst[i].gadget <=> conf.pc \in {"func", "bound"} /\ conf.ffs = i
    /\ inst[i].gadget => inst[i].bound
    /\ inst[i].ref = IF inst[i].gadget THEN 2 ELSE 1

InsIInv ==
  InsTypeOK /\ OneDev /\ DevOK /\ AdminOK /\ WritingOK /\ ConfOK /\ RefOK

-----------------------------------------------------------------------------
(* The records.                                                            *)

(* What setting one field of an instance leaves.                           *)
LEMMA FieldSet ==
  ASSUME NEW r \in Data, NEW q
  PROVE  /\ \A v \in {"READ_STRINGS", "ACTIVE", "CLOSING"} : q = [r EXCEPT !["state"] = v] =>
              /\ q \in Data /\ q.private = r.private /\ q.node = r.node
              /\ q.gadget = r.gadget /\ q.bound = r.bound /\ q.ref = r.ref
         /\ \A v \in BOOLEAN : q = [r EXCEPT !["bound"] = v] =>
              /\ q \in Data /\ q.private = r.private /\ q.node = r.node
              /\ q.gadget = r.gadget /\ q.bound = v /\ q.ref = r.ref
         /\ \A v \in BOOLEAN : q = [r EXCEPT !["node"] = v] =>
              /\ q \in Data /\ q.private = r.private /\ q.node = v
              /\ q.gadget = r.gadget /\ q.bound = r.bound /\ q.ref = r.ref
         /\ \A v \in {"null", "dev", "stale"} : q = [r EXCEPT !["private"] = v] =>
              /\ q \in Data /\ q.private = v /\ q.node = r.node
              /\ q.gadget = r.gadget /\ q.bound = r.bound /\ q.ref = r.ref
BY DEF Data

(* An instance the gadget gives back.                                      *)
LEMMA FieldsSet ==
  ASSUME NEW r \in Data, NEW q, NEW n \in Int,
         q = [r EXCEPT !.bound = FALSE, !.gadget = FALSE, !.ref = n]
  PROVE  /\ q \in Data /\ q.private = r.private /\ q.node = r.node
         /\ q.gadget = FALSE /\ q.bound = FALSE /\ q.ref = n
BY DEF Data

(* ffs_data_new.                                                           *)
LEMMA NewData ==
  /\ New \in Data /\ New.private = "null" /\ ~New.node /\ ~New.gadget /\ New.ref = 1
<1>1. PICK n \in Int : n = 1
  OBVIOUS
<1>2. New = [state |-> "READ_DESCRIPTORS", ref |-> n, bound |-> FALSE, gadget |-> FALSE,
             private |-> "null", node |-> FALSE]
  BY <1>1 DEF New
<1>3. New \in Data /\ New.private = "null" /\ New.node = FALSE /\ New.gadget = FALSE /\ New.ref = n
  BY <1>2 DEF Data
<1> QED
  BY <1>1, <1>3

-----------------------------------------------------------------------------
(* The steps.                                                              *)

(* configfs makes the function's directory.                                *)
LEMMA AllocStep == ASSUME InsIInv, AllocInst PROVE InsIInv'
<1> USE DEF InsIInv
<1>1. /\ ~dev.alloc /\ UNCHANGED <<mem, inst, writing, admin>>
      /\ dev' = [NoDev EXCEPT !.alloc = TRUE] /\ conf' = [conf EXCEPT !.pc = "idle"]
  BY DEF AllocInst
<1>2. /\ dev' \in Devs /\ dev'.alloc = TRUE /\ dev'.mounted = FALSE /\ dev'.desc_ready = FALSE
      /\ dev'.ffs_data = None
  BY <1>1 DEF NoDev, Devs, MaybeInst
<1>3. conf' \in Confs /\ conf'.pc = "idle"
  BY <1>1 DEF InsTypeOK, Confs
<1>4. dev.ffs_data = None /\ ~dev.mounted /\ conf.pc = "none"
  BY <1>1 DEF DevOK, InsTypeOK, Devs
<1>5. InsTypeOK' /\ WritingOK'
  BY <1>1, <1>2, <1>3 DEF InsTypeOK, WritingOK
<1>6. OneDev' /\ DevOK' /\ AdminOK'
  BY <1>1, <1>2, <1>3, <1>4 DEF OneDev, DevOK, AdminOK, InsTypeOK, Admins, MaybeInst
<1>7. ConfOK' /\ RefOK'
  BY <1>1, <1>3, <1>4 DEF ConfOK, RefOK
<1> QED
  BY <1>5, <1>6, <1>7

(* configfs removes it, with no administrator at work: nobody says to have *)
(* the ffs_dev any more.                                                   *)
LEMMA FreeStep == ASSUME Orderly, InsIInv, FreeInst PROVE InsIInv'
<1> USE DEF InsIInv
<1>1. /\ dev.alloc /\ conf.pc = "idle" /\ admin.pc = "idle" /\ UNCHANGED <<mem, writing, admin>>
      /\ dev' = NoDev /\ conf' = [conf EXCEPT !.pc = "none"]
      /\ inst' = [i \in Instances |-> IF inst[i].private = "null" THEN inst[i]
                ELSE [inst[i] EXCEPT !["private"] = IF i = dev.ffs_data THEN "null" ELSE "stale"]]
  BY DEF FreeInst
<1>2. /\ dev' \in Devs /\ dev'.alloc = FALSE /\ dev'.mounted = FALSE /\ dev'.desc_ready = FALSE
      /\ dev'.ffs_data = None
  BY <1>1 DEF NoDev, Devs, MaybeInst
<1>3. conf' \in Confs /\ conf'.pc = "none"
  BY <1>1 DEF InsTypeOK, Confs
<1>4. ASSUME NEW i \in Instances
      PROVE  /\ inst'[i] \in Data /\ inst'[i].private # "dev" /\ inst'[i].node = inst[i].node
             /\ inst'[i].gadget = inst[i].gadget /\ inst'[i].bound = inst[i].bound
             /\ inst'[i].ref = inst[i].ref
  <2>1. inst[i] \in Data
    BY DEF InsTypeOK
  <2>2. CASE inst[i].private = "null"
    BY <1>1, <2>1, <2>2
  <2>3. CASE inst[i].private # "null"
    <3>1. PICK v \in {"null", "stale"} : inst'[i] = [inst[i] EXCEPT !["private"] = v]
      BY <1>1, <2>3
    <3> QED
      BY <2>1, <3>1, FieldSet
  <2> QED
    BY <2>2, <2>3
<1>5. InsTypeOK'
  <2>1. inst' \in [Instances -> Data]
    BY <1>1, <1>4
  <2> QED
    BY <1>1, <1>2, <1>3, <2>1 DEF InsTypeOK
<1>6. mem \subseteq Instances
  BY DEF InsTypeOK
<1>7. WritingOK' /\ OneDev' /\ DevOK' /\ AdminOK' /\ ConfOK'
  BY <1>1, <1>2, <1>3, <1>4, <1>6 DEF WritingOK, OneDev, DevOK, AdminOK, ConfOK
<1>8. RefOK'
  BY <1>1, <1>3, <1>4, <1>6 DEF RefOK
<1> QED
  BY <1>5, <1>7, <1>8

(* A step that changes one instance's fields of the daemon's and leaves    *)
(* the rest alone.                                                         *)
LEMMA InstUpdated ==
  ASSUME InsTypeOK, NEW i \in Instances, NEW q \in Data, inst' = [inst EXCEPT ![i] = q]
  PROVE  /\ inst' \in [Instances -> Data] /\ inst'[i] = q
         /\ \A j \in Instances \ {i} : inst'[j] = inst[j]
BY DEF InsTypeOK

(* FUNCTIONFS_NEWFN makes an instance at an address nobody names.          *)
LEMMA NewFnStep == ASSUME InsIInv, NEW i \in Instances, NewFn(i) PROVE InsIInv'
<1> USE DEF InsIInv
<1>1. /\ admin.pc = "idle" /\ i \notin mem /\ mem' = mem \cup {i} /\ UNCHANGED <<dev, writing, conf>>
      /\ inst' = [inst EXCEPT ![i] = New] /\ admin' = [pc |-> "new", ffs |-> i]
  BY DEF NewFn, At
<1>2. /\ inst' \in [Instances -> Data] /\ inst'[i] = New
      /\ \A j \in Instances \ {i} : inst'[j] = inst[j]
  BY <1>1, NewData, InstUpdated
<1>3. admin' \in Admins /\ admin'.pc = "new" /\ admin'.ffs = i
  BY <1>1 DEF Admins, MaybeInst
<1>4. InsTypeOK'
  BY <1>1, <1>2, <1>3 DEF InsTypeOK
<1>5. mem \subseteq Instances /\ \A j \in mem : inst'[j] = inst[j]
  BY <1>1, <1>2 DEF InsTypeOK
<1>6. OneDev' /\ DevOK' /\ WritingOK'
  BY <1>1, <1>2, <1>3, <1>5, NewData DEF OneDev, DevOK, WritingOK, Closing
<1>7. AdminOK' /\ ConfOK'
  BY <1>1, <1>2, <1>3, NewData DEF AdminOK, ConfOK
<1>8. RefOK'
  <2>1. ~(conf.pc \in {"func", "bound"} /\ conf.ffs = i)
    BY <1>1 DEF ConfOK, DevOK
  <2> QED
    BY <1>1, <1>2, <1>5, <2>1, NewData DEF RefOK
<1> QED
  BY <1>4, <1>6, <1>7, <1>8

(* The administrator gets the ffs_dev, or the instance is refused.         *)
LEMMA AcquireStep == ASSUME InsIInv, Acquire PROVE InsIInv'
<1> USE DEF InsIInv
<1> DEFINE i == admin.ffs
<1>1. admin.pc = "new" /\ UNCHANGED <<writing, conf>> /\ i \in mem /\ i \in Instances
  BY DEF Acquire, AdminOK, InsTypeOK
<1>a. inst[i] \in Data /\ ~inst[i].node /\ inst[i].private = "null"
  BY <1>1 DEF InsTypeOK, AdminOK
<1>b. writing # i /\ dev.ffs_data # i /\ (conf.pc \in {"lookup", "func", "bound"} => conf.ffs # i)
  BY <1>1, <1>a, InstanceAssumption DEF WritingOK, DevOK, ConfOK, InsTypeOK
<1>2. CASE dev.alloc /\ ~dev.mounted
  <2>1. /\ dev' = [dev EXCEPT !.mounted = TRUE] /\ mem' = mem
        /\ inst' = [inst EXCEPT ![i] = [inst[i] EXCEPT !["private"] = "dev"]]
        /\ admin' = [pc |-> "node", ffs |-> i]
    BY <1>2 DEF Acquire, Set, At
  <2>2. /\ dev' \in Devs /\ dev'.alloc = dev.alloc /\ dev'.mounted = TRUE
        /\ dev'.desc_ready = dev.desc_ready /\ dev'.ffs_data = dev.ffs_data
    BY <2>1 DEF InsTypeOK, Devs
  <2>3. admin' \in Admins /\ admin'.pc = "node" /\ admin'.ffs = i
    BY <1>1, <2>1 DEF Admins, MaybeInst
  <2>4. PICK q \in Data : /\ inst' = [inst EXCEPT ![i] = q] /\ q.private = "dev" /\ q.node = inst[i].node
                          /\ q.gadget = inst[i].gadget /\ q.bound = inst[i].bound /\ q.ref = inst[i].ref
    <3> DEFINE r == [inst[i] EXCEPT !["private"] = "dev"]
    <3>1. /\ r \in Data /\ r.private = "dev" /\ r.node = inst[i].node
          /\ r.gadget = inst[i].gadget /\ r.bound = inst[i].bound /\ r.ref = inst[i].ref
      BY <1>a, FieldSet
    <3>2. inst' = [inst EXCEPT ![i] = r]
      BY <2>1
    <3> HIDE DEF r
    <3> QED
      BY <3>1, <3>2
  <2>5. /\ inst' \in [Instances -> Data] /\ inst'[i] = q
        /\ \A j \in Instances \ {i} : inst'[j] = inst[j]
    BY <1>1, <2>4, InstUpdated
  <2>6. mem \subseteq Instances
    BY DEF InsTypeOK
  <2>7. \A j \in mem : inst[j].private # "dev"
    BY <1>1, <1>2 DEF OneDev, Closing
  <2>8. dev.ffs_data = None
    BY <2>7 DEF DevOK
  <2>9. conf.pc \notin {"lookup", "func", "bound"}
    <3>1. None \notin mem /\ admin.pc = "new"
      BY <1>1, InstanceAssumption DEF InsTypeOK
    <3>2. conf.pc \notin {"lookup", "func"}
      BY <2>8 DEF ConfOK
    <3>3. conf.pc # "bound"
      BY <2>8, <3>1 DEF ConfOK
    <3> QED
      BY <3>2, <3>3
  <2>10. InsTypeOK' /\ WritingOK'
    BY <1>1, <1>b, <2>1, <2>2, <2>3, <2>5, <2>6 DEF InsTypeOK, WritingOK
  <2>11. OneDev'
    BY <2>1, <2>2, <2>4, <2>5, <2>6, <2>7 DEF OneDev
  <2>12. DevOK' /\ ConfOK'
    BY <1>1, <1>2, <2>1, <2>2, <2>8, <2>9 DEF DevOK, ConfOK
  <2>13. AdminOK'
    BY <1>1, <1>a, <2>1, <2>3, <2>4, <2>5 DEF AdminOK
  <2>14. RefOK'
    <3>1. ASSUME NEW j \in mem
          PROVE  /\ inst'[j].gadget = inst[j].gadget /\ inst'[j].bound = inst[j].bound
                 /\ inst'[j].ref = inst[j].ref
      BY <2>4, <2>5, <2>6
    <3> QED
      BY <1>1, <2>1, <3>1 DEF RefOK
  <2> QED
    BY <2>10, <2>11, <2>12, <2>13, <2>14
<1>3. CASE ~(dev.alloc /\ ~dev.mounted)
  <2>1. mem' = mem \ {i} /\ admin' = [pc |-> "idle", ffs |-> None] /\ UNCHANGED <<dev, inst>>
    BY <1>3 DEF Acquire, At
  <2>2. admin' \in Admins /\ admin'.pc = "idle"
    BY <2>1 DEF Admins, MaybeInst
  <2>3. InsTypeOK' /\ WritingOK' /\ AdminOK'
    BY <1>1, <1>b, <2>1, <2>2 DEF InsTypeOK, WritingOK, AdminOK
  <2>4. OneDev' /\ DevOK'
    BY <1>1, <1>b, <2>1, <2>2 DEF OneDev, DevOK, Closing
  <2>5. ConfOK' /\ RefOK'
    BY <1>1, <1>b, <2>1, <2>2 DEF ConfOK, RefOK
  <2> QED
    BY <2>3, <2>4, <2>5
<1> QED
  BY <1>2, <1>3

(* The daemon's writes change only how far an instance is configured, and  *)
(* the daemon is in a write only of an instance with a node.               *)
LEMMA StateSet ==
  ASSUME InsIInv, NEW i \in mem, NEW v \in {"READ_STRINGS", "ACTIVE", "CLOSING"}, Set(i, "state", v),
         UNCHANGED <<dev, mem, admin, conf>>,
         writing' = None \/ (writing' = i /\ inst[i].node)
  PROVE  InsIInv'
<1> USE DEF InsIInv
<1>1. PICK q \in Data : /\ inst' = [inst EXCEPT ![i] = q] /\ q.private = inst[i].private
                        /\ q.node = inst[i].node /\ q.gadget = inst[i].gadget
                        /\ q.bound = inst[i].bound /\ q.ref = inst[i].ref
  <2> DEFINE r == [inst[i] EXCEPT !["state"] = v]
  <2>0. inst[i] \in Data
    BY DEF InsTypeOK
  <2>1. /\ r \in Data /\ r.private = inst[i].private /\ r.node = inst[i].node
        /\ r.gadget = inst[i].gadget /\ r.bound = inst[i].bound /\ r.ref = inst[i].ref
    BY <2>0, FieldSet
  <2>2. inst' = [inst EXCEPT ![i] = r]
    BY DEF Set
  <2> HIDE DEF r
  <2> QED
    BY <2>1, <2>2
<1>2. /\ inst' \in [Instances -> Data] /\ mem \subseteq Instances
      /\ \A j \in Instances : /\ inst'[j].private = inst[j].private /\ inst'[j].node = inst[j].node
                              /\ inst'[j].gadget = inst[j].gadget /\ inst'[j].bound = inst[j].bound
                              /\ inst'[j].ref = inst[j].ref
  <2>1. i \in Instances /\ mem \subseteq Instances
    BY DEF InsTypeOK
  <2>2. /\ inst' \in [Instances -> Data] /\ inst'[i] = q
        /\ \A j \in Instances \ {i} : inst'[j] = inst[j]
    BY <1>1, <2>1, InstUpdated
  <2> QED
    BY <1>1, <2>1, <2>2
<1>3. InsTypeOK' /\ WritingOK'
  BY <1>2 DEF InsTypeOK, WritingOK, MaybeInst
<1>4. OneDev' /\ DevOK' /\ ConfOK'
  BY <1>2 DEF OneDev, DevOK, ConfOK
<1>5. AdminOK'
  BY <1>2 DEF AdminOK, InsTypeOK
<1>6. RefOK'
  BY <1>2 DEF RefOK
<1> QED
  BY <1>3, <1>4, <1>5, <1>6

(* The daemon configures an instance and readies it; what is ready has the *)
(* ffs_dev, which is mounted.                                              *)
LEMMA DaemonSteps ==
  ASSUME InsIInv, (\E i \in Instances : Configure(i)) \/ Ready PROVE InsIInv'
<1> USE DEF InsIInv
<1>1. ASSUME NEW i \in Instances, Configure(i) PROVE InsIInv'
  BY <1>1, StateSet DEF Configure
<1>2. CASE Ready
  <2>1. writing # None /\ writing' = None /\ UNCHANGED <<mem, admin, conf>> /\ writing \in mem
        /\ inst[writing].node
    BY <1>2 DEF Ready, WritingOK
  <2>2. CASE Set(writing, "state", "CLOSING") /\ UNCHANGED dev
    BY <2>1, <2>2, StateSet
  <2>3. CASE /\ inst[writing].private = "dev" /\ ~dev.desc_ready
             /\ dev' = [dev EXCEPT !.desc_ready = TRUE, !.ffs_data = writing] /\ UNCHANGED inst
    <3>1. /\ dev' \in Devs /\ dev'.alloc = dev.alloc /\ dev'.mounted = dev.mounted
          /\ dev'.desc_ready = TRUE /\ dev'.ffs_data = writing
      BY <2>1, <2>3 DEF InsTypeOK, Devs
    <3>2. dev.ffs_data = None
      BY <2>3 DEF DevOK
    <3>3. admin.pc # "idle" => admin.ffs # writing
      BY <2>1 DEF AdminOK
    <3>4. dev.mounted
      BY <2>1, <2>3, <3>3 DEF OneDev, Closing
    <3>5. InsTypeOK' /\ WritingOK' /\ RefOK'
      BY <2>1, <2>3, <3>1 DEF InsTypeOK, WritingOK, RefOK, MaybeInst
    <3>6. OneDev' /\ DevOK' /\ AdminOK'
      BY <2>1, <2>3, <3>1, <3>3, <3>4 DEF OneDev, DevOK, AdminOK
    <3>7. ConfOK'
      <4>1. None \notin mem
        BY InstanceAssumption DEF InsTypeOK
      <4> QED
        BY <2>1, <3>1, <3>2, <4>1 DEF ConfOK
    <3> QED
      BY <3>5, <3>6, <3>7
  <2>4. inst[writing].private \in {"null", "dev", "stale"}
    BY <2>1 DEF InsTypeOK, Data
  <2> QED
    <3>1. /\ inst[writing].private # "stale"
          /\ IF inst[writing].private = "null" \/ dev.desc_ready
             THEN Set(writing, "state", "CLOSING") /\ UNCHANGED dev
             ELSE dev' = [dev EXCEPT !.desc_ready = TRUE, !.ffs_data = writing] /\ UNCHANGED inst
      BY <1>2 DEF Ready
    <3>2. CASE inst[writing].private = "null" \/ dev.desc_ready
      BY <2>2, <3>1, <3>2
    <3>3. CASE ~(inst[writing].private = "null" \/ dev.desc_ready)
      BY <2>3, <2>4, <3>1, <3>3
    <3> QED
      BY <3>2, <3>3
<1> QED
  BY <1>1, <1>2

(* A step that sets one instance's node and moves the administrator.       *)
LEMMA NodeSet ==
  ASSUME InsIInv, NEW i \in mem, NEW v \in BOOLEAN, Set(i, "node", v),
         UNCHANGED <<dev, mem, writing, conf>>, writing # i, admin' \in Admins,
         admin'.pc # "idle" => /\ admin'.pc = "release" /\ admin'.ffs = i /\ ~v
                               /\ inst[i].private = "dev" /\ conf.pc \notin {"lookup", "func"},
         admin.pc \in {"idle", "node"}
  PROVE  InsIInv'
<1> USE DEF InsIInv
<1>1. PICK q \in Data : /\ inst' = [inst EXCEPT ![i] = q] /\ q.private = inst[i].private
                        /\ q.node = v /\ q.gadget = inst[i].gadget
                        /\ q.bound = inst[i].bound /\ q.ref = inst[i].ref
  <2> DEFINE r == [inst[i] EXCEPT !["node"] = v]
  <2>0. inst[i] \in Data
    BY DEF InsTypeOK
  <2>1. /\ r \in Data /\ r.private = inst[i].private /\ r.node = v
        /\ r.gadget = inst[i].gadget /\ r.bound = inst[i].bound /\ r.ref = inst[i].ref
    <3>1. CASE v = TRUE
      <4>1. r = [inst[i] EXCEPT !["node"] = TRUE]
        BY <3>1
      <4> HIDE DEF r
      <4>2. /\ r \in Data /\ r.private = inst[i].private /\ r.node = TRUE
            /\ r.gadget = inst[i].gadget /\ r.bound = inst[i].bound /\ r.ref = inst[i].ref
        <5>1. \A b \in BOOLEAN : r = [inst[i] EXCEPT !["node"] = b] =>
                /\ r \in Data /\ r.private = inst[i].private /\ r.node = b
                /\ r.gadget = inst[i].gadget /\ r.bound = inst[i].bound /\ r.ref = inst[i].ref
          BY ONLY <2>0, FieldSet, Zenon
        <5> QED
          BY ONLY <4>1, <5>1
      <4> QED
        BY <3>1, <4>2
    <3>2. CASE v = FALSE
      <4>1. r = [inst[i] EXCEPT !["node"] = FALSE]
        BY <3>2
      <4> HIDE DEF r
      <4>2. /\ r \in Data /\ r.private = inst[i].private /\ r.node = FALSE
            /\ r.gadget = inst[i].gadget /\ r.bound = inst[i].bound /\ r.ref = inst[i].ref
        <5>1. \A b \in BOOLEAN : r = [inst[i] EXCEPT !["node"] = b] =>
                /\ r \in Data /\ r.private = inst[i].private /\ r.node = b
                /\ r.gadget = inst[i].gadget /\ r.bound = inst[i].bound /\ r.ref = inst[i].ref
          BY ONLY <2>0, FieldSet, Zenon
        <5> QED
          BY ONLY <4>1, <5>1
      <4> QED
        BY <3>2, <4>2
    <3> QED
      BY <3>1, <3>2
  <2>2. inst' = [inst EXCEPT ![i] = r]
    BY DEF Set
  <2> HIDE DEF r
  <2> QED
    BY <2>1, <2>2
<1>2. /\ inst' \in [Instances -> Data] /\ mem \subseteq Instances /\ inst'[i].node = v
      /\ \A j \in Instances : /\ inst'[j].private = inst[j].private
                              /\ j # i => inst'[j].node = inst[j].node
                              /\ inst'[j].gadget = inst[j].gadget /\ inst'[j].bound = inst[j].bound
                              /\ inst'[j].ref = inst[j].ref
  <2>1. i \in Instances /\ mem \subseteq Instances
    BY DEF InsTypeOK
  <2>2. /\ inst' \in [Instances -> Data] /\ inst'[i] = q
        /\ \A j \in Instances \ {i} : inst'[j] = inst[j]
    BY <1>1, <2>1, InstUpdated
  <2> QED
    BY <1>1, <2>1, <2>2
<1>3. InsTypeOK' /\ WritingOK'
  BY <1>2 DEF InsTypeOK, WritingOK
<1>4. OneDev' /\ DevOK'
  BY <1>2 DEF OneDev, DevOK, Closing
<1>5. AdminOK' /\ ConfOK'
  BY <1>2 DEF AdminOK, ConfOK, InsTypeOK
<1>6. RefOK'
  BY <1>2 DEF RefOK
<1> QED
  BY <1>3, <1>4, <1>5, <1>6

(* The device node is made or not, and DELFN takes it away.                *)
LEMMA NodeSteps == ASSUME Orderly, InsIInv, MakeNode \/ DelFn PROVE InsIInv'
<1> USE DEF InsIInv
<1>1. CASE MakeNode
  <2>1. /\ admin.pc = "node" /\ admin.ffs \in mem /\ ~inst[admin.ffs].node
        /\ inst[admin.ffs].private = "dev" /\ UNCHANGED <<dev, mem, writing, conf>>
        /\ writing # admin.ffs /\ conf.pc \notin {"lookup", "func"}
    BY <1>1, InstanceAssumption DEF MakeNode, AdminOK, WritingOK, ConfOK, InsTypeOK
  <2>2. CASE Set(admin.ffs, "node", TRUE) /\ admin' = [pc |-> "idle", ffs |-> None]
    <3>1. admin' \in Admins /\ admin'.pc = "idle"
      BY <2>2 DEF Admins, MaybeInst
    <3> QED
      BY <2>1, <2>2, <3>1, NodeSet
  <2>3. CASE admin' = [pc |-> "release", ffs |-> admin.ffs] /\ UNCHANGED inst
    <3>1. admin' \in Admins /\ admin'.pc = "release" /\ admin'.ffs = admin.ffs
      BY <2>3 DEF Admins, InsTypeOK
    <3>2. InsTypeOK' /\ WritingOK' /\ RefOK'
      BY <2>1, <2>3, <3>1 DEF InsTypeOK, WritingOK, RefOK
    <3>3. OneDev' /\ DevOK' /\ AdminOK'
      BY <2>1, <2>3, <3>1 DEF OneDev, DevOK, AdminOK, Closing
    <3>4. ConfOK'
      BY <2>1, <2>3, <3>1 DEF ConfOK
    <3> QED
      BY <3>2, <3>3, <3>4
  <2> QED
    BY <1>1, <2>2, <2>3 DEF MakeNode, At
<1>2. CASE DelFn
  <2>1. /\ admin.pc = "idle" /\ dev.ffs_data \in mem /\ inst[dev.ffs_data].private = "dev"
        /\ writing # dev.ffs_data /\ conf.pc \notin {"lookup", "func"}
        /\ UNCHANGED <<dev, mem, writing, conf>> /\ Set(dev.ffs_data, "node", FALSE)
        /\ admin' = [pc |-> "release", ffs |-> dev.ffs_data]
    BY <1>2 DEF DelFn, DevOK, At
  <2>2. admin' \in Admins /\ admin'.pc = "release" /\ admin'.ffs = dev.ffs_data
    BY <2>1 DEF Admins, InsTypeOK, Devs
  <2> QED
    BY <2>1, <2>2, NodeSet
<1> QED
  BY <1>1, <1>2

-----------------------------------------------------------------------------
(* The gadget's side. *)

(* configfs looks the instance up and begins to bind it.                   *)
LEMMA LookupStep == ASSUME Orderly, InsIInv, BindLookup PROVE InsIInv'
<1> USE DEF InsIInv
<1>1. /\ conf.pc = "idle" /\ dev.desc_ready /\ admin.pc = "idle"
      /\ conf' = [conf EXCEPT !.pc = "lookup", !.ffs = dev.ffs_data]
      /\ UNCHANGED <<dev, mem, inst, writing, admin>>
  BY DEF BindLookup
<1>2. conf' \in Confs /\ conf'.pc = "lookup" /\ conf'.ffs = dev.ffs_data
  BY <1>1 DEF InsTypeOK, Confs, Devs
<1>3. InsTypeOK' /\ WritingOK' /\ OneDev' /\ AdminOK'
  BY <1>1, <1>2 DEF InsTypeOK, WritingOK, OneDev, AdminOK
<1>4. DevOK' /\ ConfOK' /\ RefOK'
  BY <1>1, <1>2 DEF DevOK, ConfOK, RefOK
<1> QED
  BY <1>3, <1>4

(* A step in which the gadget's reference to one instance comes or goes.   *)
LEMMA GadgetSet ==
  ASSUME InsIInv, NEW i \in mem, NEW q \in Data, inst' = [inst EXCEPT ![i] = q],
         q.private = inst[i].private, q.node = inst[i].node,
         UNCHANGED <<dev, mem, writing>>, conf' \in Confs, conf.pc \in {"lookup", "func", "bound"},
         conf.ffs = i,
         admin' \in Admins, admin'.ffs = admin.ffs,
         admin'.pc = admin.pc \/ (admin.pc = "unregister" /\ admin'.pc = "clear"),
         \/ /\ conf'.pc = "idle" /\ ~q.gadget /\ q.ref = 1
         \/ /\ conf.pc = "lookup" /\ conf'.pc = "func" /\ conf'.ffs = i
            /\ q.gadget /\ q.bound /\ q.ref = 2
  PROVE  InsIInv'
<1> USE DEF InsIInv
<1>1. i \in Instances /\ mem \subseteq Instances
  BY DEF InsTypeOK
<1>2. /\ inst' \in [Instances -> Data] /\ inst'[i] = q
      /\ \A j \in Instances \ {i} : inst'[j] = inst[j]
  BY <1>1, InstUpdated
<1>3. \A j \in Instances : inst'[j].private = inst[j].private /\ inst'[j].node = inst[j].node
  BY <1>1, <1>2
<1>4. InsTypeOK' /\ WritingOK'
  BY <1>1, <1>2, <1>3 DEF InsTypeOK, WritingOK
<1>5. OneDev'
  BY <1>1, <1>3 DEF OneDev, Closing
<1>6. DevOK'
  BY <1>1, <1>3 DEF DevOK
<1>7. AdminOK'
  BY <1>1, <1>3 DEF AdminOK
<1>8. ConfOK'
  BY DEF ConfOK
<1>9. RefOK'
  <2>1. ASSUME NEW j \in mem, j # i PROVE inst'[j] = inst[j] /\ ~inst[j].gadget
    BY <1>1, <1>2, <2>1 DEF RefOK
  <2> QED
    BY <1>2, <2>1 DEF RefOK
<1> QED
  BY <1>4, <1>5, <1>6, <1>7, <1>8, <1>9

(* functionfs_bind takes the gadget's reference, or does not.              *)
LEMMA BindDataStep == ASSUME InsIInv, BindData PROVE InsIInv'
<1> USE DEF InsIInv
<1> DEFINE i == conf.ffs
<1>1. conf.pc = "lookup" /\ i \in mem /\ UNCHANGED <<dev, mem, writing, admin>>
  BY DEF BindData
<1>2. inst[i] \in Data /\ admin' \in Admins /\ conf \in Confs
  BY <1>1 DEF InsTypeOK
<1>3. ~inst[i].gadget /\ inst[i].ref = 1
  BY <1>1 DEF RefOK
<1>4. CASE conf' = [conf EXCEPT !.pc = "idle"] /\ UNCHANGED inst
  <2>1. conf' \in Confs /\ conf'.pc = "idle"
    BY <1>2, <1>4 DEF Confs
  <2>2. InsTypeOK' /\ WritingOK' /\ OneDev' /\ AdminOK'
    BY <1>1, <1>4, <2>1 DEF InsTypeOK, WritingOK, OneDev, AdminOK
  <2>3. DevOK' /\ ConfOK' /\ RefOK'
    BY <1>1, <1>4, <2>1 DEF DevOK, ConfOK, RefOK
  <2> QED
    BY <2>2, <2>3
<1>5. CASE conf' = [conf EXCEPT !.pc = "idle"] /\ Set(i, "bound", TRUE)
  <2>1. conf' \in Confs /\ conf'.pc = "idle"
    BY <1>2, <1>5 DEF Confs
  <2> DEFINE r == [inst[i] EXCEPT !["bound"] = TRUE]
  <2>2. /\ r \in Data /\ r.private = inst[i].private /\ r.node = inst[i].node
        /\ r.gadget = inst[i].gadget /\ r.ref = inst[i].ref
    BY <1>2, FieldSet
  <2>3. inst' = [inst EXCEPT ![i] = r]
    BY <1>5 DEF Set
  <2> HIDE DEF r
  <2> QED
    BY <1>1, <1>2, <1>3, <2>1, <2>2, <2>3, GadgetSet
<1>6. CASE /\ conf' = [conf EXCEPT !.pc = "func", !.refcnt = @ + 1]
           /\ inst' = [inst EXCEPT ![i] = [inst[i] EXCEPT !.bound = TRUE, !.gadget = TRUE, !.ref = @ + 1]]
  <2>1. conf' \in Confs /\ conf'.pc = "func" /\ conf'.ffs = i
    <3>1. PICK n \in Int : n = conf.refcnt + 1
      BY <1>2 DEF Confs
    <3>2. conf' = [conf EXCEPT !.pc = "func", !.refcnt = n]
      BY <1>6, <3>1
    <3> QED
      BY <1>2, <3>2 DEF Confs
  <2> DEFINE r == [inst[i] EXCEPT !.bound = TRUE, !.gadget = TRUE, !.ref = inst[i].ref + 1]
  <2>2. inst[i].ref + 1 = 2 /\ inst[i].ref + 1 \in Int
    BY <1>3
  <2>3. /\ r \in Data /\ r.private = inst[i].private /\ r.node = inst[i].node
        /\ r.gadget = TRUE /\ r.bound = TRUE /\ r.ref = 2
    <3>1. PICK n \in Int : n = inst[i].ref + 1 /\ n = 2
      BY <2>2
    <3>2. r = [inst[i] EXCEPT !.bound = TRUE, !.gadget = TRUE, !.ref = n]
      BY <3>1
    <3> HIDE DEF r
    <3>3. /\ r \in Data /\ r.private = inst[i].private /\ r.node = inst[i].node
          /\ r.gadget = TRUE /\ r.bound = TRUE /\ r.ref = n
      <4>1. PICK s \in Data : s = inst[i]
        BY <1>2
      <4>2. r = [s EXCEPT !.bound = TRUE, !.gadget = TRUE, !.ref = n]
        BY <3>2, <4>1
      <4>3. /\ r \in Data /\ r.private = s.private /\ r.node = s.node
            /\ r.gadget = TRUE /\ r.bound = TRUE /\ r.ref = n
        BY <4>2 DEF Data
      <4> QED
        BY <4>1, <4>3
    <3> QED
      BY <3>1, <3>3
  <2>4. inst' = [inst EXCEPT ![i] = r]
    BY <1>6
  <2> HIDE DEF r
  <2> QED
    BY <1>1, <1>2, <2>1, <2>3, <2>4, GadgetSet
<1> QED
  BY <1>4, <1>5, <1>6 DEF BindData

(* functionfs_unbind gives the gadget's reference back, which is not the   *)
(* last one.                                                               *)
LEMMA UnboundStep ==
  ASSUME InsIInv, conf.pc \in {"func", "bound"}, Unbound(conf.ffs), UNCHANGED <<dev, writing>>,
         admin' \in Admins, admin'.ffs = admin.ffs,
         admin'.pc = admin.pc \/ (admin.pc = "unregister" /\ admin'.pc = "clear")
  PROVE  InsIInv'
<1> USE DEF InsIInv
<1> DEFINE i == conf.ffs
<1>1. i \in mem
  <2>1. None \notin mem
    BY InstanceAssumption DEF InsTypeOK
  <2> QED
    BY <2>1 DEF ConfOK, DevOK
<1>2. inst[i] \in Data /\ conf \in Confs
  BY <1>1 DEF InsTypeOK
<1>3. inst[i].gadget /\ inst[i].ref = 2
  BY <1>1 DEF RefOK
<1>4. mem' = mem
  BY <1>3 DEF Unbound
<1>5. conf' \in Confs /\ conf'.pc = "idle"
  <2>1. PICK n \in Int : n = conf.refcnt - 1
    BY <1>2 DEF Confs
  <2>2. conf' = [conf EXCEPT !.pc = "idle", !.refcnt = n]
    BY <2>1 DEF Unbound
  <2> QED
    BY <1>2, <2>2 DEF Confs
<1> DEFINE r == [inst[i] EXCEPT !.bound = FALSE, !.gadget = FALSE, !.ref = inst[i].ref - 1]
<1>6. inst[i].ref - 1 = 1 /\ inst[i].ref - 1 \in Int
  BY <1>3
<1>7. /\ r \in Data /\ r.private = inst[i].private /\ r.node = inst[i].node
      /\ r.gadget = FALSE /\ r.ref = 1
  <2>1. PICK s \in Data : s = inst[i]
    BY <1>2
  <2>2. PICK n \in Int : n = inst[i].ref - 1 /\ n = 1
    BY <1>6
  <2>3. r = [s EXCEPT !.bound = FALSE, !.gadget = FALSE, !.ref = n]
    BY <2>1, <2>2
  <2> HIDE DEF r
  <2>4. /\ r \in Data /\ r.private = s.private /\ r.node = s.node
        /\ r.gadget = FALSE /\ r.bound = FALSE /\ r.ref = n
    BY <2>3, FieldsSet
  <2> QED
    BY <2>1, <2>2, <2>4
<1>8. inst' = [inst EXCEPT ![i] = r]
  BY DEF Unbound
<1> HIDE DEF r
<1> QED
  BY <1>1, <1>4, <1>5, <1>7, <1>8, GadgetSet

(* _ffs_func_bind succeeds or undoes functionfs_bind, and ffs_func_unbind. *)
LEMMA FuncSteps == ASSUME InsIInv, BindFunc \/ Unbind PROVE InsIInv'
<1> USE DEF InsIInv
<1>1. UNCHANGED <<dev, writing, admin>> /\ admin \in Admins
  BY DEF BindFunc, Unbind, InsTypeOK
<1>2. CASE conf.pc \in {"func", "bound"} /\ Unbound(conf.ffs)
  BY <1>1, <1>2, UnboundStep
<1>3. CASE conf.pc = "func" /\ conf' = [conf EXCEPT !.pc = "bound"] /\ UNCHANGED <<mem, inst>>
  <2>1. conf' \in Confs /\ conf'.pc = "bound" /\ conf'.ffs = conf.ffs
    BY <1>3 DEF InsTypeOK, Confs
  <2>2. InsTypeOK' /\ WritingOK' /\ OneDev' /\ AdminOK'
    BY <1>1, <1>3, <2>1 DEF InsTypeOK, WritingOK, OneDev, AdminOK
  <2>3. DevOK' /\ ConfOK' /\ RefOK'
    BY <1>1, <1>3, <2>1 DEF DevOK, ConfOK, RefOK
  <2> QED
    BY <2>2, <2>3
<1> QED
  BY <1>2, <1>3 DEF BindFunc, Unbind

-----------------------------------------------------------------------------
(* FUNCTIONFS_DELFN. *)

(* ffs_release_dev lets go of the ffs_dev.                                 *)
LEMMA ReleaseStep == ASSUME InsIInv, ReleaseDev PROVE InsIInv'
<1> USE DEF InsIInv
<1> DEFINE i == admin.ffs
<1>1. /\ admin.pc = "release" /\ i \in mem /\ inst[i].private = "dev" /\ ~inst[i].node
      /\ admin' = [pc |-> "closed", ffs |-> i] /\ dev' = [dev EXCEPT !.mounted = FALSE]
      /\ UNCHANGED <<mem, inst, writing, conf>>
  BY DEF ReleaseDev, AdminOK, At
<1>2. admin' \in Admins /\ admin'.pc = "closed" /\ admin'.ffs = i
  BY <1>1 DEF Admins, InsTypeOK
<1>3. /\ dev' \in Devs /\ dev'.alloc = dev.alloc /\ dev'.mounted = FALSE
      /\ dev'.desc_ready = dev.desc_ready /\ dev'.ffs_data = dev.ffs_data
  BY <1>1 DEF InsTypeOK, Devs
<1>4. InsTypeOK' /\ WritingOK' /\ RefOK'
  BY <1>1, <1>2, <1>3 DEF InsTypeOK, WritingOK, RefOK
<1>5. OneDev' /\ DevOK' /\ AdminOK'
  BY <1>1, <1>2, <1>3 DEF OneDev, DevOK, AdminOK, Closing
<1>6. ConfOK'
  BY <1>1, <1>2, <1>3 DEF ConfOK
<1> QED
  BY <1>4, <1>5, <1>6

(* ffs_closed takes the instance out of the ffs_dev.                       *)
LEMMA ClosedStep == ASSUME InsIInv, Closed PROVE InsIInv'
<1> USE DEF InsIInv
<1> DEFINE i == admin.ffs
<1>1. /\ admin.pc = "closed" /\ i \in mem /\ inst[i].private = "dev" /\ ~inst[i].node
      /\ admin' = [pc |-> "unregister", ffs |-> i]
      /\ dev' = [dev EXCEPT !.desc_ready = FALSE, !.ffs_data = None]
      /\ UNCHANGED <<mem, inst, writing, conf>>
  BY DEF Closed, AdminOK, At
<1>2. admin' \in Admins /\ admin'.pc = "unregister" /\ admin'.ffs = i
  BY <1>1 DEF Admins, InsTypeOK
<1>3. /\ dev' \in Devs /\ dev'.alloc = dev.alloc /\ dev'.mounted = dev.mounted
      /\ dev'.desc_ready = FALSE /\ dev'.ffs_data = None
  BY <1>1 DEF InsTypeOK, Devs, MaybeInst
<1>4. None \notin mem
  BY InstanceAssumption DEF InsTypeOK
<1>5. InsTypeOK' /\ WritingOK' /\ RefOK'
  BY <1>1, <1>2, <1>3 DEF InsTypeOK, WritingOK, RefOK
<1>6. OneDev' /\ DevOK'
  BY <1>1, <1>2, <1>3 DEF OneDev, DevOK, Closing
<1>7. AdminOK'
  BY <1>1, <1>2, <1>3, <1>4 DEF AdminOK
<1>8. ConfOK'
  <2>1. ASSUME conf.pc = "bound" PROVE conf.ffs \in mem /\ conf.ffs = i
    BY <1>1, <1>4, <2>1 DEF ConfOK, DevOK, OneDev
  <2> QED
    BY <1>1, <1>2, <1>3, <2>1 DEF ConfOK
<1> QED
  BY <1>5, <1>6, <1>7, <1>8

(* unregister_gadget_item makes the gadget let go of it.                   *)
LEMMA UnregisterStep == ASSUME InsIInv, Unregister PROVE InsIInv'
<1> USE DEF InsIInv
<1> DEFINE i == admin.ffs
<1>1. /\ admin.pc = "unregister" /\ i \in mem /\ UNCHANGED <<dev, writing>>
      /\ admin' = [pc |-> "clear", ffs |-> i]
  BY DEF Unregister, AdminOK, At
<1>2. admin' \in Admins /\ admin'.pc = "clear" /\ admin'.ffs = i
  BY <1>1 DEF Admins, InsTypeOK
<1>3. CASE conf.pc = "bound" /\ Unbound(conf.ffs)
  BY <1>1, <1>2, <1>3, UnboundStep
<1>4. CASE UNCHANGED <<mem, inst, conf>> /\ (conf.pc = "bound" => ~inst[i].bound)
  <2>1. conf.pc = "bound" => conf.ffs # i
    BY <1>1, <1>4 DEF RefOK
  <2>2. InsTypeOK' /\ WritingOK' /\ RefOK'
    BY <1>1, <1>2, <1>4 DEF InsTypeOK, WritingOK, RefOK
  <2>3. OneDev' /\ DevOK' /\ AdminOK'
    BY <1>1, <1>2, <1>4 DEF OneDev, DevOK, AdminOK, Closing
  <2>4. ConfOK'
    BY <1>1, <1>2, <1>4, <2>1 DEF ConfOK
  <2> QED
    BY <2>2, <2>3, <2>4
<1> QED
  BY <1>3, <1>4 DEF Unregister

(* ffs_data_clear and kfree: nothing names the instance any more.          *)
LEMMA ClearStep == ASSUME InsIInv, Clear PROVE InsIInv'
<1> USE DEF InsIInv
<1> DEFINE i == admin.ffs
<1>1. /\ admin.pc = "clear" /\ i \in mem /\ i \in Instances /\ dev.ffs_data # i
      /\ inst[i].private = "dev" /\ ~inst[i].node
      /\ admin' = [pc |-> "idle", ffs |-> None] /\ mem' = mem \ {i}
      /\ inst' = [inst EXCEPT ![i] = New] /\ UNCHANGED <<dev, writing, conf>>
  BY DEF Clear, AdminOK, At, InsTypeOK
<1>2. admin' \in Admins /\ admin'.pc = "idle"
  BY <1>1 DEF Admins, MaybeInst
<1>3. inst' \in [Instances -> Data] /\ \A j \in mem' : j \in Instances /\ inst'[j] = inst[j]
  <2>1. /\ inst' \in [Instances -> Data] /\ \A j \in Instances \ {i} : inst'[j] = inst[j]
    BY <1>1, NewData, InstUpdated
  <2> QED
    BY <1>1, <2>1 DEF InsTypeOK
<1>4. InsTypeOK' /\ WritingOK' /\ AdminOK'
  BY <1>1, <1>2, <1>3 DEF InsTypeOK, WritingOK, AdminOK
<1>5. OneDev' /\ DevOK'
  BY <1>1, <1>2, <1>3 DEF OneDev, DevOK
<1>6. ConfOK'
  BY <1>1 DEF ConfOK
<1>7. RefOK'
  BY <1>1, <1>3 DEF RefOK
<1> QED
  BY <1>4, <1>5, <1>6, <1>7

-----------------------------------------------------------------------------
(* InsIInv holds at the start and every step keeps it.                     *)
LEMMA InsInvariant == ASSUME Orderly PROVE InsSpec => []InsIInv
<1>1. ASSUME InsInit PROVE InsIInv
  <2>1. /\ dev = NoDev /\ mem = {} /\ inst = [i \in Instances |-> New] /\ writing = None
        /\ admin = [pc |-> "idle", ffs |-> None]
        /\ conf = [pc |-> "none", ffs |-> None, refcnt |-> 0]
    BY <1>1 DEF InsInit, At
  <2>2. /\ dev \in Devs /\ dev.alloc = FALSE /\ dev.mounted = FALSE /\ dev.desc_ready = FALSE
        /\ dev.ffs_data = None
    BY <2>1 DEF NoDev, Devs, MaybeInst
  <2>3. admin \in Admins /\ admin.pc = "idle" /\ conf \in Confs /\ conf.pc = "none"
    BY <2>1 DEF Admins, Confs, MaybeInst
  <2>4. inst \in [Instances -> Data] /\ writing \in MaybeInst
    BY <2>1, NewData DEF MaybeInst
  <2>5. InsTypeOK /\ WritingOK /\ RefOK /\ OneDev
    BY <2>1, <2>2, <2>3, <2>4 DEF InsTypeOK, WritingOK, RefOK, OneDev
  <2>6. DevOK /\ AdminOK /\ ConfOK
    BY <2>2, <2>3 DEF DevOK, AdminOK, ConfOK
  <2> QED
    BY <2>5, <2>6 DEF InsIInv
<1>2. ASSUME InsIInv, [InsNext]_insVars PROVE InsIInv'
  <2>1. CASE UNCHANGED insVars
    <3>1. UNCHANGED <<dev, mem, inst, writing, admin, conf>>
      BY <2>1 DEF insVars
    <3>2. InsTypeOK' /\ OneDev' /\ DevOK' /\ AdminOK'
      BY <1>2, <3>1 DEF InsIInv, InsTypeOK, OneDev, DevOK, AdminOK
    <3>3. WritingOK' /\ ConfOK' /\ RefOK'
      BY <1>2, <3>1 DEF InsIInv, WritingOK, ConfOK, RefOK
    <3> QED
      BY <3>2, <3>3 DEF InsIInv
  <2>2. CASE AllocInst \/ FreeInst
    BY <1>2, <2>2, AllocStep, FreeStep
  <2>3. CASE \E i \in Instances : NewFn(i)
    BY <1>2, <2>3, NewFnStep
  <2>4. CASE (\E i \in Instances : Configure(i)) \/ Ready
    BY <1>2, <2>4, DaemonSteps
  <2>5. CASE Acquire \/ MakeNode \/ DelFn
    BY <1>2, <2>5, AcquireStep, NodeSteps
  <2>6. CASE BindLookup \/ BindData \/ BindFunc \/ Unbind
    BY <1>2, <2>6, LookupStep, BindDataStep, FuncSteps
  <2>7. CASE ReleaseDev \/ Closed \/ Unregister \/ Clear
    BY <1>2, <2>7, ReleaseStep, ClosedStep, UnregisterStep, ClearStep
  <2> QED
    BY <1>2, <2>1, <2>2, <2>3, <2>4, <2>5, <2>6, <2>7 DEF InsNext
<1> QED
  BY <1>1, <1>2, PTL DEF InsSpec

(* What a function is bound to, and what the next bind would be given, is  *)
(* allocated, and its count is the creator's and the gadget's references:  *)
(* the put in functionfs_unbind never frees what ffs_func_unbind still     *)
(* uses, whatever instances, binds and deletions there are.                *)
THEOREM InstanceAlive == ASSUME Orderly PROVE InsSpec => []FunctionInstanceAlive
<1>1. InsIInv => FunctionInstanceAlive
  <2> SUFFICES ASSUME InsIInv PROVE FunctionInstanceAlive
    OBVIOUS
  <2>1. None \notin mem
    BY InstanceAssumption DEF InsIInv, InsTypeOK
  <2>2. conf.pc \in {"lookup", "func", "bound"} => conf.ffs \in mem
    BY <2>1 DEF InsIInv, ConfOK, DevOK
  <2>3. dev.ffs_data # None => dev.ffs_data \in mem
    BY DEF InsIInv, DevOK
  <2>4. \A i \in mem : inst[i].ref = IF inst[i].gadget THEN 2 ELSE 1
    BY DEF InsIInv, RefOK
  <2> QED
    BY <2>2, <2>3, <2>4 DEF FunctionInstanceAlive
<1> QED
  BY <1>1, InsInvariant, PTL

(* f_generic.c:1694, BUG_ON(ffs->gadget), never fires while configfs keeps *)
(* out of a set-up and a deletion.  The run instance_gadget shows that it  *)
(* does when it does not.                                                  *)
THEOREM ClearedAfterGadget == ASSUME Orderly PROVE InsSpec => []NoGadgetWhenCleared
<1>1. InsIInv => NoGadgetWhenCleared
  <2> SUFFICES ASSUME InsIInv, admin.pc = "clear", inst[admin.ffs].gadget PROVE FALSE
    BY DEF NoGadgetWhenCleared
  <2>1. admin.ffs \in mem /\ dev.ffs_data # admin.ffs
    BY DEF InsIInv, AdminOK
  <2>2. conf.pc \in {"func", "bound"} /\ conf.ffs = admin.ffs
    BY <2>1 DEF InsIInv, RefOK
  <2> QED
    BY <2>1, <2>2 DEF InsIInv, ConfOK
<1> QED
  BY <1>1, InsInvariant, PTL
===============================================================================
