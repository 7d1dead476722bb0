------------------------------ MODULE FfsInstance ------------------------------
(***************************************************************************)
(* The life of a USB function instance (struct ffs_data in f_generic.c):   *)
(* an administrator creates and deletes it through /dev/usbfn, the daemon  *)
(* configures it through its ep0 file, configfs makes and frees the        *)
(* function's struct ffs_dev and binds the function to a gadget.           *)
(*                                                                         *)
(* One function name.  A section under ffs_dev_lock is one step; so are    *)
(* the kernel's chrdev and device calls between two such sections.         *)
(* Bounds: Instances, the addresses of ffs_data; one administrator, for    *)
(* two concurrent DELFN of a name are not kept apart at all.               *)
(***************************************************************************)
EXTENDS Naturals, FiniteSets

CONSTANTS Instances, None,
          Orderly   \* configfs neither binds the function nor removes it while
                    \* an instance is being set up or deleted

ASSUME InstanceAssumption == None \notin Instances /\ Orderly \in BOOLEAN

VARIABLES dev,      \* struct ffs_dev
          mem,      \* allocated instances
          inst,     \* their fields; private is private_data
          writing,  \* the instance whose ep0 write is about to call ffs_ready
          admin,    \* the administrator inside usbfn_ioctl
          conf      \* the function in configfs: where it is, func->ffs, opts->refcnt

insVars == <<dev, mem, inst, writing, admin, conf>>

NoDev == [alloc |-> FALSE, mounted |-> FALSE, desc_ready |-> FALSE, ffs_data |-> None]
New   == [state |-> "READ_DESCRIPTORS", ref |-> 1, bound |-> FALSE, gadget |-> FALSE,
          private |-> "null", node |-> FALSE]
At(pc, i) == [pc |-> pc, ffs |-> i]

InsInit ==
  /\ dev = NoDev /\ mem = {} /\ inst = [i \in Instances |-> New] /\ writing = None
  /\ admin = At("idle", None)
  /\ conf = [pc |-> "none", ffs |-> None, refcnt |-> 0]

Set(i, f, v) == inst' = [inst EXCEPT ![i] = [inst[i] EXCEPT ![f] = v]]

-----------------------------------------------------------------------------
(* configfs: the function's directory *)

\* ffs_alloc_inst and set_inst_name.
AllocInst ==
  /\ ~dev.alloc /\ dev' = [NoDev EXCEPT !.alloc = TRUE]
  /\ conf' = [conf EXCEPT !.pc = "idle"] /\ UNCHANGED <<mem, inst, writing, admin>>

SettingUp == dev.mounted /\ dev.ffs_data = None

\* ffs_free_inst: _ffs_free_dev clears private_data through dev->ffs_data, which
\* an instance that is not ready is not in.
FreeInst ==
  /\ dev.alloc /\ conf.pc = "idle"
  /\ Orderly => ~SettingUp /\ admin.pc = "idle"
  /\ dev' = NoDev /\ conf' = [conf EXCEPT !.pc = "none"]
  /\ inst' = [i \in Instances |-> IF inst[i].private = "null" THEN inst[i]
                ELSE [inst[i] EXCEPT !.private = IF i = dev.ffs_data THEN "null" ELSE "stale"]]
  /\ UNCHANGED <<mem, writing, admin>>

-----------------------------------------------------------------------------
(* FUNCTIONFS_NEWFN *)

\* ffs_data_new.
NewFn(i) ==
  /\ admin.pc = "idle" /\ i \notin mem
  /\ mem' = mem \cup {i} /\ inst' = [inst EXCEPT ![i] = New]
  /\ admin' = At("new", i) /\ UNCHANGED <<dev, writing, conf>>

\* ffs_acquire_dev; ffs_data_put of a refused instance frees it.
Acquire ==
  /\ admin.pc = "new"
  /\ IF dev.alloc /\ ~dev.mounted
     THEN /\ dev' = [dev EXCEPT !.mounted = TRUE] /\ mem' = mem
          /\ Set(admin.ffs, "private", "dev") /\ admin' = At("node", admin.ffs)
     ELSE mem' = mem \ {admin.ffs} /\ admin' = At("idle", None) /\ UNCHANGED <<dev, inst>>
  /\ UNCHANGED <<writing, conf>>

\* alloc_chrdev_region, cdev_add, device_create.
MakeNode ==
  /\ admin.pc = "node"
  /\ \/ Set(admin.ffs, "node", TRUE) /\ admin' = At("idle", None)
     \/ admin' = At("release", admin.ffs) /\ UNCHANGED inst
  /\ UNCHANGED <<dev, mem, writing, conf>>

-----------------------------------------------------------------------------
(* The daemon's ep0 writes *)

\* Descriptors, strings and ffs_epfiles_create.
Configure(i) ==
  /\ i \in mem /\ inst[i].node /\ writing = None
  /\ \/ inst[i].state = "READ_DESCRIPTORS" /\ Set(i, "state", "READ_STRINGS") /\ writing' = None
     \/ inst[i].state = "READ_STRINGS" /\ Set(i, "state", "CLOSING") /\ writing' = None
     \/ inst[i].state = "READ_STRINGS" /\ Set(i, "state", "ACTIVE") /\ writing' = i
  /\ UNCHANGED <<dev, mem, admin, conf>>

\* ffs_ready.  A private_data that points to a freed ffs_dev is used all the
\* same: undefined, and left out.
Ready ==
  /\ writing # None /\ writing' = None
  /\ LET i == writing IN
     /\ inst[i].private # "stale"
     /\ IF inst[i].private = "null" \/ dev.desc_ready
        THEN Set(i, "state", "CLOSING") /\ UNCHANGED dev
        ELSE dev' = [dev EXCEPT !.desc_ready = TRUE, !.ffs_data = i] /\ UNCHANGED inst
  /\ UNCHANGED <<mem, admin, conf>>

-----------------------------------------------------------------------------
(* The gadget binds the function; gi->lock keeps these calls apart. *)

\* ffs_do_functionfs_bind, under ffs_dev_lock.
BindLookup ==
  /\ conf.pc = "idle" /\ dev.desc_ready
  /\ Orderly => admin.pc = "idle"
  /\ conf' = [conf EXCEPT !.pc = "lookup", !.ffs = dev.ffs_data]
  /\ UNCHANGED <<dev, mem, inst, writing, admin>>

\* functionfs_bind.  FFS_FL_BOUND stays set when the string ids or the ep0
\* request cannot be had.
BindData ==
  /\ conf.pc = "lookup" /\ conf.ffs \in mem
  /\ LET i == conf.ffs IN
     \/ /\ inst[i].state # "ACTIVE" /\ conf' = [conf EXCEPT !.pc = "idle"] /\ UNCHANGED inst
     \/ /\ inst[i].state = "ACTIVE" /\ conf' = [conf EXCEPT !.pc = "idle"]
        /\ Set(i, "bound", TRUE)
     \/ /\ inst[i].state = "ACTIVE" /\ ~inst[i].bound
        /\ conf' = [conf EXCEPT !.pc = "func", !.refcnt = @ + 1]
        /\ inst' = [inst EXCEPT ![i] = [inst[i] EXCEPT !.bound = TRUE, !.gadget = TRUE, !.ref = @ + 1]]
  /\ UNCHANGED <<dev, mem, writing, admin>>

\* functionfs_unbind with its ffs_data_put, when the last function goes.
Unbound(i) ==
  /\ conf' = [conf EXCEPT !.pc = "idle", !.refcnt = @ - 1]
  /\ inst' = [inst EXCEPT ![i] = [inst[i] EXCEPT !.bound = FALSE, !.gadget = FALSE, !.ref = @ - 1]]
  /\ mem' = IF inst[i].ref = 1 THEN mem \ {i} ELSE mem

\* _ffs_func_bind.
BindFunc ==
  /\ conf.pc = "func"
  /\ \/ conf' = [conf EXCEPT !.pc = "bound"] /\ UNCHANGED <<mem, inst>>
     \/ Unbound(conf.ffs)
  /\ UNCHANGED <<dev, writing, admin>>

\* ffs_func_unbind.
Unbind ==
  /\ conf.pc = "bound" /\ Unbound(conf.ffs)
  /\ UNCHANGED <<dev, writing, admin>>

-----------------------------------------------------------------------------
(* FUNCTIONFS_DELFN *)

\* _ffs_find_dev without the lock, then the device node.  When the function has
\* no ready instance dev->ffs_data is dereferenced as NULL: left out.  The
\* daemon has closed its files: nothing in the code waits for them.
DelFn ==
  /\ admin.pc = "idle" /\ dev.ffs_data # None /\ writing = None
  /\ Orderly => conf.pc \in {"idle", "bound"}
  /\ Set(dev.ffs_data, "node", FALSE)
  /\ admin' = At("release", dev.ffs_data) /\ UNCHANGED <<dev, mem, writing, conf>>

\* ffs_release_dev, here and after a NEWFN that failed.
ReleaseDev ==
  /\ admin.pc = "release" /\ admin' = At("closed", admin.ffs)
  /\ dev' = IF inst[admin.ffs].private = "dev" THEN [dev EXCEPT !.mounted = FALSE] ELSE dev
  /\ UNCHANGED <<mem, inst, writing, conf>>

\* ffs_data_clear: ffs_closed up to ffs_dev_unlock.
Closed ==
  /\ admin.pc = "closed"
  /\ dev' = IF inst[admin.ffs].private # "dev" THEN dev
            ELSE [dev EXCEPT !.desc_ready = FALSE, !.ffs_data = None]
  /\ admin' = At(IF inst[admin.ffs].private = "dev" THEN "unregister" ELSE "clear", admin.ffs)
  /\ UNCHANGED <<mem, inst, writing, conf>>

\* Fault: a bound function stays registered.
UnregisterNothing ==
  /\ admin.pc = "unregister" /\ admin' = At("clear", admin.ffs)
  /\ UNCHANGED <<dev, mem, inst, writing, conf>>

\* The rest of ffs_closed: when FFS_FL_BOUND is set unregister_gadget_item waits
\* for gi->lock and unbinds what is bound.
Unregister ==
  /\ admin.pc = "unregister" /\ admin' = At("clear", admin.ffs)
  /\ IF ~inst[admin.ffs].bound THEN UNCHANGED <<mem, inst, conf>>
     ELSE /\ conf.pc \in {"none", "idle", "bound"}
          /\ IF conf.pc = "bound" THEN Unbound(conf.ffs) ELSE UNCHANGED <<mem, inst, conf>>
  /\ UNCHANGED <<dev, writing>>

\* The rest of ffs_data_clear, and kfree whatever the reference count says.
Clear ==
  /\ admin.pc = "clear" /\ admin' = At("idle", None)
  /\ mem' = mem \ {admin.ffs} /\ inst' = [inst EXCEPT ![admin.ffs] = New]
  /\ UNCHANGED <<dev, writing, conf>>

InsNext ==
  \/ AllocInst \/ FreeInst \/ (\E i \in Instances : NewFn(i) \/ Configure(i))
  \/ Acquire \/ MakeNode \/ Ready
  \/ BindLookup \/ BindData \/ BindFunc \/ Unbind
  \/ DelFn \/ ReleaseDev \/ Closed \/ Unregister \/ Clear

InsSpec == InsInit /\ [][InsNext]_insVars

-----------------------------------------------------------------------------
(* f_generic.c:1694, BUG_ON(ffs->gadget) in ffs_data_clear: an instance is *)
(* torn down only after the gadget has let go of it.                       *)
NoGadgetWhenCleared == admin.pc = "clear" => ~inst[admin.ffs].gadget

(* The instance a function works on, in its bind callback or bound, and    *)
(* the one configfs would hand to the next bind, are allocated.  So that    *)
(* functionfs_unbind's put does not free what ffs_func_unbind goes on to    *)
(* use, and the kfree of DELFN, which ignores the count, drops the last     *)
(* reference, there is one for the creator and one for the gadget.          *)
FunctionInstanceAlive ==
  /\ conf.pc \in {"lookup", "func", "bound"} => conf.ffs \in mem
  /\ dev.ffs_data # None => dev.ffs_data \in mem
  /\ \A i \in mem : inst[i].ref = IF inst[i].gadget THEN 2 ELSE 1
=============================================================================
