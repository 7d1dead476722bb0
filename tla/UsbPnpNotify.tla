----------------------------- MODULE UsbPnpNotify -----------------------------
(***************************************************************************)
(* usb_pnp_notify.c: the kernel's USB notifier hands each device that      *)
(* comes or goes to a report thread through one slot, g_usbDevice with     *)
(* g_usbPnpNotifyCmdType, and the thread tells user space.  User space     *)
(* puts interface events into the same slot, or asks for a report of all   *)
(* devices, through Dispatch.  Dispatch stores the command it is given     *)
(* before it looks at it, so that any command but GETDEVICES replaces that *)
(* of an event still in the slot.                                          *)
(*                                                                         *)
(* What runs under g_usbSendEventLock is one step.  The notifier finds or  *)
(* creates a device's info without that lock, so its calls have steps of   *)
(* their own; the calls for one device follow each other, those for two    *)
(* devices interleave.  A device stands for its address and its numbers    *)
(* together, Null for the numbers 0 and 0.  Bound: Ids, the infos alive at *)
(* once.                                                                   *)
(***************************************************************************)
EXTENDS Integers, Sequences, FiniteSets, SequencesExt

CONSTANTS Devs,         \* usb_device addresses
          Null,
          Ids,          \* identities of UsbPnpDeviceInfo
          GadgetCalls,  \* threads that call the notifier for the gadget
          SendFails     \* whether HdfDeviceSendEvent may fail

ASSUME PnpAssumption ==
  /\ IsFiniteSet(Devs) /\ IsFiniteSet(Ids) /\ SendFails \in BOOLEAN
  /\ Null \notin Devs /\ "own" \notin Devs \cup {Null}

VARIABLES
  plugged,      \* devices the kernel has
  infos,        \* g_usbPnpInfoListHead, oldest first
  cb,           \* where the notifier call of each device is, and its info
  usbDevice,    \* g_usbDevice: Null, a device, or "own" for &g_usbPnpInfo
  named,        \* the device whose numbers g_usbPnpInfo has
  cmd,          \* g_usbPnpNotifyCmdType; INTERFACE is ADD_ or REMOVE_INTERFACE,
                \* OTHER one that Dispatch does not know
  view,         \* devices user space has been told of
  lost,         \* devices whose announcement something else prevented
  gadget,       \* g_gadgetPnpNotifyType, g_preAcion, and what user space was told
                \* (none after a send that failed)
  calls,        \* the action a gadget call has still to store in g_preAcion
  given,        \* the last action the kernel gave
  overlapped    \* whether a gadget call began before another had stored its action

devVars == <<plugged, infos, cb, usbDevice, named, cmd, view, lost>>
gadgetVars == <<gadget, calls, given, overlapped>>
pnpVars == <<devVars, gadgetVars>>

PnpInit ==
  /\ plugged = {} /\ infos = <<>> /\ usbDevice = Null
  /\ cb = [d \in Devs |-> [at |-> "idle", id |-> Null]]
  /\ named = Null /\ cmd = "INTERFACE" /\ view = {} /\ lost = {}
  /\ gadget = [type |-> "none", pre |-> "none", told |-> "none"]
  /\ calls = [k \in GadgetCalls |-> "none"] /\ given = "none" /\ overlapped = FALSE

InUse == {infos[i].id : i \in DOMAIN infos} \cup {cb[d].id : d \in Devs}
NextId == {id \in Ids \ InUse : \A other \in Ids \ InUse : id <= other}

\* UsbPnpNotifyCreateInfo, for the device whose address the info is then given.
Created(id, d) == Append(infos, [id |-> id, dev |-> d, status |-> "INIT"])

\* UsbPnpNotifyFindInfo: the first info of d.
Find(d) == SelectInSeq(infos, LAMBDA x : x.dev = d)

\* UsbPnpNotifyDestroyInfo, of the info at index i.
DestroyInfo(i) == RemoveAt(infos, i)

\* What the slot announces is announced to nobody, or as something else, when
\* the slot or its command is overwritten.  (g_usbPnpInfo names a lost device.)
Overwritten == {usbDevice} \cap Devs

-----------------------------------------------------------------------------
(* UsbPnpNotifyCallback *)

\* USB_DEVICE_ADD.  A device without a configuration leaves its info behind.  A
\* device that gets the address of one whose removal is still in the slot is
\* taken for that one.
CallbackAdd(d) ==
  /\ d \notin plugged /\ cb[d].at = "idle" /\ plugged' = plugged \cup {d}
  /\ \E created, configured \in BOOLEAN :
       /\ infos' \in IF created THEN {Created(id, d) : id \in NextId} ELSE {infos}
       /\ cb' = IF created /\ configured THEN [cb EXCEPT ![d].at = "add"] ELSE cb
       /\ lost' = IF created /\ configured /\ usbDevice # d THEN lost ELSE lost \cup {d}
  /\ UNCHANGED <<usbDevice, named, cmd, view, gadgetVars>>

\* USB_DEVICE_REMOVE, first part: look the info up.
CallbackRemove(d) ==
  /\ d \in plugged /\ cb[d].at = "idle" /\ plugged' = plugged \ {d}
  /\ cb' = IF Find(d) = 0 THEN cb
           ELSE [cb EXCEPT ![d] = [at |-> "found", id |-> infos[Find(d)].id]]
  /\ UNCHANGED <<infos, usbDevice, named, cmd, view, lost, gadgetVars>>

Toggle(status, otherwise) == IF status = "INIT" THEN otherwise ELSE "INIT"

\* Fault: an announced device is marked as one still to be announced.
RemoveMarks(d) ==
  /\ cb[d].at = "found" /\ cb' = [cb EXCEPT ![d] = [at |-> "remove", id |-> Null]]
  /\ infos' = [i \in DOMAIN infos |-> IF infos[i].id # cb[d].id THEN infos[i]
                 ELSE [infos[i] EXCEPT !.status = "REMOVE"]]
  /\ UNCHANGED <<plugged, usbDevice, named, cmd, view, lost, gadgetVars>>

\* Second part, under deviceInfo->lock.  An info destroyed in between is freed
\* memory: the step then changes no info on the list.
RemoveStatus(d) ==
  /\ cb[d].at = "found" /\ cb' = [cb EXCEPT ![d] = [at |-> "remove", id |-> Null]]
  /\ infos' = [i \in DOMAIN infos |-> IF infos[i].id # cb[d].id THEN infos[i]
                 ELSE [infos[i] EXCEPT !.status = Toggle(@, "REMOVE")]]
  /\ UNCHANGED <<plugged, usbDevice, named, cmd, view, lost, gadgetVars>>

\* Last part of both, under g_usbSendEventLock.
Announce(d) ==
  /\ cb[d].at \in {"add", "remove"} /\ cb' = [cb EXCEPT ![d].at = "idle"]
  /\ usbDevice' = d
  /\ cmd' = IF cb[d].at = "add" THEN "ADD_DEVICE" ELSE "REMOVE_DEVICE"
  /\ lost' = lost \cup Overwritten
  /\ UNCHANGED <<plugged, infos, named, view, gadgetVars>>

-----------------------------------------------------------------------------
(* UsbPnpNotifyHdfSendEvent, for the info at index i *)

\* Fault: an info is destroyed whatever was sent.
SentDestroys(i) ==
  /\ infos' = DestroyInfo(i)
  /\ view' = IF cmd = "ADD_DEVICE" THEN view \cup {infos[i].dev} ELSE view \ {infos[i].dev}
  /\ UNCHANGED lost

\* An info is sent when its status is INIT; a failure destroys it, and so does
\* the end of a REMOVE_DEVICE.
Sent(i) ==
  \E ok \in IF SendFails THEN BOOLEAN ELSE {TRUE} :
    LET d == infos[i].dev  send == infos[i].status = "INIT" /\ ok
    IN  /\ infos' = IF ~send \/ cmd = "REMOVE_DEVICE" THEN DestroyInfo(i)
                    ELSE [infos EXCEPT ![i].status = "ADD"]
        /\ view' = CASE send /\ cmd = "ADD_DEVICE"    -> view \cup {d}
                     [] send /\ cmd = "REMOVE_DEVICE" -> view \ {d}
                     [] OTHER -> view
        /\ lost' = IF ok THEN lost ELSE lost \cup ({d} \cap Devs)

\* A report creates an info of its own for each device of ds, also for one that
\* has an info already.
Reported(ds) ==
  \E seq \in SetToSeqs(ds) : LET ids == SetToSeq(Ids \ InUse) IN
      /\ Len(seq) <= Len(ids)
      /\ infos' = infos \o [i \in DOMAIN seq |-> [id |-> ids[i], dev |-> seq[i], status |-> "ADD"]]
      /\ view' = view \cup ds /\ lost' = lost \cup ds \cup Overwritten

\* UsbPnpNotifyGetDeviceInfo: an interface event is looked up by its numbers, and
\* whatever the slot holds (569-575); an event of a device by the slot's address,
\* which for &g_usbPnpInfo is nobody's.
Sought == Find(IF cmd = "INTERFACE" THEN named ELSE usbDevice)

\* A command that UsbPnpNotifyGetDeviceInfo does not know gets an info of nobody.
SentOther ==
  /\ infos' \in {infos} \cup
        {Append(infos, [id |-> id, dev |-> Null, status |-> "ADD"]) : id \in NextId}
  /\ UNCHANGED <<view, lost>>

\* One round of UsbPnpNotifyReportThread; without a buffer nothing is looked up.
\* A report with &g_usbPnpInfo in the slot reads that as a usb_device, which is
\* undefined: of what can come of it, only the failure is kept.
ReportThread ==
  /\ usbDevice # Null /\ usbDevice' = Null
  /\ \/ cmd = "REPORT_INTERFACE" /\ \E ds \in SUBSET Overwritten : Reported(ds)
     \/ cmd = "OTHER" /\ SentOther
     \/ /\ cmd \in {"INTERFACE", "ADD_DEVICE", "REMOVE_DEVICE"}
        /\ \/ Sought = 0 /\ UNCHANGED <<infos, view, lost>>
           \/ Sought # 0 /\ Sent(Sought)
           \/ SendFails /\ lost' = lost \cup Overwritten /\ UNCHANGED <<infos, view>>
  /\ UNCHANGED <<plugged, cb, named, cmd, gadgetVars>>

-----------------------------------------------------------------------------
(* UsbPnpNotifyDispatch *)

\* UsbPnpNotifyReadPnpInfo, for the numbers that user space gives.
DispatchInterface(d) ==
  /\ cmd' = "INTERFACE" /\ usbDevice' = "own" /\ named' = d
  /\ infos' = IF Find(d) = 0 THEN infos
              ELSE [infos EXCEPT ![Find(d)].status = Toggle(@, "INTERFACE")]
  /\ lost' = lost \cup Overwritten \cup ({d} \cap Devs)
  /\ UNCHANGED <<plugged, cb, view, gadgetVars>>

\* The commands that leave the slot alone but for its command: an interface event
\* whose buffer cannot be read (703-707), and all that end in the default branch.
DispatchCommand(c) ==
  /\ cmd' = c /\ lost' = lost \cup Overwritten
  /\ UNCHANGED <<plugged, infos, cb, usbDevice, named, view, gadgetVars>>

\* usb_for_each_dev(UsbPnpNotifyFirstReport): the walk ends at a report that
\* fails, for want of memory or in HdfDeviceSendEvent.  The command stays, and
\* takes the place of the one in the slot, if any.
DispatchReport ==
  /\ cmd' = "REPORT_INTERFACE" /\ \E ds \in SUBSET plugged : Reported(ds)
  /\ UNCHANGED <<plugged, cb, usbDevice, named, gadgetVars>>

-----------------------------------------------------------------------------
(* The gadget's slot: USB_GADGET_ADD and USB_GADGET_REMOVE *)

\* Fault: an event that finds one in the slot is dropped.
GadgetCallbackDrops(k, action) ==
  /\ calls[k] = "none" /\ given' = action /\ UNCHANGED <<devVars, overlapped>>
  /\ gadget.pre # action
  /\ gadget' = [gadget EXCEPT !.type = IF @ = "none" THEN action ELSE @]
  /\ calls' = [calls EXCEPT ![k] = action]

\* UsbPnpNotifyCallback, up to the unlock of g_gadgetSendEventLock and the wake-up.
GadgetCallback(k, action) ==
  /\ calls[k] = "none" /\ given' = action /\ UNCHANGED devVars
  /\ overlapped' = (overlapped \/ \E o \in GadgetCalls : calls[o] # "none")
  /\ \/ gadget.pre = action /\ UNCHANGED <<gadget, calls>>
     \/ /\ gadget.pre # action
        /\ gadget' = [gadget EXCEPT !.type = action]
        /\ calls' = [calls EXCEPT ![k] = action]

\* The store of g_preAcion, which no lock protects.
GadgetRemember(k) ==
  /\ calls[k] # "none"
  /\ gadget' = [gadget EXCEPT !.pre = calls[k]]
  /\ calls' = [calls EXCEPT ![k] = "none"]
  /\ UNCHANGED <<devVars, given, overlapped>>

GadgetReportThread ==
  /\ gadget.type # "none"
  /\ \E ok \in IF SendFails THEN BOOLEAN ELSE {TRUE} :
       gadget' = [gadget EXCEPT !.type = "none", !.told = IF ok THEN gadget.type ELSE "none"]
  /\ UNCHANGED <<devVars, calls, given, overlapped>>

UsbStep ==
  \/ \E d \in Devs : \/ CallbackAdd(d) \/ CallbackRemove(d) \/ RemoveStatus(d) \/ Announce(d)
  \/ \E d \in Devs \cup {Null} : DispatchInterface(d)
  \/ \E c \in {"INTERFACE", "ADD_DEVICE", "REMOVE_DEVICE", "OTHER"} : DispatchCommand(c)
  \/ ReportThread \/ DispatchReport

GadgetStep ==
  \/ GadgetReportThread
  \/ \E k \in GadgetCalls : \/ GadgetRemember(k)
                             \/ \E action \in {"ADD", "REMOVE"} : GadgetCallback(k, action)

PnpNext == UsbStep \/ GadgetStep

PnpSpec == PnpInit /\ [][PnpNext]_pnpVars

-----------------------------------------------------------------------------
Settled == usbDevice = Null /\ \A d \in Devs : cb[d].at = "idle"

(* When nothing is on its way, user space has been told of exactly the     *)
(* devices that are there.  Devices are lost, and excepted, in these ways: *)
(* their event is in the slot when another event or any command that       *)
(* Dispatch gets replaces it or its command; they are named by an          *)
(* interface event or covered by a report; they have no configuration; or  *)
(* an allocation or a send fails.                                          *)
ToldUnlessLost == Settled => \A d \in Devs \ lost : d \in view <=> d \in plugged

(* The notifier uses the info it found after letting go of the list: for a *)
(* device that is not lost, the report thread has not freed it in between. *)
(* (For one that is lost it may have: a failed send frees the info.)       *)
FoundInfoAlive ==
  \A d \in Devs \ lost : cb[d].at = "found" => \E i \in DOMAIN infos : infos[i].id = cb[d].id

(* A gadget event overwritten in its slot is followed by the one that      *)
(* replaced it: with the slot empty, the last event user space got is the  *)
(* last one the kernel gave, also before g_preAcion is stored.  Calls that *)
(* overlap may store it in the wrong order and are excepted.               *)
GadgetToldLast ==
  ~overlapped /\ gadget.type = "none" /\ gadget.told # "none" => gadget.told = given
=============================================================================
