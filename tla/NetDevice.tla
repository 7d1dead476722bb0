------------------------------- MODULE NetDevice -------------------------------
(***************************************************************************)
(* The Linux side of an HDF network interface (net_device_adapter.c): the  *)
(* framework creates, registers, raises, removes and destroys a net_device *)
(* while the kernel transmits through it and the chip driver's thread      *)
(* hands received buffers to it.  The kernel (register_netdev,             *)
(* unregister_netdev, the transmit queue) is external: unregister_netdev   *)
(* closes the device and returns when no transmission is running, and      *)
(* free_netdev stops the kernel when the device is still registered.       *)
(***************************************************************************)
EXTENDS Naturals, FiniteSets

CONSTANTS Packets       \* buffers given to the device

VARIABLES interFace,    \* ndImpl->interFace is set
          dev,          \* the net_device of impl->osPrivate: none, allocated
          registered, up, started,
          xmit,         \* transmissions inside NetDevXmit
          receive,      \* the chip driver inside NetDevReceive, past the lookup
          packet        \* where each buffer is

netDev  == <<interFace, dev, registered, up, started>>
ndVars  == <<netDev, xmit, receive, packet>>

NdInit ==
  /\ interFace = FALSE /\ dev = FALSE /\ registered = FALSE /\ up = FALSE
  /\ started = FALSE /\ xmit = {} /\ receive = {}
  /\ packet = [p \in Packets |-> "outside"]

RegisterNetDeviceImpl ==
  /\ interFace' = TRUE /\ UNCHANGED <<dev, registered, up, started, xmit, receive, packet>>

\* The framework drops the operations of a device it has destroyed.
UnRegisterNetDeviceImpl ==
  /\ ~dev /\ interFace' = FALSE
  /\ UNCHANGED <<dev, registered, up, started, xmit, receive, packet>>

\* CreateNetDevice may fail; the framework initialises an interface once.
NetDevInit ==
  /\ interFace /\ ~dev /\ dev' = TRUE
  /\ UNCHANGED <<interFace, registered, up, started, xmit, receive, packet>>

\* Nothing is checked here.  free_netdev insists (BUG_ON) that the device is no
\* longer registered; a NetDevReceive past its lookup goes on with freed memory.
NetDevDeInit ==
  /\ interFace /\ ~registered
  /\ dev' = FALSE
  /\ UNCHANGED <<interFace, registered, up, started, xmit, receive, packet>>

NetDevAdd ==
  /\ interFace /\ dev /\ ~registered /\ registered' = TRUE
  /\ UNCHANGED <<interFace, dev, up, started, xmit, receive, packet>>

\* Fault: the device is not unregistered.
NetDevDeleteKeeps ==
  /\ interFace /\ dev /\ registered' = FALSE
  /\ UNCHANGED <<interFace, dev, up, started, xmit, receive, packet>>

NetDevDelete ==
  /\ interFace /\ dev /\ registered /\ xmit = {}
  /\ registered' = FALSE /\ up' = FALSE /\ started' = FALSE
  /\ UNCHANGED <<interFace, dev, xmit, receive, packet>>

\* NetDevSetStatus, or the administrator: dev_open and dev_close, which call
\* NetDevOpen and NetDevStop.
SetStatus(on) ==
  /\ registered /\ up' = on /\ started' = on
  /\ UNCHANGED <<interFace, dev, registered, xmit, receive, packet>>

\* The kernel calls NetDevXmit for a started queue.
XmitBegin(p) ==
  /\ registered /\ started /\ packet[p] = "outside"
  /\ xmit' = xmit \cup {p} /\ packet' = [packet EXCEPT ![p] = "sending"]
  /\ UNCHANGED <<netDev, receive>>

\* It gives the buffer to the driver or, when the driver has no xmit, frees it.
XmitEnd(p) ==
  /\ p \in xmit /\ xmit' = xmit \ {p}
  /\ \E to \in {"driver", "outside"} : packet' = [packet EXCEPT ![p] = to]
  /\ UNCHANGED <<netDev, receive>>

\* The driver is done with a buffer, and frees it.
DriverFrees(p) ==
  /\ packet[p] = "driver" /\ packet' = [packet EXCEPT ![p] = "outside"]
  /\ UNCHANGED <<netDev, xmit, receive>>

\* NetDevReceive: the lookup of the device, then its use.  The driver receives
\* on an interface that is up.
ReceiveBegin(p) ==
  /\ dev /\ up /\ packet[p] = "outside"
  /\ receive' = receive \cup {p} /\ packet' = [packet EXCEPT ![p] = "arriving"]
  /\ UNCHANGED <<netDev, xmit>>

ReceiveEnd(p) ==
  /\ p \in receive /\ receive' = receive \ {p}
  /\ packet' = [packet EXCEPT ![p] = "outside"]
  /\ UNCHANGED <<netDev, xmit>>

NdNext ==
  \/ RegisterNetDeviceImpl \/ UnRegisterNetDeviceImpl
  \/ NetDevInit \/ NetDevDeInit \/ NetDevAdd \/ NetDevDelete
  \/ \E on \in BOOLEAN : SetStatus(on)
  \/ \E p \in Packets : \/ XmitBegin(p) \/ XmitEnd(p) \/ DriverFrees(p)
                        \/ ReceiveBegin(p) \/ ReceiveEnd(p)

NdSpec == NdInit /\ [][NdNext]_ndVars

-----------------------------------------------------------------------------
(* NetDevXmit reads the private data inside the net_device: while one runs *)
(* the device is allocated.  No lock of the adapter sees to it, only that  *)
(* NetDevDelete comes before NetDevDeInit, on which free_netdev insists,   *)
(* and closes the device.                                                  *)
XmitHasDevice == xmit # {} \/ started => dev /\ registered
==============================================================================
