------------------------------- MODULE MCManager -------------------------------
(* Parts of which only safety is checked, on small instances: the          *)
(* manager's kevent and power path, the USB devices, the USB gadget, the   *)
(* network buffers and the MIPI DSI device.  They share no state, so a     *)
(* behaviour exercises one of them.                                        *)
EXTENDS Kevent, UsbPnpNotify, NetBuf, MipiTxDev, TLC

VARIABLE part

vars == <<part, keVars, pnpVars, nbVars, dsiVars>>

MCInit ==
  /\ part \in {"kevent", "usb", "gadget", "buffers", "dsi"}
  /\ KeInit /\ PnpInit /\ NbInit /\ DsiInit /\ (part # "kevent" => devmgrClnt)

MCNext ==
  /\ part' = part
  /\ \/ part = "kevent"  /\ KeNext     /\ UNCHANGED <<pnpVars, nbVars, dsiVars>>
     \/ part = "usb"     /\ UsbStep    /\ UNCHANGED <<gadgetVars, keVars, nbVars, dsiVars>>
     \/ part = "gadget"  /\ GadgetStep /\ UNCHANGED <<devVars, keVars, nbVars, dsiVars>>
     \/ part = "buffers" /\ NbNext     /\ UNCHANGED <<keVars, pnpVars, dsiVars>>
     \/ part = "dsi"     /\ DsiNext    /\ UNCHANGED <<keVars, pnpVars, nbVars>>

MCSpec == MCInit /\ [][MCNext]_vars

Symmetry ==
  Permutations(Clients) \cup Permutations(Tokens) \cup Permutations(Devs)
==============================================================================
