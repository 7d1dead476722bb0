------------------------------- MODULE MCAdapters ------------------------------
(* The parts of the network adapters and the OSAL timer on small           *)
(* instances, those of MCPlatform, and one caller of the kernel event      *)
(* service with one client.  They share no state, so a behaviour exercises *)
(* one of them and the others stay in their initial states: the product    *)
(* would add nothing.                                                      *)
EXTENDS WlanQueue, NetDevice, OsalTimer, MCPlatform, MCSender

parts == {"queue", "device", "timer", "kevent"} \cup pfParts

adapterVars == <<wvars, ndVars, tmVars, seVars>>

MCInit ==
  /\ part \in parts /\ WInit /\ NdInit /\ TmInit /\ PfInit /\ KE!KeInit /\ devmgrClnt

MCNext ==
  /\ part' = part
  /\ \/ part = "queue"  /\ WNext  /\ UNCHANGED <<ndVars, tmVars, pfVars, seVars>>
     \/ part = "device" /\ NdNext /\ UNCHANGED <<wvars, tmVars, pfVars, seVars>>
     \/ part = "timer"  /\ TmNext /\ UNCHANGED <<wvars, ndVars, pfVars, seVars>>
     \/ part = "kevent" /\ KE!KeNext /\ UNCHANGED <<wvars, ndVars, tmVars, pfVars>>
     \/ PfNext /\ UNCHANGED adapterVars

\* In its initial state no component has an action that fairness is about.
MCSpec ==
  /\ MCInit /\ [][MCNext]_<<part, adapterVars, pfVars>>
  /\ TmFairness /\ GpFairness /\ KE!KeFairness
==============================================================================
