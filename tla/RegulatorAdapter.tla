---------------------------- MODULE RegulatorAdapter ----------------------------
(***************************************************************************)
(* The regulator adapter (regulator_adapter.c and its consumer device):    *)
(* HDF regulator nodes that are consumers of one supply of the kernel's.   *)
(* Enable and Disable call the kernel and then ask it for the status they  *)
(* keep in the node, while other nodes go on; RegulatorCore serialises the *)
(* calls on one node.  Close disables once, whatever the node had enabled, *)
(* so a node that never enabled gives away the use of another: the model   *)
(* has this, and SupplyHeld excepts what happens afterwards.               *)
(***************************************************************************)
EXTENDS Naturals

CONSTANTS NumRegs,    \* children of the device's configuration node
          MaxUses     \* bound on a node's enables and on the supply's count

ASSUME RgAssumption == NumRegs \in Nat \ {0} /\ MaxUses \in Nat \ {0}

VARIABLES parsed,     \* children LinuxRegulatorInit is through with
          reg,        \* per node: none, closed (adapterReg NULL), open, or which status it is about to ask
          enables,    \* per node: the kernel's count for its consumer
          status,     \* per node: regulatorInfo.status is REGULATOR_STATUS_ON
          supply,     \* the kernel's regulator_dev: its use count, state and always-on constraint
          stolen      \* history: a use was given back by one who had none, or the supply was forced off

rgVars == <<parsed, reg, enables, status, supply, stolen>>

RgNodes == 1 .. NumRegs

RgInit ==
  /\ parsed = 0 /\ reg = [n \in RgNodes |-> "none"] /\ stolen = FALSE
  /\ enables = [n \in RgNodes |-> 0] /\ status = [n \in RgNodes |-> FALSE]
  /\ supply \in { [uses |-> 1, on |-> TRUE, always |-> TRUE],
                  [uses |-> 0, on |-> FALSE, always |-> FALSE] }

-----------------------------------------------------------------------------
(* The kernel's part, drivers/regulator/core.c. *)

\* A first use switches the supply on, a later one does not.
Used(s) == [s EXCEPT !.uses = @ + 1, !.on = @ \/ s.uses = 0]

\* The last use switches it off, unless it is always on.
Unused(s) == IF s.uses > 1 THEN [s EXCEPT !.uses = @ - 1]
             ELSE IF s.always THEN s ELSE [s EXCEPT !.uses = 0, !.on = FALSE]

\* regulator_disable: the supply's count goes down before the consumer's is found to be 0.
KernelDisable(n) ==
  /\ supply' = IF supply.uses = 0 THEN supply ELSE Unused(supply)
  /\ stolen' = (stolen \/ (enables[n] = 0 /\ supply.uses > 0))

-----------------------------------------------------------------------------
\* Init stops at the first child it cannot parse or add.
LinuxRegulatorParseAndInit ==
  /\ parsed < NumRegs /\ parsed' = parsed + 1
  /\ reg' = [reg EXCEPT ![parsed'] = "closed"] /\ status' = [status EXCEPT ![parsed'] = FALSE]
  /\ UNCHANGED <<enables, supply, stolen>>

LinuxRegulatorOpen(n) ==
  /\ reg[n] = "closed" /\ reg' = [reg EXCEPT ![n] = "open"]
  /\ UNCHANGED <<parsed, enables, status, supply, stolen>>

\* Whether or not the disable succeeds the consumer is put, with what it has enabled.
PutConsumer(n) ==
  /\ enables' = [enables EXCEPT ![n] = 0]
  /\ KernelDisable(n) \/ UNCHANGED <<supply, stolen>>

LinuxRegulatorClose(n) ==
  /\ reg[n] = "open" /\ reg' = [reg EXCEPT ![n] = "closed"]
  /\ PutConsumer(n) /\ UNCHANGED <<parsed, status>>

\* LinuxRegulatorRelease: the children one by one; an open one is closed first.
LinuxRegulatorRemove(n) ==
  /\ reg[n] \in {"closed", "open"} /\ reg' = [reg EXCEPT ![n] = "none"]
  /\ parsed' = IF \A m \in RgNodes \ {n} : reg[m] = "none" THEN 0 ELSE NumRegs
  /\ IF reg[n] = "open" THEN PutConsumer(n) ELSE UNCHANGED <<enables, supply, stolen>>
  /\ UNCHANGED status

\* regulator_enable fails when the supply cannot be switched on: then nothing changes.
LinuxRegulatorEnable(n) ==
  /\ reg[n] = "open" /\ reg' = [reg EXCEPT ![n] = "enabled"]
  /\ enables[n] < MaxUses /\ supply.uses < MaxUses * NumRegs
  /\ enables' = [enables EXCEPT ![n] = @ + 1] /\ supply' = Used(supply)
  /\ UNCHANGED <<parsed, status, stolen>>

\* A consumer that had nothing enabled is told so, after the supply's count went down.
LinuxRegulatorDisable(n) ==
  /\ reg[n] = "open" /\ KernelDisable(n)
  /\ IF enables[n] > 0 /\ supply.uses > 0
       THEN reg' = [reg EXCEPT ![n] = "disabled"] /\ enables' = [enables EXCEPT ![n] = @ - 1]
       ELSE UNCHANGED <<reg, enables>>
  /\ UNCHANGED <<parsed, status>>

\* Fault: a disabled node is off.
AskStatusOff(n) ==
  /\ reg[n] \in {"enabled", "disabled"} /\ reg' = [reg EXCEPT ![n] = "open"]
  /\ status' = [status EXCEPT ![n] = reg[n] = "enabled" /\ supply.on]
  /\ UNCHANGED <<parsed, enables, supply, stolen>>

\* regulator_is_enabled, the second half of Enable and Disable: "node maybe alwayson".
AskStatus(n) ==
  /\ reg[n] \in {"enabled", "disabled"} /\ reg' = [reg EXCEPT ![n] = "open"]
  /\ status' = [status EXCEPT ![n] = supply.on]
  /\ UNCHANGED <<parsed, enables, supply, stolen>>

\* The counts stay as they are, so a later enable need not switch the supply on again.
LinuxRegulatorForceDisable(n) ==
  /\ reg[n] = "open" /\ status' = [status EXCEPT ![n] = FALSE]
  /\ supply' = [supply EXCEPT !.on = FALSE] /\ stolen' = TRUE
  /\ UNCHANGED <<parsed, reg, enables>>

RgNext ==
  \/ LinuxRegulatorParseAndInit
  \/ \E n \in RgNodes :
       \/ LinuxRegulatorOpen(n) \/ LinuxRegulatorClose(n) \/ LinuxRegulatorRemove(n)
       \/ LinuxRegulatorEnable(n) \/ LinuxRegulatorDisable(n) \/ AskStatus(n)
       \/ LinuxRegulatorForceDisable(n)

RgSpec == RgInit /\ [][RgNext]_rgVars

-----------------------------------------------------------------------------
(* A node that has enabled the supply more often than it has disabled it   *)
(* finds it on, and says so, however the other nodes of the supply are      *)
(* opened, enabled, disabled, closed and removed meanwhile - until somebody *)
(* gives back a use that was not his or forces the supply off.              *)
SupplyHeld ==
  stolen \/ \A n \in RgNodes :
    enables[n] > 0 => supply.on /\ (reg[n] = "open" => status[n])
=============================================================================
