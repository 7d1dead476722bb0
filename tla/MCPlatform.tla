------------------------------- MODULE MCPlatform -------------------------------
(* The platform adapters and the OSAL objects on small instances: two      *)
(* chips or nodes and two clients of each, three works of which two are    *)
(* delayed, three devices for two minors, two blocks of memory.  They      *)
(* share no state, so a behaviour exercises one of them.                   *)
EXTENDS RegulatorAdapter, GpioAdapter, UartAdapter, OsalWork, OsalCdev, OsalMem

VARIABLE part

MCAsks ==
  { [bits |-> 8, flow |-> TRUE, parity |-> "odd", stop |-> 1],
    [bits |-> 7, flow |-> FALSE, parity |-> "even", stop |-> 2],
    [bits |-> 8, flow |-> FALSE, parity |-> "none", stop |-> 1] }

pfParts == {"regulator", "gpio", "uart", "work", "cdev", "mem"}

pfVars == <<rgVars, gpVars, uartVars, wkVars, cdVars, omVars>>

PfInit ==
  /\ RgInit /\ GpInit /\ UartInit /\ WkInit /\ CdInit /\ OmInit
  /\ part = "regulator" \/ ~supply.always

PfNext ==
  \/ part = "regulator" /\ RgNext   /\ UNCHANGED <<gpVars, uartVars, wkVars, cdVars, omVars>>
  \/ part = "gpio"      /\ GpNext   /\ UNCHANGED <<rgVars, uartVars, wkVars, cdVars, omVars>>
  \/ part = "uart"      /\ UartNext /\ UNCHANGED <<rgVars, gpVars, wkVars, cdVars, omVars>>
  \/ part = "work"      /\ WkNext   /\ UNCHANGED <<rgVars, gpVars, uartVars, cdVars, omVars>>
  \/ part = "cdev"      /\ CdNext   /\ UNCHANGED <<rgVars, gpVars, uartVars, wkVars, omVars>>
  \/ part = "mem"       /\ OmNext   /\ UNCHANGED <<rgVars, gpVars, uartVars, wkVars, cdVars>>
=============================================================================
