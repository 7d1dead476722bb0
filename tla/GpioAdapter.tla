------------------------------ MODULE GpioAdapter ------------------------------
(***************************************************************************)
(* The GPIO adapter (gpio_adapter.c): an HDF controller for every gpio     *)
(* chip of the kernel, and a bridge from a line's interrupt to the         *)
(* controller's callback.  One line per chip.                              *)
(*                                                                         *)
(* The bridge looks its controller up by number and holds a reference      *)
(* while it calls it; release takes the controller out of the manager and  *)
(* frees it once its references are gone.  Nothing makes the clients free  *)
(* their interrupts before that.                                           *)
(***************************************************************************)
EXTENDS Naturals, FiniteSets

CONSTANTS Chips, MaxDepth  \* bound on nested disables

ASSUME GpAssumption == IsFiniteSet(Chips) /\ MaxDepth \in Nat \ {0}

VARIABLES gpio,    \* per chip, its controller: none, added, leaving
          refs,    \* per chip: references to the controller
          irq,     \* per chip, its line's interrupt: free, requested (SetIrq is about to disable it), set
          depth,   \* per chip: the kernel's disable depth of that interrupt
          bridge,  \* per chip, its handler: idle, entered, holding a controller, or without one
          driver   \* down, up, releasing

gpVars == <<gpio, refs, irq, depth, bridge, driver>>

GpInit ==
  /\ gpio = [c \in Chips |-> "none"] /\ refs = [c \in Chips |-> 0]
  /\ irq = [c \in Chips |-> "free"] /\ depth = [c \in Chips |-> 0]
  /\ bridge = [c \in Chips |-> "idle"] /\ driver = "down"

\* Chips out of range are passed over; the first that cannot be added ends the
\* search, and LinuxGpioInit succeeds all the same.
LinuxGpioInit ==
  /\ driver = "down" /\ driver' = "up"
  /\ \E added \in SUBSET Chips : gpio' = [c \in Chips |-> IF c \in added THEN "added" ELSE "none"]
  /\ UNCHANGED <<refs, irq, depth, bridge>>

-----------------------------------------------------------------------------
(* Calls of clients.  GpioManager holds a reference around each of them,   *)
(* which shows only while one is between two steps.                        *)

\* request_irq, or else request_threaded_irq: the line is live at once ...
SetIrq(c) ==
  /\ gpio[c] = "added" /\ irq[c] = "free"
  /\ irq' = [irq EXCEPT ![c] = "requested"] /\ refs' = [refs EXCEPT ![c] = @ + 1]
  /\ UNCHANGED <<gpio, depth, bridge, driver>>

\* ... and then disabled: "disable on set".
DisableOnSet(c) ==
  /\ irq[c] = "requested" /\ irq' = [irq EXCEPT ![c] = "set"]
  /\ depth' = [depth EXCEPT ![c] = @ + 1] /\ refs' = [refs EXCEPT ![c] = @ - 1]
  /\ UNCHANGED <<gpio, bridge, driver>>

\* enable_irq of an enabled interrupt only warns; disable_irq_nosync waits for nobody.
LinuxGpioEnableIrq(c) ==
  /\ gpio[c] = "added" /\ irq[c] = "set" /\ depth[c] > 0
  /\ depth' = [depth EXCEPT ![c] = @ - 1]
  /\ UNCHANGED <<gpio, refs, irq, bridge, driver>>

LinuxGpioDisableIrq(c) ==
  /\ gpio[c] = "added" /\ irq[c] = "set" /\ depth[c] < MaxDepth
  /\ depth' = [depth EXCEPT ![c] = @ + 1]
  /\ UNCHANGED <<gpio, refs, irq, bridge, driver>>

\* free_irq waits for a handler that runs.
LinuxGpioUnsetIrq(c) ==
  /\ gpio[c] = "added" /\ irq[c] = "set" /\ bridge[c] = "idle"
  /\ irq' = [irq EXCEPT ![c] = "free"] /\ depth' = [depth EXCEPT ![c] = 0]
  /\ UNCHANGED <<gpio, refs, bridge, driver>>

-----------------------------------------------------------------------------
(* LinuxGpioIrqBridge, which the line starts when it is live. *)
Raised(c) ==
  /\ irq[c] # "free" /\ depth[c] = 0 /\ bridge[c] = "idle"
  /\ bridge' = [bridge EXCEPT ![c] = "entered"]
  /\ UNCHANGED <<gpio, refs, irq, depth, driver>>

\* Fault: the reference is put before the callback.
GetByGpioAndPut(c) ==
  /\ bridge[c] = "entered"
  /\ bridge' = [bridge EXCEPT ![c] = IF gpio[c] = "added" THEN "holding" ELSE "without"]
  /\ UNCHANGED <<gpio, refs, irq, depth, driver>>

GetByGpio(c) ==
  /\ bridge[c] = "entered"
  /\ bridge' = [bridge EXCEPT ![c] = IF gpio[c] = "added" THEN "holding" ELSE "without"]
  /\ refs' = [refs EXCEPT ![c] = IF gpio[c] = "added" THEN @ + 1 ELSE @]
  /\ UNCHANGED <<gpio, irq, depth, driver>>

\* The callback, and the put; both do nothing without a controller.
CallbackAndPut(c) ==
  /\ bridge[c] \in {"holding", "without"} /\ bridge' = [bridge EXCEPT ![c] = "idle"]
  /\ refs' = [refs EXCEPT ![c] = IF bridge[c] = "holding" /\ @ > 0 THEN @ - 1 ELSE @]
  /\ UNCHANGED <<gpio, irq, depth, driver>>

-----------------------------------------------------------------------------
(* LinuxGpioRelease: chip by chip, the controller is looked up, its         *)
(* reference put and the controller removed, which waits for all the others.*)
StartRelease ==
  /\ driver = "up" /\ driver' = "releasing"
  /\ UNCHANGED <<gpio, refs, irq, depth, bridge>>

\* Fault: the reference of the look-up is kept.
MatchReleaseKeeps(c) ==
  /\ driver = "releasing" /\ gpio[c] = "added" /\ \A d \in Chips : gpio[d] # "leaving"
  /\ gpio' = [gpio EXCEPT ![c] = "leaving"] /\ refs' = [refs EXCEPT ![c] = @ + 1]
  /\ UNCHANGED <<irq, depth, bridge, driver>>

LinuxGpioMatchRelease(c) ==
  /\ driver = "releasing" /\ gpio[c] = "added" /\ \A d \in Chips : gpio[d] # "leaving"
  /\ gpio' = [gpio EXCEPT ![c] = "leaving"]
  /\ UNCHANGED <<refs, irq, depth, bridge, driver>>

FreeCntlr(c) ==
  /\ gpio[c] = "leaving" /\ refs[c] = 0 /\ gpio' = [gpio EXCEPT ![c] = "none"]
  /\ UNCHANGED <<refs, irq, depth, bridge, driver>>

Released ==
  /\ driver = "releasing" /\ \A c \in Chips : gpio[c] = "none"
  /\ driver' = "down"
  /\ UNCHANGED <<gpio, refs, irq, depth, bridge>>

GpNext ==
  \/ LinuxGpioInit \/ StartRelease \/ Released
  \/ \E c \in Chips :
       \/ SetIrq(c) \/ DisableOnSet(c) \/ LinuxGpioEnableIrq(c) \/ LinuxGpioDisableIrq(c)
       \/ LinuxGpioUnsetIrq(c) \/ Raised(c) \/ GetByGpio(c) \/ CallbackAndPut(c)
       \/ LinuxGpioMatchRelease(c) \/ FreeCntlr(c)

\* A handler and a call that have begun go on, and so does the release.
GpFairness ==
  /\ WF_gpVars(Released \/ \E c \in Chips : LinuxGpioMatchRelease(c) \/ FreeCntlr(c))
  /\ \A c \in Chips : WF_gpVars(DisableOnSet(c)) /\ WF_gpVars(GetByGpio(c) \/ CallbackAndPut(c))

GpSpec == GpInit /\ [][GpNext]_gpVars /\ GpFairness

-----------------------------------------------------------------------------
(* The controller a handler has looked up is not freed before the handler  *)
(* is through with it, although the driver may be released at any time and  *)
(* interrupts are left enabled when it is.                                  *)
BridgeHasCntlr == \A c \in Chips : bridge[c] = "holding" => gpio[c] # "none"

(* "Be careful to keep the reference count balanced": a release ends, with  *)
(* handlers running, lines being set and interrupts still coming.           *)
ReleaseEnds == driver = "releasing" ~> driver = "down"
=============================================================================
