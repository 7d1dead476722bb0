--------------------------- MODULE Platform_proofs ----------------------------
(***************************************************************************)
(* Theorems about the platform adapters: the MIPI DSI device, the GPIO     *)
(* bridge, the UART and the regulators.                                    *)
(***************************************************************************)
EXTENDS MipiTxDev, GpioAdapter, UartAdapter, RegulatorAdapter, FiniteSetTheorems, TLAPS

-----------------------------------------------------------------------------
(* MipiTxDev.                                                              *)

Tasks == [pc : {"closed", "open", "lookup", "down", "inside"},
          cntlr : DsiIds \cup {NoCntlr}, sem : DsiIds]

\* What ioctl looked up is a controller, and it goes down on a semaphore that is there.
LookedUp ==
  \A t \in DsiTasks :
    /\ task[t].pc \in {"lookup", "down", "inside"} => task[t].cntlr \in DsiIds
    /\ task[t].pc = "inside" => sem[task[t].sem] \in Nat

DsiTypeOK ==
  /\ curId \in DsiIds /\ cntlr \in [DsiIds -> DsiIds \cup {NoCntlr}]
  /\ misc \in [DsiIds -> {"none", "coming", "live"}]
  /\ sem \in [DsiIds -> Nat \cup {NoCntlr}] /\ spoiled \subseteq DsiIds
  /\ task \in [DsiTasks -> Tasks] /\ LookedUp

\* The count and the threads within: one unit between them.
Held(i) ==
  \/ sem[i] \in {1, NoCntlr} /\ Within(i) = {}
  \/ sem[i] = 0 /\ \E t \in DsiTasks : Within(i) = {t}

DsiIInv == DsiTypeOK /\ \A i \in DsiIds \ spoiled : Held(i)

-----------------------------------------------------------------------------
(* A thread's step replaces its own record: ioctl's locals live and die     *)
(* with the call.                                                           *)
LEMMA TaskUpdated ==
  ASSUME NEW t \in DsiTasks, NEW r \in Tasks, task \in [DsiTasks -> Tasks], LookedUp,
         r.pc \in {"lookup", "down", "inside"} => r.cntlr \in DsiIds,
         r.pc = "inside" => sem'[r.sem] \in Nat,
         \A i \in DsiIds : sem[i] \in Nat => sem'[i] \in Nat,
         task' = [task EXCEPT ![t] = r]
  PROVE  task' \in [DsiTasks -> Tasks] /\ LookedUp'
  BY DEF LookedUp, Tasks

(* The state mipi_tx_dev.c starts in: no slot has a semaphore yet.          *)
LEMMA InitDsiIInv == DsiInit => DsiIInv
<1> SUFFICES ASSUME DsiInit PROVE DsiIInv
  OBVIOUS
<1>1. Closed \in Tasks /\ Closed.pc = "closed"
  BY DsiAssumption DEF Tasks, Closed
<1>2. DsiTypeOK
  BY <1>1, DsiAssumption DEF DsiInit, DsiTypeOK, LookedUp
<1>3. \A i \in DsiIds : Held(i)
  BY <1>1 DEF DsiInit, Held, Within
<1> QED
  BY <1>2, <1>3 DEF DsiIInv

(* Every step of mipi_tx_dev.c keeps the types.                             *)
LEMMA StepTypeOK == DsiTypeOK /\ [DsiNext]_dsiVars => DsiTypeOK'
<1> SUFFICES ASSUME DsiTypeOK, [DsiNext]_dsiVars PROVE DsiTypeOK'
  OBVIOUS
<1> USE DsiAssumption DEF DsiTypeOK
<1>1. ASSUME NEW i \in DsiIds, RegisterDevice(i) PROVE DsiTypeOK'
  BY <1>1 DEF RegisterDevice, LookedUp
<1>2. ASSUME NEW i \in DsiIds, SemaInit(i) PROVE DsiTypeOK'
  BY <1>2 DEF SemaInit, LookedUp
<1>3. ASSUME NEW i \in DsiIds, UnregisterDevice(i) PROVE DsiTypeOK'
  BY <1>3 DEF UnregisterDevice, LookedUp
<1>4. ASSUME NEW t \in DsiTasks,
             \/ MipiDsiDevOpen(t) \/ MipiDsiDevRelease(t) \/ GetCntlr(t) \/ GetSema(t)
             \/ SemaDown(t) \/ SemaInterrupted(t) \/ SetCfg(t) \/ SemaUp(t)
      PROVE  DsiTypeOK'
  <2> DEFINE u == task[t]
  <2>1. u \in Tasks /\ u.sem \in DsiIds /\ u.cntlr \in DsiIds \cup {NoCntlr}
    BY DEF Tasks
  <2>2. CASE MipiDsiDevOpen(t)
    <3>1. [u EXCEPT !.pc = "open"] \in Tasks /\ [u EXCEPT !.pc = "open"].pc = "open"
      BY <2>1 DEF Tasks
    <3>2. task' = [task EXCEPT ![t] = [u EXCEPT !.pc = "open"]]
      BY <2>2 DEF MipiDsiDevOpen
    <3>3. task' \in [DsiTasks -> Tasks] /\ LookedUp'
      BY <2>2, <3>1, <3>2, TaskUpdated DEF MipiDsiDevOpen
    <3> QED
      BY <2>2, <3>3 DEF MipiDsiDevOpen
  <2>3. CASE MipiDsiDevRelease(t)
    <3>1. [u EXCEPT !.pc = "closed"] \in Tasks /\ [u EXCEPT !.pc = "closed"].pc = "closed"
      BY <2>1 DEF Tasks
    <3>2. task' = [task EXCEPT ![t] = [u EXCEPT !.pc = "closed"]]
      BY <2>3 DEF MipiDsiDevRelease
    <3>3. task' \in [DsiTasks -> Tasks] /\ LookedUp'
      BY <2>3, <3>1, <3>2, TaskUpdated DEF MipiDsiDevRelease
    <3> QED
      BY <2>3, <3>3 DEF MipiDsiDevRelease
  <2>4. CASE GetCntlr(t)
    <3> DEFINE r == [u EXCEPT !.pc = "lookup", !.cntlr = cntlr[curId]]
    <3>1. cntlr[curId] \in DsiIds
      BY <2>4 DEF GetCntlr
    <3>2. r \in Tasks /\ r.cntlr \in DsiIds /\ r.pc = "lookup"
      BY <2>1, <3>1 DEF Tasks
    <3>3. task' = [task EXCEPT ![t] = r]
      BY <2>4 DEF GetCntlr
    <3> HIDE DEF r
    <3>4. task' \in [DsiTasks -> Tasks] /\ LookedUp'
      BY <2>4, <3>2, <3>3, TaskUpdated DEF GetCntlr
    <3> QED
      BY <2>4, <3>4 DEF GetCntlr
  <2>5. CASE GetSema(t)
    <3> DEFINE r == [u EXCEPT !.pc = "down", !.sem = curId]
    <3>1. u.cntlr \in DsiIds
      BY <2>5 DEF GetSema, LookedUp
    <3>2. r \in Tasks /\ r.cntlr \in DsiIds /\ r.pc = "down"
      BY <2>1, <3>1 DEF Tasks
    <3>3. task' = [task EXCEPT ![t] = r]
      BY <2>5 DEF GetSema
    <3> HIDE DEF r
    <3>4. task' \in [DsiTasks -> Tasks] /\ LookedUp'
      BY <2>5, <3>2, <3>3, TaskUpdated DEF GetSema
    <3> QED
      BY <2>5, <3>4 DEF GetSema
  <2>6. CASE SemaDown(t) \/ SemaInterrupted(t)
    <3> DEFINE r == [u EXCEPT !.pc = "inside"]
    <3>1. u.cntlr \in DsiIds
      BY <2>6 DEF SemaDown, SemaInterrupted, LookedUp
    <3>2. r \in Tasks /\ r.cntlr \in DsiIds /\ r.sem = u.sem
      BY <2>1, <3>1 DEF Tasks
    <3>3. task' = [task EXCEPT ![t] = r]
      BY <2>6 DEF SemaDown, SemaInterrupted
    <3> HIDE DEF r
    <3>4. /\ sem' \in [DsiIds -> Nat \cup {NoCntlr}] /\ sem'[u.sem] \in Nat
          /\ \A i \in DsiIds : sem[i] \in Nat => sem'[i] \in Nat
      <4>1. CASE SemaDown(t)
        <5>1. sem[u.sem] - 1 \in Nat
          BY <4>1 DEF SemaDown
        <5> QED
          BY <2>1, <4>1, <5>1 DEF SemaDown
      <4>2. CASE SemaInterrupted(t)
        BY <2>1, <4>2 DEF SemaInterrupted
      <4> QED
        BY <2>6, <4>1, <4>2
    <3>5. task' \in [DsiTasks -> Tasks] /\ LookedUp'
      BY <3>2, <3>3, <3>4, TaskUpdated
    <3> QED
      BY <2>1, <2>6, <3>4, <3>5 DEF SemaDown, SemaInterrupted
  <2>7. CASE SetCfg(t)
    <3>1. u.cntlr \in DsiIds
      BY <2>7 DEF SetCfg, LookedUp
    <3> QED
      BY <2>7, <3>1 DEF SetCfg, LookedUp
  <2>8. CASE SemaUp(t)
    <3> DEFINE r == [Closed EXCEPT !.pc = "open"]
    <3>1. r \in Tasks /\ r.pc = "open"
      BY DEF Tasks, Closed
    <3>2. task' = [task EXCEPT ![t] = r]
      BY <2>8 DEF SemaUp
    <3> HIDE DEF r
    <3>3. sem[u.sem] + 1 \in Nat
      BY <2>1, <2>8 DEF SemaUp, LookedUp
    <3>4. /\ sem' \in [DsiIds -> Nat \cup {NoCntlr}]
          /\ \A i \in DsiIds : sem[i] \in Nat => sem'[i] \in Nat
      BY <2>1, <2>8, <3>3 DEF SemaUp
    <3>5. task' \in [DsiTasks -> Tasks] /\ LookedUp'
      BY <3>1, <3>2, <3>4, TaskUpdated
    <3> QED
      BY <2>8, <3>4, <3>5 DEF SemaUp
  <2> QED
    BY <1>4, <2>2, <2>3, <2>4, <2>5, <2>6, <2>7, <2>8
<1>5. CASE UNCHANGED dsiVars
  BY <1>5 DEF dsiVars, LookedUp
<1> QED
  BY <1>1, <1>2, <1>3, <1>4, <1>5 DEF DsiNext

(* A slot's unit goes from the semaphore to the thread that goes down and   *)
(* back, in every step of mipi_tx_dev.c that does not spoil the slot.       *)
LEMMA StepHeld ==
  ASSUME DsiIInv, [DsiNext]_dsiVars, NEW j \in DsiIds, j \notin spoiled'
  PROVE  Held(j)'
<1> USE DsiAssumption
<1>1. CASE UNCHANGED dsiVars
  BY <1>1 DEF dsiVars, DsiIInv, Held, Within
<1>2. ASSUME NEW i \in DsiIds, RegisterDevice(i) \/ UnregisterDevice(i) PROVE Held(j)'
  BY <1>2 DEF RegisterDevice, UnregisterDevice, DsiIInv, Held, Within
<1>3. ASSUME NEW i \in DsiIds, SemaInit(i) PROVE Held(j)'
  BY <1>3 DEF SemaInit, DsiIInv, DsiTypeOK, Held, Within
<1>4. ASSUME NEW t \in DsiTasks, MipiDsiDevOpen(t) \/ MipiDsiDevRelease(t) \/ GetCntlr(t) \/ GetSema(t)
      PROVE  Held(j)'
  <2>1. Held(j) /\ sem' = sem
    BY <1>4 DEF MipiDsiDevOpen, MipiDsiDevRelease, GetCntlr, GetSema, DsiIInv
  <2>2. task[t].pc # "inside" /\ task'[t].pc # "inside"
    <3>1. task[t] \in Tasks /\ task \in [DsiTasks -> Tasks]
      BY DEF DsiIInv, DsiTypeOK
    <3>2. task'[t].pc \in {"open", "closed", "lookup", "down"}
      <4>1. CASE MipiDsiDevOpen(t)
        BY <3>1, <4>1 DEF MipiDsiDevOpen, Tasks
      <4>2. CASE MipiDsiDevRelease(t)
        BY <3>1, <4>2 DEF MipiDsiDevRelease, Tasks
      <4>3. CASE GetCntlr(t)
        BY <3>1, <4>3 DEF GetCntlr, Tasks
      <4>4. CASE GetSema(t)
        BY <3>1, <4>4 DEF GetSema, Tasks
      <4> QED
        BY <1>4, <4>1, <4>2, <4>3, <4>4
    <3> QED
      BY <1>4, <3>2 DEF MipiDsiDevOpen, MipiDsiDevRelease, GetCntlr, GetSema
  <2>3. \A s \in DsiTasks \ {t} : task'[s] = task[s]
    BY <1>4 DEF MipiDsiDevOpen, MipiDsiDevRelease, GetCntlr, GetSema, DsiIInv, DsiTypeOK
  <2>4. Within(j)' = Within(j)
    BY <2>2, <2>3 DEF Within
  <2> QED
    BY <2>1, <2>4 DEF Held
<1>5. ASSUME NEW t \in DsiTasks, SetCfg(t) PROVE Held(j)'
  BY <1>5 DEF SetCfg, DsiIInv, Held, Within
<1>6. ASSUME NEW t \in DsiTasks, SemaDown(t) \/ SemaInterrupted(t) \/ SemaUp(t) PROVE Held(j)'
  <2> DEFINE i == task[t].sem
  <2>1. i \in DsiIds /\ task[t] \in Tasks
    BY DEF DsiIInv, DsiTypeOK, Tasks
  <2>2. Held(j)
    BY <1>6 DEF SemaDown, SemaInterrupted, SemaUp, DsiIInv
  <2>3. \A s \in DsiTasks \ {t} : task'[s] = task[s]
    BY <1>6 DEF SemaDown, SemaInterrupted, SemaUp, DsiIInv, DsiTypeOK
  <2>4. CASE SemaDown(t)
    <3>1. task'[t].pc = "inside" /\ task'[t].sem = i /\ task[t].pc = "down"
      BY <2>1, <2>4 DEF SemaDown, DsiIInv, DsiTypeOK, Tasks
    <3>2. Within(j)' = IF i = j THEN Within(j) \cup {t} ELSE Within(j)
      BY <2>3, <3>1 DEF Within
    <3>3. sem'[j] = IF i = j THEN sem[j] - 1 ELSE sem[j]
      BY <2>1, <2>4 DEF SemaDown, DsiIInv, DsiTypeOK
    <3>4. i = j => sem[j] \in Nat \ {0}
      BY <2>4 DEF SemaDown
    <3> QED
      BY <2>2, <3>2, <3>3, <3>4 DEF Held
  <2>5. CASE SemaInterrupted(t)
    <3>1. i # j
      BY <2>5 DEF SemaInterrupted
    <3>2. task'[t].sem = i
      BY <2>1, <2>5 DEF SemaInterrupted, DsiIInv, DsiTypeOK, Tasks
    <3>3. Within(j)' = Within(j)
      BY <2>3, <3>1, <3>2 DEF Within
    <3> QED
      BY <2>2, <2>5, <3>3 DEF SemaInterrupted, Held
  <2>6. CASE SemaUp(t)
    <3>1. task'[t].pc = "open" /\ task[t].pc = "inside"
      BY <2>6 DEF SemaUp, Closed, DsiIInv, DsiTypeOK
    <3>2. Within(j)' = Within(j) \ {t} /\ (t \in Within(j) <=> i = j)
      BY <2>3, <3>1 DEF Within
    <3>3. sem'[j] = IF i = j THEN sem[j] + 1 ELSE sem[j]
      BY <2>1, <2>6 DEF SemaUp, DsiIInv, DsiTypeOK
    <3> QED
      BY <2>2, <3>2, <3>3 DEF Held
  <2> QED
    BY <1>6, <2>4, <2>5, <2>6
<1> QED
  BY <1>1, <1>2, <1>3, <1>4, <1>5, <1>6 DEF DsiNext

(* The inductive invariant, for every step of mipi_tx_dev.c.                *)
LEMMA StepDsiIInv == DsiIInv /\ [DsiNext]_dsiVars => DsiIInv'
  BY StepTypeOK, StepHeld DEF DsiIInv

(* MipiDsiDevIoctl: two threads are never within one slot's semaphore that  *)
(* no signal and no sema_init has spoiled, whatever g_curId does.           *)
THEOREM CommandsExclude == DsiSpec => []MutualExclusion
<1>1. DsiIInv => MutualExclusion
  BY DEF DsiIInv, Held, MutualExclusion
<1> QED
  BY InitDsiIInv, StepDsiIInv, <1>1, PTL DEF DsiSpec

-----------------------------------------------------------------------------
(* GpioAdapter.                                                            *)

GpTypeOK ==
  /\ gpio \in [Chips -> {"none", "added", "leaving"}] /\ refs \in [Chips -> Nat]
  /\ irq \in [Chips -> {"free", "requested", "set"}] /\ depth \in [Chips -> Nat]
  /\ bridge \in [Chips -> {"idle", "entered", "holding", "without"}]
  /\ driver \in {"down", "up", "releasing"}

\* One reference for a SetIrq under way, one for a handler that found the controller.
Balanced(c) ==
  /\ refs[c] = (IF irq[c] = "requested" THEN 1 ELSE 0) + (IF bridge[c] = "holding" THEN 1 ELSE 0)
  /\ irq[c] = "requested" \/ bridge[c] = "holding" => gpio[c] # "none"
  /\ driver = "down" => gpio[c] = "none"

GpIInv == GpTypeOK /\ \A c \in Chips : Balanced(c)

-----------------------------------------------------------------------------
(* LinuxGpioBind: no controllers yet.                                       *)
LEMMA InitGpIInv == GpInit => GpIInv
  BY DEF GpInit, GpIInv, GpTypeOK, Balanced

(* A client's call on a line keeps the balance.                             *)
LEMMA ClientKeepsIInv ==
  ASSUME GpIInv, NEW c \in Chips,
         \/ SetIrq(c) \/ DisableOnSet(c) \/ LinuxGpioEnableIrq(c) \/ LinuxGpioDisableIrq(c)
         \/ LinuxGpioUnsetIrq(c)
  PROVE  GpIInv'
<1> USE GpAssumption
<1>1. CASE SetIrq(c)
  BY <1>1 DEF SetIrq, GpIInv, GpTypeOK, Balanced
<1>2. CASE DisableOnSet(c)
  <2>1. refs[c] - 1 \in Nat
    BY <1>2 DEF DisableOnSet, GpIInv, GpTypeOK, Balanced
  <2> QED
    BY <1>2, <2>1 DEF DisableOnSet, GpIInv, GpTypeOK, Balanced
<1>3. CASE LinuxGpioEnableIrq(c)
  <2>1. depth[c] - 1 \in Nat
    BY <1>3 DEF LinuxGpioEnableIrq, GpIInv, GpTypeOK
  <2> QED
    BY <1>3, <2>1 DEF LinuxGpioEnableIrq, GpIInv, GpTypeOK, Balanced
<1>4. CASE LinuxGpioDisableIrq(c)
  BY <1>4 DEF LinuxGpioDisableIrq, GpIInv, GpTypeOK, Balanced
<1>5. CASE LinuxGpioUnsetIrq(c)
  BY <1>5 DEF LinuxGpioUnsetIrq, GpIInv, GpTypeOK, Balanced
<1> QED
  BY <1>1, <1>2, <1>3, <1>4, <1>5

(* LinuxGpioIrqBridge keeps the balance.                                    *)
LEMMA BridgeKeepsIInv ==
  ASSUME GpIInv, NEW c \in Chips, Raised(c) \/ GetByGpio(c) \/ CallbackAndPut(c)
  PROVE  GpIInv'
<1>1. CASE Raised(c)
  BY <1>1 DEF Raised, GpIInv, GpTypeOK, Balanced
<1>2. CASE GetByGpio(c)
  <2>1. CASE gpio[c] = "added"
    BY <1>2, <2>1 DEF GetByGpio, GpIInv, GpTypeOK, Balanced
  <2>2. CASE gpio[c] # "added"
    BY <1>2, <2>2 DEF GetByGpio, GpIInv, GpTypeOK, Balanced
  <2> QED
    BY <2>1, <2>2
<1>3. CASE CallbackAndPut(c)
  <2>1. CASE bridge[c] = "holding"
    <3>1. refs[c] > 0 /\ refs[c] - 1 \in Nat
      BY <2>1 DEF GpIInv, GpTypeOK, Balanced
    <3> QED
      BY <1>3, <2>1, <3>1 DEF CallbackAndPut, GpIInv, GpTypeOK, Balanced
  <2>2. CASE bridge[c] = "without"
    BY <1>3, <2>2 DEF CallbackAndPut, GpIInv, GpTypeOK, Balanced
  <2> QED
    BY <1>3, <2>1, <2>2 DEF CallbackAndPut
<1> QED
  BY <1>1, <1>2, <1>3

(* LinuxGpioInit and LinuxGpioRelease keep the balance.                     *)
LEMMA DriverKeepsIInv ==
  ASSUME GpIInv,
         \/ LinuxGpioInit \/ StartRelease \/ Released
         \/ \E c \in Chips : LinuxGpioMatchRelease(c) \/ FreeCntlr(c)
  PROVE  GpIInv'
<1>1. CASE LinuxGpioInit
  BY <1>1 DEF LinuxGpioInit, GpIInv, GpTypeOK, Balanced
<1>2. CASE StartRelease \/ Released
  BY <1>2 DEF StartRelease, Released, GpIInv, GpTypeOK, Balanced
<1>3. ASSUME NEW c \in Chips, LinuxGpioMatchRelease(c) PROVE GpIInv'
  BY <1>3 DEF LinuxGpioMatchRelease, GpIInv, GpTypeOK, Balanced
<1>4. ASSUME NEW c \in Chips, FreeCntlr(c) PROVE GpIInv'
  BY <1>4 DEF FreeCntlr, GpIInv, GpTypeOK, Balanced
<1> QED
  BY <1>1, <1>2, <1>3, <1>4

(* The inductive invariant, for every step of gpio_adapter.c.               *)
LEMMA StepGpIInv == GpIInv /\ [GpNext]_gpVars => GpIInv'
<1> SUFFICES ASSUME GpIInv, [GpNext]_gpVars PROVE GpIInv'
  OBVIOUS
<1>1. CASE UNCHANGED gpVars
  BY <1>1 DEF gpVars, GpIInv, GpTypeOK, Balanced
<1> QED
  BY <1>1, ClientKeepsIInv, BridgeKeepsIInv, DriverKeepsIInv DEF GpNext

(* LinuxGpioIrqBridge calls a controller that is there, for any number of   *)
(* chips and however interrupts and the release interleave.                 *)
THEOREM HandlersHaveCntlr == GpSpec => []BridgeHasCntlr
<1>1. GpIInv => BridgeHasCntlr
  BY DEF GpIInv, Balanced, BridgeHasCntlr
<1> QED
  BY InitGpIInv, StepGpIInv, <1>1, PTL DEF GpSpec

-----------------------------------------------------------------------------
(* UartAdapter.                                                            *)

Termios == [baud : Nat, bits : 5 .. 8, crtscts : BOOLEAN, parenb : BOOLEAN,
            parodd : BOOLEAN, cstopb : BOOLEAN]

UartTypeOK ==
  /\ termios \in Termios /\ lost \in BOOLEAN /\ unsure \in BOOLEAN
  /\ asked \in [baud : Nat, attr : UartAttrs]
  /\ client \in [Clients -> {NoCopy} \cup [pc : {"baud"}, copy : Termios, ask : Bauds]
                                     \cup [pc : {"attr"}, copy : Termios, ask : Asks]]

\* No parity is kept as neither flag, which GetAttribute's test relies on.
LineSet ==
  /\ unsure \/ termios.baud = BaudRateToCflag(asked.baud)
  /\ OnTheLine(termios) = asked.attr /\ (termios.parodd => termios.parenb)

UartIInv == UartTypeOK /\ (lost \/ LineSet)

-----------------------------------------------------------------------------
(* BaudRateToCflag gives a rate for every number.                           *)
LEMMA WithBaudKeepsRest ==
  ASSUME NEW t \in Termios, NEW b \in Nat
  PROVE  /\ WithBaud(t, b) \in Termios /\ WithBaud(t, b).baud = BaudRateToCflag(b)
         /\ OnTheLine(WithBaud(t, b)) = OnTheLine(t)
         /\ WithBaud(t, b).parodd = t.parodd /\ WithBaud(t, b).parenb = t.parenb
<1>1. BaudRateToCflag(b) \in Nat
  BY DEF BaudRateToCflag
<1> QED
  BY <1>1 DEF WithBaud, Termios, OnTheLine

(* AttrToCflag puts on the line what it was asked for.                      *)
LEMMA WithAttrSetsLine ==
  ASSUME NEW t \in Termios, NEW a \in UartAttrs
  PROVE  /\ WithAttr(t, a) \in Termios /\ WithAttr(t, a).baud = t.baud
         /\ OnTheLine(WithAttr(t, a)) = a
         /\ WithAttr(t, a).parodd => WithAttr(t, a).parenb
<1> DEFINE w == WithAttr(t, a)
<1>1. /\ w.bits = a.bits /\ w.crtscts = a.flow /\ w.cstopb = (a.stop = 2) /\ w.baud = t.baud
      /\ w.parenb = (a.parity # "none") /\ w.parodd = (a.parity = "odd") /\ w \in Termios
  BY DEF WithAttr, Termios, UartAttrs
<1>2. OnTheLine(w).stop = a.stop /\ OnTheLine(w).parity = a.parity
  BY <1>1 DEF OnTheLine, UartAttrs
<1>3. OnTheLine(w) = a
  BY <1>1, <1>2 DEF OnTheLine, UartAttrs
<1> QED
  BY <1>1, <1>3

-----------------------------------------------------------------------------
(* The line starts as a tty is made.                                        *)
LEMMA InitUartIInv == UartInit => UartIInv
<1> SUFFICES ASSUME UartInit PROVE UartIInv
  OBVIOUS
<1>1. /\ termios = StdTermios /\ asked = StdSettings /\ lost = FALSE /\ unsure = FALSE
      /\ client = [c \in Clients |-> NoCopy]
  BY Zenon DEF UartInit
<1>2. StdTermios \in Termios
  <2>1. PICK n \in Nat, b \in 5 .. 8 : n = 9600 /\ b = 8
    OBVIOUS
  <2>2. StdTermios = [baud |-> n, bits |-> b, crtscts |-> FALSE, parenb |-> FALSE,
                      parodd |-> FALSE, cstopb |-> FALSE]
    BY <2>1 DEF StdTermios
  <2> QED
    BY <2>2 DEF Termios
<1>3. StdSettings \in [baud : Nat, attr : UartAttrs]
  <2>1. StdSettings.attr \in UartAttrs
    BY DEF StdSettings, UartAttrs
  <2> QED
    BY <2>1 DEF StdSettings
<1>4. UartTypeOK
  <2>1. lost \in BOOLEAN /\ unsure \in BOOLEAN
    BY <1>1, Zenon
  <2> QED
    BY <1>1, <1>2, <1>3, <2>1 DEF UartTypeOK
<1>5. StdTermios.baud = BaudRateToCflag(StdSettings.baud)
  BY DEF StdTermios, StdSettings, BaudRateToCflag
<1>6. OnTheLine(StdTermios) = StdSettings.attr /\ ~StdTermios.parodd
  BY DEF StdTermios, StdSettings, OnTheLine
<1> QED
  BY <1>1, <1>4, <1>5, <1>6 DEF UartIInv, LineSet

(* Reading and writing the termios keep the line as it was asked to be.     *)
LEMMA StepUartIInv == UartIInv /\ [UartNext]_uartVars => UartIInv'
<1> SUFFICES ASSUME UartIInv, [UartNext]_uartVars PROVE UartIInv'
  OBVIOUS
<1> USE UartAssumption
<1>1. CASE UNCHANGED uartVars
  BY <1>1 DEF uartVars, UartIInv, UartTypeOK, LineSet
<1>2. ASSUME NEW c \in Clients, Tcgets(c) PROVE UartIInv'
  <2>1. UartTypeOK'
    BY <1>2 DEF Tcgets, UartIInv, UartTypeOK
  <2> QED
    BY <1>2, <2>1 DEF Tcgets, UartIInv, LineSet
<1>3. ASSUME NEW c \in Clients, TcsetsBaud(c) PROVE UartIInv'
  <2>1. client[c].copy \in Termios /\ client[c].ask \in Bauds
    BY <1>3 DEF TcsetsBaud, UartIInv, UartTypeOK, NoCopy
  <2>2. PICK set \in BOOLEAN, told \in BOOLEAN :
          /\ termios' = IF set THEN WithBaud(client[c].copy, client[c].ask) ELSE termios
          /\ asked' = IF told THEN [asked EXCEPT !.baud = client[c].ask] ELSE asked
          /\ lost' = (lost \/ (set /\ client[c].copy # termios))
          /\ unsure' = (set # told \/ (unsure /\ ~set))
    BY <1>3, Zenon DEF TcsetsBaud
  <2>3. client' = [client EXCEPT ![c] = NoCopy] /\ lost' \in BOOLEAN /\ unsure' \in BOOLEAN
    BY <1>3, <2>2 DEF TcsetsBaud, UartIInv, UartTypeOK
  <2>4. UartTypeOK'
    BY <2>1, <2>2, <2>3, WithBaudKeepsRest DEF UartIInv, UartTypeOK
  <2>5. /\ set => OnTheLine(WithBaud(client[c].copy, client[c].ask)) = OnTheLine(client[c].copy)
        /\ asked'.attr = asked.attr /\ (told => asked'.baud = client[c].ask)
        /\ (~told => asked'.baud = asked.baud)
    BY <2>1, <2>2, WithBaudKeepsRest DEF UartIInv, UartTypeOK
  <2>6. ASSUME ~lost' PROVE LineSet'
    <3>1. ~lost /\ (set => client[c].copy = termios) /\ LineSet
      BY <2>2, <2>6 DEF UartIInv
    <3>2. CASE set
      <4>1. OnTheLine(termios') = asked'.attr /\ (termios'.parodd => termios'.parenb)
        BY <2>1, <2>2, <2>5, <3>1, <3>2, WithBaudKeepsRest DEF LineSet
      <4>2. termios'.baud = BaudRateToCflag(client[c].ask) /\ (unsure' \/ told)
        BY <2>1, <2>2, <3>2, WithBaudKeepsRest
      <4> QED
        BY <2>5, <4>1, <4>2 DEF LineSet
    <3>3. CASE ~set
      <4>1. termios' = termios /\ (unsure' \/ (~told /\ ~unsure))
        BY <2>2, <3>3
      <4> QED
        BY <2>5, <3>1, <4>1 DEF LineSet
    <3> QED
      BY <3>2, <3>3
  <2> QED
    BY <2>3, <2>4, <2>6 DEF UartIInv
<1>4. ASSUME NEW c \in Clients, TcsetsAttr(c) PROVE UartIInv'
  <2>1. client[c].copy \in Termios /\ client[c].ask \in Asks
    BY <1>4 DEF TcsetsAttr, UartIInv, UartTypeOK, NoCopy
  <2>2. UartTypeOK'
    BY <1>4, <2>1, WithAttrSetsLine DEF TcsetsAttr, UartIInv, UartTypeOK
  <2>3. CASE client[c].copy = termios /\ ~lost
    BY <1>4, <2>1, <2>2, <2>3, WithAttrSetsLine DEF TcsetsAttr, UartIInv, UartTypeOK, LineSet
  <2>4. CASE client[c].copy # termios \/ lost
    BY <1>4, <2>2, <2>4 DEF TcsetsAttr, UartIInv
  <2> QED
    BY <2>3, <2>4
<1>5. ASSUME NEW c \in Clients, TcsetsFails(c) PROVE UartIInv'
  BY <1>5 DEF TcsetsFails, UartIInv, UartTypeOK, LineSet
<1> QED
  BY <1>1, <1>2, <1>3, <1>4, <1>5 DEF UartNext

(* UartAdapterSetBaud and UartAdapterSetAttribute leave the line as last    *)
(* asked for with success, whatever threads call them, with any attributes  *)
(* and rates, except where a copy out of date was written back and, for the *)
(* rate, where SetBaud told the wrong result.                               *)
THEOREM SettersObeyed == UartSpec => []LineIsAsked
<1>1. ASSUME UartIInv, ~lost PROVE LineIsAsked
  <2>1. /\ OnTheLine(termios) = asked.attr
        /\ unsure \/ termios.baud = BaudRateToCflag(asked.baud)
    BY <1>1 DEF UartIInv, LineSet
  <2>2. GetAttribute(termios).stop = OnTheLine(termios).stop
    BY DEF GetAttribute, OnTheLine
  <2>3. (GetAttribute(termios).parity = "none") = (OnTheLine(termios).parity = "none")
    BY <1>1 DEF UartIInv, LineSet, UartTypeOK, Termios, GetAttribute, OnTheLine
  <2> QED
    BY <2>1, <2>2, <2>3 DEF LineIsAsked
<1>2. UartIInv => LineIsAsked
  BY <1>1 DEF LineIsAsked
<1> QED
  BY InitUartIInv, StepUartIInv, <1>2, PTL DEF UartSpec

-----------------------------------------------------------------------------
(* RegulatorAdapter.                                                       *)

RgSupply == [uses : Nat, on : BOOLEAN, always : BOOLEAN]

RgTypeOK ==
  /\ parsed \in 0..NumRegs /\ status \in [RgNodes -> BOOLEAN] /\ stolen \in BOOLEAN
  /\ reg \in [RgNodes -> {"none", "closed", "open", "enabled", "disabled"}]
  /\ enables \in [RgNodes -> 0..MaxUses] /\ supply \in RgSupply

\* A node that is not open holds no use.
NothingKept ==
  \A n \in RgNodes : /\ n > parsed => reg[n] = "none"
                     /\ reg[n] \in {"none", "closed"} => enables[n] = 0

\* The uses of all consumers, each with its number.
RgUses == {u \in RgNodes \X (1..MaxUses) : u[2] <= enables[u[1]]}

\* The supply counts at least the uses of its consumers, and a used one is on.
UsesCounted == Cardinality(RgUses) <= supply.uses /\ (supply.uses > 0 => supply.on)

StatusTold == \A n \in RgNodes : enables[n] > 0 /\ reg[n] = "open" => status[n]

RgIInv ==
  /\ RgTypeOK
  /\ NothingKept
  /\ stolen \/ (UsesCounted /\ StatusTold)

(* The uses are finitely many, and none only when no node has enabled.     *)
LEMMA UsesFinite ==
  ASSUME RgTypeOK
  PROVE  /\ IsFiniteSet(RgUses) /\ Cardinality(RgUses) \in Nat
         /\ \A n \in RgNodes : enables[n] > 0 => Cardinality(RgUses) > 0
<1>1. IsFiniteSet(RgNodes) /\ IsFiniteSet(1..MaxUses)
  BY FS_Interval, RgAssumption DEF RgNodes
<1>2. IsFiniteSet(RgNodes \X (1..MaxUses))
  BY <1>1, FS_Product
<1>3. IsFiniteSet(RgUses) /\ Cardinality(RgUses) \in Nat
  BY <1>2, FS_Subset, FS_CardinalityType DEF RgUses
<1>4. ASSUME NEW n \in RgNodes, enables[n] > 0 PROVE <<n, 1>> \in RgUses
  BY <1>4, RgAssumption DEF RgUses, RgTypeOK
<1>5. RgUses # {} => Cardinality(RgUses) # 0
  BY <1>3, FS_EmptySet
<1>6. ASSUME NEW n \in RgNodes, enables[n] > 0 PROVE Cardinality(RgUses) > 0
  <2>1. RgUses # {}
    BY <1>4, <1>6
  <2> QED
    BY <1>3, <1>5, <2>1
<1> QED
  BY <1>3, <1>6

(* What the kernel's count and switch become.                              *)
LEMMA SupplyCounts ==
  ASSUME NEW s \in RgSupply
  PROVE  /\ Used(s) \in RgSupply /\ Used(s).uses = s.uses + 1
         /\ (s.uses > 0 => s.on) => Used(s).on
         /\ s.uses > 0 => /\ Unused(s) \in RgSupply /\ Unused(s).uses >= s.uses - 1
                          /\ s.on /\ Unused(s).uses > 0 => Unused(s).on
<1>1. PICK x \in Nat : x = s.uses + 1
  BY DEF RgSupply
<1>2. PICK y \in BOOLEAN : y = (s.on \/ s.uses = 0)
  OBVIOUS
<1>3. Used(s) = [s EXCEPT !.uses = x, !.on = y]
  BY <1>1, <1>2 DEF Used
<1>4. Used(s) \in RgSupply /\ Used(s).uses = x /\ Used(s).on = y
  <2> HIDE <1>1, <1>2
  <2> QED
    BY <1>3 DEF RgSupply
<1>6. (s.uses > 0 => s.on) => y
  <2>1. CASE s.uses = 0
    BY <1>2, <2>1
  <2>2. CASE s.uses # 0
    <3>1. s.uses > 0
      BY <2>2 DEF RgSupply
    <3> QED
      BY <1>2, <3>1
  <2> QED
    BY <2>1, <2>2
<1>5. ASSUME s.uses > 0
      PROVE  /\ Unused(s) \in RgSupply /\ Unused(s).uses >= s.uses - 1
             /\ s.on /\ Unused(s).uses > 0 => Unused(s).on
  <2>1. CASE s.uses > 1
    <3>1. PICK z \in Nat : z = s.uses - 1
      BY <2>1 DEF RgSupply
    <3>2. Unused(s) = [s EXCEPT !.uses = z]
      BY <2>1, <3>1 DEF Unused
    <3>3. Unused(s) \in RgSupply /\ Unused(s).uses = z /\ Unused(s).on = s.on
      BY <3>2 DEF RgSupply
    <3> QED
      BY <3>1, <3>3
  <2>2. CASE ~(s.uses > 1) /\ s.always
    BY <2>2 DEF Unused, RgSupply
  <2>3. CASE ~(s.uses > 1) /\ ~s.always
    <3>1. Unused(s) = [s EXCEPT !.uses = 0, !.on = FALSE]
      BY <2>3 DEF Unused
    <3>2. PICK z \in Nat, o \in BOOLEAN : z = 0 /\ o = FALSE
      OBVIOUS
    <3>3. Unused(s) = [s EXCEPT !.uses = z, !.on = o]
      BY <3>1, <3>2
    <3>4. Unused(s) \in RgSupply /\ Unused(s).uses = z
      BY <3>3 DEF RgSupply
    <3>5. s.uses = 1
      BY <1>5, <2>3 DEF RgSupply
    <3> QED
      BY <3>2, <3>4, <3>5
  <2> QED
    BY <2>1, <2>2, <2>3
<1> QED
  BY <1>1, <1>4, <1>5, <1>6

(* After the nodes are parsed none has a use.                              *)
LEMMA InitRgIInv == RgInit => RgIInv
<1>1. SUFFICES ASSUME RgInit PROVE RgIInv
  OBVIOUS
<1>2. PICK u \in Nat, o \in BOOLEAN : supply = [uses |-> u, on |-> o, always |-> o] /\ (u > 0 => o)
  <2>1. CASE supply = [uses |-> 1, on |-> TRUE, always |-> TRUE]
    <3>1. PICK u \in Nat, o \in BOOLEAN : u = 1 /\ o = TRUE
      OBVIOUS
    <3>2. supply = [uses |-> u, on |-> o, always |-> o]
      BY <2>1, <3>1
    <3> QED
      BY <3>1, <3>2
  <2>2. CASE supply = [uses |-> 0, on |-> FALSE, always |-> FALSE]
    <3>1. PICK u \in Nat, o \in BOOLEAN : u = 0 /\ o = FALSE
      OBVIOUS
    <3>2. supply = [uses |-> u, on |-> o, always |-> o]
      BY <2>2, <3>1
    <3> QED
      BY <3>1, <3>2
  <2> QED
    BY <1>1, <2>1, <2>2 DEF RgInit
<1>3. supply \in RgSupply /\ (supply.uses > 0 => supply.on)
  BY <1>2 DEF RgSupply
<1>4. RgTypeOK
  <2>1. 0 \in 0..NumRegs /\ 0 \in 0..MaxUses
    BY RgAssumption
  <2> QED
    BY <1>1, <1>3, <2>1 DEF RgInit, RgTypeOK
<1>5. RgUses = {}
  BY <1>1 DEF RgInit, RgUses
<1>6. Cardinality(RgUses) <= supply.uses
  BY <1>3, <1>5, FS_EmptySet DEF RgSupply
<1> QED
  BY <1>1, <1>3, <1>4, <1>6 DEF RgInit, RgIInv, NothingKept, UsesCounted, StatusTold

(* Giving back a use the node has takes at most one from the count.        *)
LEMMA KernelDisables ==
  ASSUME RgIInv, NEW n \in RgNodes, KernelDisable(n)
  PROVE  /\ supply' \in RgSupply /\ stolen' \in BOOLEAN /\ (stolen => stolen')
         /\ ~stolen' => /\ supply.uses > 0 <=> enables[n] > 0
                        /\ supply'.uses >= supply.uses - (IF enables[n] > 0 THEN 1 ELSE 0)
                        /\ supply'.uses > 0 => supply'.on
<1>1. supply \in RgSupply /\ stolen \in BOOLEAN /\ enables[n] \in Nat
  BY DEF RgIInv, RgTypeOK
<1>2. /\ stolen' \in BOOLEAN /\ (stolen => stolen')
      /\ ~stolen' => ~stolen /\ ~(enables[n] = 0 /\ supply.uses > 0)
  BY <1>1 DEF KernelDisable
<1>3. CASE supply.uses = 0
  <2>1. supply' = supply
    BY <1>3 DEF KernelDisable
  <2>2. ~stolen' => enables[n] = 0
    BY <1>1, <1>2, <1>3, UsesFinite DEF RgIInv, UsesCounted
  <2> QED
    BY <1>1, <1>2, <1>3, <2>1, <2>2 DEF RgSupply
<1>4. CASE supply.uses # 0
  <2>1. supply' = Unused(supply) /\ supply.uses > 0
    BY <1>1, <1>4 DEF KernelDisable, RgSupply
  <2>2. /\ Unused(supply) \in RgSupply /\ Unused(supply).uses >= supply.uses - 1
        /\ supply.on /\ Unused(supply).uses > 0 => Unused(supply).on
    BY <1>1, <2>1, SupplyCounts
  <2>3. ~stolen' => enables[n] > 0 /\ supply.on
    BY <1>1, <1>2, <2>1 DEF RgIInv, UsesCounted
  <2> QED
    BY <1>1, <1>2, <2>1, <2>2, <2>3
<1> QED
  BY <1>3, <1>4

(* Without new uses the count of uses does not grow, and it falls with the *)
(* last use of a node.                                                     *)
LEMMA UsesFall ==
  ASSUME RgTypeOK, NEW n \in RgNodes, NEW e \in 0..MaxUses, e <= enables[n],
         enables' = [enables EXCEPT ![n] = e]
  PROVE  /\ Cardinality(RgUses') \in Nat
         /\ Cardinality(RgUses') <= Cardinality(RgUses)
         /\ e < enables[n] => Cardinality(RgUses') <= Cardinality(RgUses) - 1
<1>1. IsFiniteSet(RgUses) /\ Cardinality(RgUses) \in Nat /\ enables[n] \in 0..MaxUses
  BY UsesFinite DEF RgTypeOK
<1>2. /\ enables'[n] = e
      /\ \A m \in RgNodes \ {n} : enables'[m] = enables[m]
  BY DEF RgTypeOK
<1>3. \A m \in RgNodes : enables[m] \in Nat /\ enables'[m] \in Nat /\ enables'[m] <= enables[m]
  BY <1>1, <1>2 DEF RgTypeOK
<1>4. RgUses' \subseteq RgUses
  BY <1>3 DEF RgUses
<1>5. /\ IsFiniteSet(RgUses') /\ Cardinality(RgUses') \in Nat
      /\ Cardinality(RgUses') <= Cardinality(RgUses)
      /\ Cardinality(RgUses') = Cardinality(RgUses) => RgUses' = RgUses
  BY <1>1, <1>4, FS_Subset, FS_CardinalityType
<1>6. ASSUME e < enables[n] PROVE RgUses' # RgUses
  <2>1. <<n, enables[n]>> \in RgUses
    BY <1>1, <1>6 DEF RgUses
  <2>2. <<n, enables[n]>> \notin RgUses'
    BY <1>1, <1>2, <1>6 DEF RgUses
  <2> QED
    BY <2>1, <2>2
<1> QED
  BY <1>1, <1>5, <1>6

(* One more enable is one more use.                                        *)
LEMMA UsesRise ==
  ASSUME RgTypeOK, NEW n \in RgNodes, enables[n] < MaxUses,
         enables' = [enables EXCEPT ![n] = enables[n] + 1]
  PROVE  Cardinality(RgUses') \in Nat /\ Cardinality(RgUses') <= Cardinality(RgUses) + 1
<1>1. IsFiniteSet(RgUses) /\ Cardinality(RgUses) \in Nat /\ enables[n] \in 0..MaxUses
  BY UsesFinite DEF RgTypeOK
<1>2. PICK e \in Nat : e = enables[n] + 1
  BY <1>1
<1>3. /\ enables'[n] = e
      /\ \A m \in RgNodes \ {n} : enables'[m] = enables[m]
  BY <1>2 DEF RgTypeOK
<1>4. RgUses' \subseteq RgUses \cup {<<n, e>>}
  <2>1. ASSUME NEW m \in RgNodes, NEW k \in 1..MaxUses, k <= enables'[m]
        PROVE  k <= enables[m] \/ (m = n /\ k = e)
    BY <1>1, <1>2, <1>3, <2>1 DEF RgTypeOK
  <2> QED
    BY <2>1 DEF RgUses
<1>5. /\ IsFiniteSet(RgUses \cup {<<n, e>>})
      /\ Cardinality(RgUses \cup {<<n, e>>}) \in Nat
      /\ Cardinality(RgUses \cup {<<n, e>>}) <= Cardinality(RgUses) + 1
  <2>1. /\ IsFiniteSet(RgUses \cup {<<n, e>>})
        /\ Cardinality(RgUses \cup {<<n, e>>}) =
             IF <<n, e>> \in RgUses THEN Cardinality(RgUses) ELSE Cardinality(RgUses) + 1
    BY <1>1, FS_AddElement
  <2> QED
    BY <1>1, <2>1
<1>6. Cardinality(RgUses') \in Nat /\ Cardinality(RgUses') <= Cardinality(RgUses \cup {<<n, e>>})
  BY <1>4, <1>5, FS_Subset, FS_CardinalityType
<1> QED
  BY <1>1, <1>5, <1>6

(* No step of a node touches a use of another, but by taking it away.      *)
LEMMA StepRgIInv == RgIInv /\ [RgNext]_rgVars => RgIInv'
<1>1. SUFFICES ASSUME RgIInv, [RgNext]_rgVars PROVE RgIInv'
  OBVIOUS
<1> USE <1>1
<1>2. /\ RgTypeOK /\ NothingKept
      /\ ~stolen => UsesCounted /\ StatusTold
      /\ IsFiniteSet(RgUses) /\ Cardinality(RgUses) \in Nat
      /\ \A n \in RgNodes : enables[n] > 0 => Cardinality(RgUses) > 0
      /\ supply \in RgSupply /\ supply.uses \in Nat
  BY UsesFinite DEF RgIInv, RgTypeOK, RgSupply
<1>3. ASSUME UNCHANGED <<enables, supply>> PROVE UsesCounted' <=> UsesCounted
  BY <1>3 DEF UsesCounted, RgUses
<1>4. CASE UNCHANGED rgVars
  BY <1>2, <1>4 DEF rgVars, RgIInv, RgTypeOK, NothingKept, UsesCounted, RgUses, StatusTold
<1>5. CASE LinuxRegulatorParseAndInit
  <2>1. PICK p \in RgNodes : p = parsed + 1 /\ parsed' = p
    BY <1>2, <1>5, RgAssumption DEF LinuxRegulatorParseAndInit, RgTypeOK, RgNodes
  <2>2. /\ reg' = [reg EXCEPT ![p] = "closed"] /\ status' = [status EXCEPT ![p] = FALSE]
        /\ UNCHANGED <<enables, supply, stolen>>
    BY <1>5, <2>1 DEF LinuxRegulatorParseAndInit
  <2>3. p > parsed /\ p \in 0..NumRegs /\ \A n \in RgNodes : n > p => n > parsed
    BY <1>2, <2>1, RgAssumption DEF RgTypeOK, RgNodes
  <2>4. enables[p] = 0
    BY <1>2, <2>3 DEF NothingKept
  <2>5. RgTypeOK'
    BY <1>2, <2>1, <2>2, <2>3 DEF RgTypeOK
  <2>6. NothingKept'
    BY <1>2, <2>1, <2>2, <2>3, <2>4 DEF RgTypeOK, NothingKept, RgNodes
  <2>7. StatusTold => StatusTold'
    BY <1>2, <2>2, <2>4 DEF RgTypeOK, StatusTold
  <2> QED
    BY <1>2, <1>3, <2>2, <2>5, <2>6, <2>7 DEF RgIInv
<1>6. ASSUME NEW n \in RgNodes, LinuxRegulatorOpen(n) PROVE RgIInv'
  <2>1. enables[n] = 0
    BY <1>2, <1>6 DEF NothingKept, LinuxRegulatorOpen
  <2>2. n > parsed => FALSE
    BY <1>2, <1>6 DEF NothingKept, LinuxRegulatorOpen
  <2>3. RgTypeOK' /\ NothingKept'
    BY <1>2, <1>6, <2>1, <2>2 DEF RgTypeOK, NothingKept, LinuxRegulatorOpen
  <2>4. StatusTold => StatusTold'
    BY <1>2, <1>6, <2>1 DEF RgTypeOK, StatusTold, LinuxRegulatorOpen
  <2> QED
    BY <1>2, <1>3, <1>6, <2>3, <2>4 DEF RgIInv, LinuxRegulatorOpen
<1>7. ASSUME NEW n \in RgNodes, reg[n] = "open", PutConsumer(n)
      PROVE  /\ enables' = [enables EXCEPT ![n] = 0]
             /\ supply' \in RgSupply /\ stolen' \in BOOLEAN
             /\ ~stolen' => ~stolen /\ UsesCounted'
  <2>1. enables' = [enables EXCEPT ![n] = 0] /\ 0 \in 0..MaxUses /\ enables[n] \in 0..MaxUses
    BY <1>2, <1>7, RgAssumption DEF PutConsumer, RgTypeOK
  <2>2. /\ Cardinality(RgUses') \in Nat
        /\ Cardinality(RgUses') <= Cardinality(RgUses)
        /\ 0 < enables[n] => Cardinality(RgUses') <= Cardinality(RgUses) - 1
    <3>1. 0 <= enables[n]
      BY <2>1, RgAssumption
    <3> QED
      BY <1>2, <2>1, <3>1, UsesFall
  <2>3. CASE KernelDisable(n)
    <3>1. /\ supply' \in RgSupply /\ stolen' \in BOOLEAN /\ (stolen => stolen')
          /\ ~stolen' => /\ supply.uses > 0 <=> enables[n] > 0
                         /\ supply'.uses >= supply.uses - (IF enables[n] > 0 THEN 1 ELSE 0)
                         /\ supply'.uses > 0 => supply'.on
      BY <2>3, KernelDisables
    <3>2. supply'.uses \in Nat
      BY <3>1 DEF RgSupply
    <3>3. ASSUME ~stolen' PROVE Cardinality(RgUses') <= supply'.uses
      <4>1. Cardinality(RgUses) <= supply.uses
        BY <1>2, <3>1, <3>3 DEF UsesCounted
      <4> QED
        BY <1>2, <2>1, <2>2, <3>1, <3>2, <3>3, <4>1
    <3> QED
      BY <2>1, <3>1, <3>3 DEF UsesCounted
  <2>4. CASE UNCHANGED <<supply, stolen>>
    <3>1. UsesCounted => UsesCounted'
      BY <1>2, <2>2, <2>4 DEF UsesCounted
    <3> QED
      BY <1>2, <2>1, <2>4, <3>1 DEF RgTypeOK
  <2> QED
    BY <1>7, <2>3, <2>4 DEF PutConsumer
<1>8. ASSUME NEW n \in RgNodes, LinuxRegulatorClose(n) PROVE RgIInv'
  <2>1. /\ reg[n] = "open" /\ reg' = [reg EXCEPT ![n] = "closed"] /\ PutConsumer(n)
        /\ UNCHANGED <<parsed, status>>
    BY <1>8 DEF LinuxRegulatorClose
  <2>2. /\ enables' = [enables EXCEPT ![n] = 0]
        /\ supply' \in RgSupply /\ stolen' \in BOOLEAN
        /\ ~stolen' => ~stolen /\ UsesCounted'
    BY <1>7, <2>1
  <2>3. RgTypeOK'
    BY <1>2, <2>1, <2>2, RgAssumption DEF RgTypeOK
  <2>4. NothingKept'
    BY <1>2, <2>1, <2>2 DEF RgTypeOK, NothingKept
  <2>5. StatusTold => StatusTold'
    BY <1>2, <2>1, <2>2 DEF RgTypeOK, StatusTold
  <2> QED
    BY <1>2, <2>2, <2>3, <2>4, <2>5 DEF RgIInv
<1>9. ASSUME NEW n \in RgNodes, LinuxRegulatorRemove(n) PROVE RgIInv'
  <2>1. /\ reg[n] \in {"closed", "open"} /\ reg' = [reg EXCEPT ![n] = "none"]
        /\ parsed' = IF \A m \in RgNodes \ {n} : reg[m] = "none" THEN 0 ELSE NumRegs
        /\ UNCHANGED status
    BY <1>9 DEF LinuxRegulatorRemove
  <2>2. /\ enables' = [enables EXCEPT ![n] = 0]
        /\ supply' \in RgSupply /\ stolen' \in BOOLEAN
        /\ ~stolen' => ~stolen /\ UsesCounted'
    <3>1. CASE reg[n] = "open"
      BY <1>7, <1>9, <3>1 DEF LinuxRegulatorRemove
    <3>2. CASE reg[n] = "closed"
      <4>1. UNCHANGED <<enables, supply, stolen>> /\ enables[n] = 0
        BY <1>2, <1>9, <3>2 DEF LinuxRegulatorRemove, NothingKept
      <4>2. enables' = [enables EXCEPT ![n] = 0]
        BY <1>2, <4>1 DEF RgTypeOK
      <4> QED
        BY <1>2, <1>3, <4>1, <4>2 DEF RgTypeOK
    <3> QED
      BY <2>1, <3>1, <3>2
  <2>3. parsed' \in 0..NumRegs
    BY <2>1, RgAssumption
  <2>4. RgTypeOK'
    BY <1>2, <2>1, <2>2, <2>3, RgAssumption DEF RgTypeOK
  <2>5. NothingKept'
    <3>1. ASSUME NEW m \in RgNodes, m > parsed' PROVE reg'[m] = "none"
      BY <1>2, <2>1, <3>1, RgAssumption DEF RgTypeOK, RgNodes
    <3>2. ASSUME NEW m \in RgNodes, reg'[m] \in {"none", "closed"} PROVE enables'[m] = 0
      BY <1>2, <2>1, <2>2, <3>2 DEF RgTypeOK, NothingKept
    <3> QED
      BY <3>1, <3>2 DEF NothingKept
  <2>6. StatusTold => StatusTold'
    BY <1>2, <2>1, <2>2 DEF RgTypeOK, StatusTold
  <2> QED
    BY <1>2, <2>2, <2>4, <2>5, <2>6 DEF RgIInv
<1>10. ASSUME NEW n \in RgNodes, LinuxRegulatorEnable(n) PROVE RgIInv'
  <2>1. /\ reg[n] = "open" /\ reg' = [reg EXCEPT ![n] = "enabled"] /\ enables[n] < MaxUses
        /\ enables' = [enables EXCEPT ![n] = enables[n] + 1] /\ supply' = Used(supply)
        /\ UNCHANGED <<parsed, status, stolen>>
    BY <1>10 DEF LinuxRegulatorEnable
  <2>2. /\ supply' \in RgSupply /\ supply'.uses = supply.uses + 1
        /\ (supply.uses > 0 => supply.on) => supply'.on
    BY <1>2, <2>1, SupplyCounts
  <2>3. PICK e \in 0..MaxUses : e = enables[n] + 1
    BY <1>2, <2>1, RgAssumption DEF RgTypeOK
  <2>4. RgTypeOK'
    BY <1>2, <2>1, <2>2, <2>3 DEF RgTypeOK
  <2>5. NothingKept'
    BY <1>2, <2>1, <2>3 DEF RgTypeOK, NothingKept
  <2>6. StatusTold => StatusTold'
    BY <1>2, <2>1, <2>3 DEF RgTypeOK, StatusTold
  <2>7. UsesCounted => UsesCounted'
    <3>1. Cardinality(RgUses') \in Nat /\ Cardinality(RgUses') <= Cardinality(RgUses) + 1
      BY <1>2, <2>1, UsesRise
    <3> QED
      BY <1>2, <2>2, <3>1 DEF UsesCounted
  <2> QED
    BY <1>2, <2>1, <2>4, <2>5, <2>6, <2>7 DEF RgIInv
<1>11. ASSUME NEW n \in RgNodes, LinuxRegulatorDisable(n) PROVE RgIInv'
  <2>1. reg[n] = "open" /\ UNCHANGED <<parsed, status>> /\ KernelDisable(n)
    BY <1>11 DEF LinuxRegulatorDisable
  <2>2. /\ supply' \in RgSupply /\ stolen' \in BOOLEAN /\ (stolen => stolen')
        /\ ~stolen' => /\ supply.uses > 0 <=> enables[n] > 0
                       /\ supply'.uses >= supply.uses - (IF enables[n] > 0 THEN 1 ELSE 0)
                       /\ supply'.uses > 0 => supply'.on
    BY <2>1, KernelDisables
  <2>3. supply'.uses \in Nat /\ enables[n] \in 0..MaxUses
    BY <1>2, <2>2 DEF RgSupply, RgTypeOK
  <2>4. CASE enables[n] > 0 /\ supply.uses > 0
    <3>1. PICK e \in 0..MaxUses : e = enables[n] - 1
      BY <2>3, <2>4, RgAssumption
    <3>2. reg' = [reg EXCEPT ![n] = "disabled"] /\ enables' = [enables EXCEPT ![n] = e]
      BY <1>11, <2>4, <3>1 DEF LinuxRegulatorDisable
    <3>3. RgTypeOK' /\ NothingKept'
      BY <1>2, <2>1, <2>2, <3>2 DEF RgTypeOK, NothingKept
    <3>4. StatusTold => StatusTold'
      BY <1>2, <2>1, <3>2 DEF RgTypeOK, StatusTold
    <3>5. Cardinality(RgUses') \in Nat /\ Cardinality(RgUses') <= Cardinality(RgUses) - 1
      <4>1. e <= enables[n] /\ e < enables[n]
        BY <2>3, <3>1
      <4> QED
        BY <1>2, <3>2, <4>1, UsesFall
    <3>6. ASSUME ~stolen' PROVE UsesCounted'
      <4>1. Cardinality(RgUses) <= supply.uses
        BY <1>2, <2>2, <3>6 DEF UsesCounted
      <4>2. Cardinality(RgUses') <= supply'.uses
        BY <1>2, <2>2, <2>3, <2>4, <3>5, <3>6, <4>1
      <4> QED
        BY <2>2, <3>6, <4>2 DEF UsesCounted
    <3> QED
      BY <1>2, <2>2, <3>3, <3>4, <3>6 DEF RgIInv
  <2>5. CASE ~(enables[n] > 0 /\ supply.uses > 0)
    <3>1. UNCHANGED <<reg, enables>>
      BY <1>11, <2>5 DEF LinuxRegulatorDisable
    <3>2. RgTypeOK' /\ NothingKept' /\ (StatusTold => StatusTold')
      BY <1>2, <2>1, <2>2, <3>1 DEF RgTypeOK, NothingKept, StatusTold
    <3>3. ASSUME ~stolen' PROVE UsesCounted'
      <4>1. RgUses' = RgUses /\ Cardinality(RgUses) <= supply.uses
        BY <1>2, <2>2, <3>1, <3>3 DEF UsesCounted, RgUses
      <4>2. supply'.uses >= supply.uses
        BY <1>2, <2>2, <2>3, <2>5, <3>3
      <4>3. Cardinality(RgUses) <= supply'.uses
        BY <1>2, <2>3, <4>1, <4>2
      <4> QED
        BY <2>2, <3>3, <4>1, <4>3 DEF UsesCounted
    <3> QED
      BY <1>2, <2>2, <3>2, <3>3 DEF RgIInv
  <2> QED
    BY <2>4, <2>5
<1>12. ASSUME NEW n \in RgNodes, AskStatus(n) PROVE RgIInv'
  <2>1. /\ reg[n] \in {"enabled", "disabled"} /\ reg' = [reg EXCEPT ![n] = "open"]
        /\ status' = [status EXCEPT ![n] = supply.on]
        /\ UNCHANGED <<parsed, enables, supply, stolen>>
    BY <1>12 DEF AskStatus
  <2>2. RgTypeOK' /\ NothingKept'
    BY <1>2, <2>1 DEF RgTypeOK, NothingKept, RgSupply
  <2>3. UsesCounted /\ StatusTold => StatusTold'
    <3>1. SUFFICES ASSUME UsesCounted, StatusTold, NEW m \in RgNodes, enables[m] > 0,
                          reg'[m] = "open"
                   PROVE  status'[m]
      BY <2>1 DEF StatusTold
    <3>2. CASE m # n
      BY <1>2, <2>1, <3>1, <3>2 DEF RgTypeOK, StatusTold
    <3>3. CASE m = n
      <4>1. supply.uses > 0
        BY <1>2, <3>1 DEF UsesCounted
      <4> QED
        BY <1>2, <2>1, <3>1, <3>3, <4>1 DEF RgTypeOK, UsesCounted
    <3> QED
      BY <3>2, <3>3
  <2> QED
    BY <1>2, <1>3, <2>1, <2>2, <2>3 DEF RgIInv
<1>13. ASSUME NEW n \in RgNodes, LinuxRegulatorForceDisable(n) PROVE RgIInv'
  <2>1. [supply EXCEPT !.on = FALSE] \in RgSupply
    BY <1>2 DEF RgSupply
  <2>2. RgTypeOK' /\ NothingKept' /\ stolen'
    BY <1>2, <1>13, <2>1 DEF RgTypeOK, NothingKept, LinuxRegulatorForceDisable
  <2> QED
    BY <2>2 DEF RgIInv
<1> QED
  BY <1>4, <1>5, <1>6, <1>8, <1>9, <1>10, <1>11, <1>12, <1>13 DEF RgNext

(* A node that has enabled the supply finds it on, and its status says so, *)
(* whatever the other nodes do, as long as nobody gave back a use that was *)
(* not his or forced the supply off.                                       *)
THEOREM UsersKeepSupply == RgSpec => []SupplyHeld
<1>1. RgIInv => SupplyHeld
  <2>1. SUFFICES ASSUME RgIInv, ~stolen, NEW n \in RgNodes, enables[n] > 0
                 PROVE  supply.on /\ (reg[n] = "open" => status[n])
    BY DEF SupplyHeld
  <2>2. Cardinality(RgUses) > 0 /\ Cardinality(RgUses) \in Nat /\ supply.uses \in Nat
    BY <2>1, UsesFinite DEF RgIInv, RgTypeOK, RgSupply
  <2> QED
    BY <2>1, <2>2 DEF RgIInv, UsesCounted, StatusTold
<1> QED
  BY InitRgIInv, StepRgIInv, <1>1, PTL DEF RgSpec
=============================================================================
