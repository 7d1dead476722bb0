# khdf_linux: a TLA+ model of the HDF adaptation to the Linux kernel

This directory specifies the parts of `drivers_adapter_khdf_linux` that keep
state across concurrent actors: the USB function driver, the USB plug-and-play
notifier, the kernel event service with its power notifiers, the network
adapters, the OSAL's timers, works, devices and memory, and the platform
adapters that keep state.  Every definition names, in `PROJECT.json` under
`map`, the lines of C it stands for.  `tlc -config X.cfg M.tla` checks a module, `tlapm M.tla`
checks the proofs.

## 1. The system

The repository is a set of kernel components that give the hardware driver
foundation (HDF) a Linux implementation.  They are linked into one kernel and
call each other little; each is exercised from several sides at once: threads
of user-space daemons (ioctl, read, write), the framework (bind, init,
release), kernel notifiers, and interrupt or softirq callbacks.

| Component | State it keeps | Operations | Hard behaviour | What makes it correct |
|---|---|---|---|---|
| USB function, endpoint zero (`f_generic.c`, `struct ffs_data`) | `state`, `setup_state`, the event array `ev.types[4]`, `ev.setup`, the shared `ep0req` with one completion, `reqEventFifo` | read, write, ioctl by daemon threads; bind, unbind, set_alt, suspend, resume, setup from the gadget; completions from the UDC | sleeping under a mutex, a cmpxchg outside every lock, a completion that beats its own store, events that cancel a request in progress | array never overrun, the latest events stay queued until they are read, a request is ended only for itself, an answering thread returns |
| USB function, instance (`f_generic.c`, `struct ffs_dev`, `ffs_data`) | the list of `ffs_dev`, `mounted`, `desc_ready`, `ffs_data`, `private_data`, reference count, `FFS_FL_BOUND` | NEWFN, DELFN, configfs make/remove, ready, bind, unbind | three administrators with one lock that is dropped between related steps | nobody uses a freed instance or `ffs_dev` |
| USB function, endpoint files | `epfile->ep`, `eps_lock`, requests on the memory list | read/write/ioctl by threads, enable/disable by the gadget | spin lock and mutex paths, async cancel | the UDC has requests of an enabled endpoint only, a waiter whose endpoint is disabled returns (two error paths keep the spin lock) |
| USB function, descriptors and binding | parsed blocks, counts, endpoint map; arrays of descriptors per speed | parse descriptors and strings, autoconfigure, renumber, unbind | failed writes leave counts and map behind for the next attempt; three speeds must agree; numbers are rewritten in place | the counts fit the accepted descriptors, every index is covered, renumbering is a renaming |
| USB PnP notifier (`usb_pnp_notify.c`) | list of device infos, one slot per report thread | kernel notifier, report threads, dispatch | one slot, no queue; infos used after the lock is dropped | user space knows the devices that are there, but for those whose event was overwritten or failed |
| Kernel events and power (`hdf_kevent.c`, `devmgr_pm_reg.c`) | open clients, list of waits, power state of the drivers | send and wait, answer, open/close, PM and display notifiers | answers after the timeout, clients that die, a notifier that fails half way | woken only when answered, senders return, awake means not suspended |
| Network devices (`net_device_adapter.c`) | `net_device`, `interFace`, status | init, add, set status, delete, deinit; transmit and receive | transmit against delete | a device outlives its transmissions |
| Network buffers (`netbuf_adapter.c`) | offsets of an `sk_buff`, buffer queues | push, pop, resize, concatenate; queue operations | ownership moves, missing bounds checks | segments in order until an operation is too long, a buffer in one place |
| WLAN message queue (`hdf_wlan_queue.c`) | ring, count, head and tail | push, pop | wrap and full | a bounded FIFO |
| USB function, memory and poll | `memory_list` of each file, its wait queues | mmap, RELEASE_BUF, transfers by address; poll and what wakes it | no munmap hook, lookups and uses under different locks; wake-ups beside a test | a transfer stays in its area, no wake-up is lost |
| OSAL timers, works (`osal_timer.c`, `osal_workqueue.c`) | wrappers around the kernel's timers and works | create, start, add, cancel, destroy | destruction against a running callback that starts itself again | nothing freed is used, but for a timer whose last callback overtakes its deletion |
| OSAL devices (`osal_cdev.c`) | the class, the minors in use | register, unregister | threads race for the class; each of three steps can fail | minors in use are those of registered devices |
| OSAL memory (`osal_mem.c`) | a header in front of each block | allocate, aligned or not; free | two allocators, moved blocks, sizes that wrap | a free finds its block |
| MIPI DSI device (`mipi_tx_dev.c`) | `g_curId`, a slot and a semaphore per controller | open, ioctl, registration | one global decides which slot a call means, at each look | commands that came through one unspoilt semaphore exclude each other |
| Regulators (`regulator_adapter.c`) | nodes, which are consumers of shared supplies | open, close, enable, disable, remove | use counts in the kernel against status in the node | an enabled supply is on, unless another node gave its use away |
| GPIO (`gpio_adapter.c`) | controllers, interrupt bridges | set, enable, disable and unset an interrupt; release | interrupts against the release | a handler's controller is alive, the release ends |
| UART (`uart_adapter.c`) | flags of a tty | set baud and attributes, get | read, change and write back without a lock | the line is what was asked for, unless an overlapping setter undid it |
| Other platform adapters | one device each | pass calls to kernel subsystems | | |
| Build, configuration, test driver | none | | | |

Interactions: the endpoint-zero file of an instance exists between NEWFN and
DELFN, and its last write (the strings) makes the instance ready for the
gadget to bind; binding gives endpoint zero its request and its events.  The
PM notifiers of `hdf_kevent.c` and `devmgr_pm_reg.c` sit on one kernel chain
and change one power state.  The other components share no state, which is why
their models are checked side by side in one run and not multiplied.

## 2. Modules

| Module | Models | State and actions |
|---|---|---|
| `FfsEvents` | the event array and the purge of `__ffs_event_add` | pure operators: `Survives`, `Purged`, `EventAdd`, `DropFirst` |
| `FfsEp0` | endpoint zero | one record per daemon thread with its place in `ffs_ep0_read`, `ffs_ep0_write` or `ffs_ep0_iorw`; one action per stretch of code between two points where another actor can run; `irq` is the event source inside `__ffs_event_add`, so that unlocked writes to `setup_state` can fall between its test and its store |
| `FfsInstance` | instance life cycle | `admin` is the thread inside `usbfn_ioctl`, `conf` the function in configfs, `inst` the fields of each `ffs_data` address; one action per section under `ffs_dev_lock` |
| `FfsEpfile` | one endpoint file | `ft` is the place of each thread inside `ffs_epfile_iorw` and the endpoint it read; `sync` and `aio` are what the UDC has; one action per section under `eps_lock`; `epsLock` becomes "lost" when a path returns with the lock |
| `FfsDescs` | the two configuration writes and `_ffs_func_bind` | `fd` is the part of `ffs_data` that outlives a failed write, `fn` the function; one action per write (`ep0` mutex held) and one per bind; the walks over a block are recursive functions |
| `FfsOsDescs` | the OS descriptors at the end of the same block | `os` is the part of `ffs_data` that counts properties, `taken` what a bound function took of the memory; `DoOsDescs` is the walk that both writing and binding use, `Entity` the function each calls for an entity |
| `Kevent` | event service and PM notifiers | `pc` of each sender inside `SendKevent`; `chain` is the kernel's robust notifier chain; a `SendKevent` that fails is only logged; a `KernalSpacePmNotify` or `DevmgrPmSuspend` that fails ends the chain and those already called are called back, but the suspend goes on (the negative result reads as errno 0); `devmgrClnt` is whether the service finds the device manager |
| `UsbPnpNotify` | the USB notifier | `usbDevice` and `cmd` are the slot; `cb` is the notifier call of each device; `view` is what user space was told; a command of user space changes `cmd` under whatever is in the slot; of a gadget event the store of `g_preAcion` is a step of its own, after the wake-up |
| `NetDevice` | network devices | one action per function, transmit and receive in two; the framework deletes a device before it deinitialises it |
| `NetBuf` | buffers and queues | one action per function, with any lengths; `over` has the buffers on which an operation was longer than its segment |
| `WlanQueue` | the ring | `PushQueue` and `PopQueue` are one step each, they hold the mutex throughout |
| `OsalTimer` | the OSAL timer | `kt` is the struct at each address with its kernel timer and callback; the callback is cut before and after `func`, the deletion where it drops the mutex; what the callback frees in between is in `gone`, and the deletion then reads any mode there |
| `FfsMemory` | the memory lists of ep0 and endpoint files | `areas` is the list, `mapped` what the process has mapped, `transfer` what each user names; on ep0 look-up and use are two steps, of a transfer and of a release |
| `FfsPoll` | poll on both kinds of file | `poller` is each thread's place in `do_poll`; what it waits for is stored in one step and the queue woken in the next |
| `OsalWork` | work items on a single-threaded queue | the kernel's PENDING bit, timer, list and running work beside the wrapper; a function may add its own work |
| `OsalCdev` | class, minors, devices | `op` is the place of each device in `RegisterDev` or `OsalUnregisterCdev`, one step per kernel call that can fail |
| `OsalMem` | the allocator | addresses in units of the header; `kernel` is what kmalloc and vmalloc gave, `owned` what callers hold |
| `MipiTxDev` | the DSI character device | `task` is the place of each thread in `MipiDsiDevIoctl` and what it looked up |
| `RegulatorAdapter` | nodes on one supply | `supply` is the kernel's part; enable and disable are cut between the call and the query of the status |
| `GpioAdapter` | controllers and interrupts | a handler and a call have a step before and after the controller is used; the release goes chip by chip |
| `UartAdapter` | settings of a line | a setter is cut between TCGETS and TCSETS; a getter's flow control is always off (`CtsRtsToAttr` gets sixteen bits of the flags) |
| `BoundedFifo` | the abstract queue that `WlanQueue` implements | `Put`, `Get` |
| `Allocator` | the abstract allocator that `OsalMem` implements, with `held <- owned` and the header as `Overhead` | `Obtain`, `Return` |
| `FfsEp0_proofs` | theorems about `FfsEp0` with `FfsEvents` | |
| `FfsFiles_proofs` | theorems about `FfsPoll`, `FfsEpfile`, `FfsMemory` | one section per module |
| `FfsInstance_proofs` | theorems about `FfsInstance` | |
| `FfsDescs_proofs` | theorems about `FfsDescs`, `FfsOsDescs` | general facts about walks first, then one section per module |
| `Manager_proofs` | theorems about `Kevent`, `UsbPnpNotify` | one section per module |
| `Net_proofs` | theorems about `WlanQueue`, `NetDevice`, `NetBuf` | one section per module |
| `Osal_proofs` | theorems about `OsalCdev`, `OsalTimer`, `OsalWork`, `OsalMem` | one section per module |
| `Platform_proofs` | theorems about `MipiTxDev`, `GpioAdapter`, `UartAdapter`, `RegulatorAdapter` | one section per module |
| `MCFfsEp0`, `MCFfsInstance`, `MCManager`, `MCAdapters`, `MCPlatform`, `MCSender` | instances for TLC | all but `MCFfsEp0` select one component per behaviour; `MCAdapters` takes in `MCPlatform` and `MCSender` and has liveness and refinement, `MCManager` the parts with many states and only safety, which is why `NetBuf` and `MipiTxDev` are there |

Operators whose comment begins "Fault:" are deliberate mistakes; each stands
before the definition it spoils and shows that the property it is paired with
(`mutants`) is able to fail.

History variables are few and named as such: `raised`, `taken`, `courier`, `told`,
`ended` in `FfsEp0`; `misled` in `Kevent`; `view`, `lost`, `given`, `overlapped` in
`UsbPnpNotify`; `reused`, `twice` in `FfsMemory`; `over` in `NetBuf`; `late`, `gone` in
`OsalTimer`; `spoiled` in `MipiTxDev`; `stolen` in `RegulatorAdapter`; `asked`,
`lost` and `unsure` in `UartAdapter`; `mistaken` in `OsalMem`.

## 3. Runs

Passing runs:

- `ep0_all`: everything endpoint zero can do, with two threads, one control
  request, one asynchronous request, a FIFO of one, BIND, SUSPEND and RESUME
  events (`Raisable`), a completion handler that runs beside the thread it wakes
  (`Smp`), synchronous `ffs_ep0_iorw` and signals.  One request is enough for every
  pair of a thread and a request to interleave; four event classes meet four
  slots.  A read takes events from the queue in one step and copies them to the
  daemon in a later one, in which lock and mutex are free; the copy may fail
  (-EFAULT), and then what was taken is gone.  `LatestKept` and `PendingIsTold` say
  what was taken last, and who has it (`courier`).
- `ep0_daemon`: the discipline under which the transitions documented in
  `u_generic.h` hold: reads and writes only, and a completion handler that ends
  before the woken thread runs (uniprocessor).  Two control requests, so that
  one can cancel or be confused with another, between bind and unbind.
- `adapters`, `manager`: each component on its own, two devices, clients or
  contexts: two are what it takes for one to be mistaken for the other.  In
  `manager`, `Ids` are two infos, and a device, a report or a command that finds
  none free gets none, as without memory; two calls of the gadget notifier can
  overlap (`GadgetCalls`).  User space may give any command at any time: it takes
  the place of the command in the slot also when it is refused or its buffer
  cannot be read.  `ToldUnlessLost` and `FoundInfoAlive` except the devices that
  this or a failure loses (`lost`), `GadgetToldLast` calls that overlapped
  (`overlapped`).
- In `adapters` a timer may expire between the two halves of its deletion: its
  callback then frees the memory whose mode `OsalTimerDelete` reads next.  The
  deletion reads any mode and may arm a timer there; `TimerAlive` excepts that
  address (`gone`) and claims that nothing else finds a freed timer.
  The parts of `MCPlatform` have two clients on two chips or nodes, three
  works of which two are delayed and one is not, three
  devices for two minors, so that one is refused, and two blocks in a memory
  that holds an aligned one of the largest size beside a small one.  `MCSender`
  is one caller of `HdfSysEventSend` beside the two notifiers, one client and one
  outstanding event, for the liveness of a sender.
- `manager` also has two buffers of one byte and two queues, lengths of one and two,
  so that an operation can be longer than what there is.  A client gives any
  lengths; the buffer on which one is longer than its segment is then only queued
  and freed (`over`), and `SegmentsOK` claims nothing of it.  `pushed` is what
  header pushes have moved without the length following: the comment at
  `netbuf_adapter.c:246` says "the length of the data segment is reduced", and
  it is not.  And it has two threads on two controllers of the DSI device.
- Three properties of platform adapters except, by a history variable, what the
  code itself spoils: `MutualExclusion` a semaphore that a signal passed
  (`spoiled`), `SupplyHeld` a supply that a closed node gave away (`stolen`),
  `LineIsAsked` a setting that an overlapping setter undid (`lost`) or a rate
  whose setter told the wrong result (`unsure`).
- `ffs_instance`: two addresses, so that an instance is created while the last
  one is still being deleted.  `Orderly` says that configfs neither binds nor
  removes the function while an instance is being set up or deleted;
  `instance_gadget` drops it.  The same run checks an endpoint file with two
  threads, two asynchronous requests, and two addresses for the endpoints, so
  that an endpoint can come back changed or at the same address.  `Drained`
  says that the function is unbound and the file destroyed only while no thread
  and no tasklet is inside; `epfile_mutex` drops it.  Third, the same run checks
  the descriptors: blocks that are right, that have a speed too few or too many,
  endpoints in another order, a string index beyond the strings, an empty or an
  invalid descriptor, each after every other, at most `MaxEps` - 1 = 2 endpoints
  so that one too many occurs, and every choice of autoconfiguration.  `Rebind`
  is false: a function whose bind failed is not bound again; `descs_rebind` sets it.
  Fourth, the OS descriptors: properties and compatible ids of interfaces that
  exist or not, with sizes that agree with their parts, differ by 256, by a name
  or by too little, one or two features and the wrong number of them.
  Fifth, transfer memory: two areas in three pages, so that an address can be
  mapped again while its old area is still listed.  `TransferInMemory` excepts
  an area released under a transfer, a length rounded up after it was compared,
  and an address mapped again: all three happen in the code.  Two releases on ep0
  (`Releasers`) can find one area and free it twice, and nothing is claimed then
  (`twice`).  Sixth, poll: two
  threads on an endpoint file, the daemon's one thread on ep0.

Runs that show a disagreement (see `findings`):

- `ep0_recheck`: the comment in `ffs_ep0_write` that the state cannot be
  NO_SETUP after the copy; a second thread clears CANCELLED without the mutex.
- `ep0_latestore`: PENDING to NO_SETUP "P: mutex"; the completion handler's
  store comes after `complete()`.
- `descs_rebind`: "If ss_descriptors is not NULL, we are reading super speed
  descriptors": a failed bind leaves the pointers set, and the next one takes
  the descriptors of the first speed for those of the last.
- `adapters_full`: a push into a full queue reports success.
- `netbuf_toolong`: NULL "if the operation length exceeds the space of a specified
  buffer segment": most such operations succeed.  Buffers of two bytes.
- `instance_gadget`: `BUG_ON(ffs->gadget)` when a bind is between its lookup
  and `functionfs_bind`.
- `epfile_mutex`: `BUG_ON(mutex_is_locked(&epfile->mutex))` when the instance
  is deleted while a thread is inside the file.

`CHECK_DEADLOCK FALSE` is set everywhere but in `netbuf_toolong`: each of these systems
stops when its daemon, host, administrator or clients stop calling, and the bounds
on requests end a behaviour as well.

Bounds are constants with a comment at their declaration: `MaxSetup`, `MaxAio`,
`FifoSlots`, `Raisable` (endpoint zero), `Instances`, `Aios`,
`MaxFunc`, `FileEvents` (instance and file), `Blocks`, `StringBlocks`,
`MaxSlots`, `Phys`, `StrWrap`, `OsBlocks`, `MaxProps` (descriptors), `Tokens`, `MaxPending`
(events), `Ids` (infos alive at once), `GadgetCalls` (calls of the gadget notifier at once), `Sizes`, `Lens`, `MaxEnd` (buffers),
`Timers` (addresses of timers, so that one is made while another is deleted),
`MaxAddr`, `MaxAreas`, `Users`, `Releasers` (transfer memory), `Pollers`, `MaxCount` (poll),
`DsiTasks`, `DsiIds`, `NumRegs`, `MaxUses`, `Chips`, `MaxDepth`, `Clients`, `Asks`,
`Bauds` (platform), `Works`, `Cdevs`, `MaxCdevs`, `MemTop`, `SizeMax`,
`KmallocSize`, `MemSizes`, `Alignments`, `MaxBlocks` (OSAL).

## 4. Fairness

`FfsEp0!Fairness`: daemon threads that can run do run; waiters for the mutex
are served in turn (the kernel's mutex queue), hence strong fairness of `Lock`;
the UDC gives every queued request back, answered or on disconnect, as the
gadget API requires; an event source finishes its section under a spin lock.
Nothing is assumed of the daemon's calls, of signals or of the host.
`Kevent!KeFairness`: a thread inside `SendKevent` goes on; its wait ends by the
time limit at the latest.  Clients need not answer.
`FfsEpfile!EpFairness`: a thread inside the file goes on, and the UDC gives a
dequeued request back.  The host need not do anything.
`OsalTimer!TmFairness`: an armed kernel timer expires, and a callback and
`OsalTimerDelete` run to their ends.  The client need not delete anything.
`GpioAdapter!GpFairness`: handlers and calls that have begun go on, and so does
the release.  No interrupt need come, and any number may.

## 5. What is proved

Every theorem holds for every value of the constants that satisfies their named
assumptions, and every safety property a passing run checks is the subject of
one.  Three theorems also assume what the
run that checks their property sets: `Orderly` (two), and for
`OwnRequestEnded` a uniprocessor with reads and writes only (`~Smp`, `~SyncIorw`,
`MaxAio = 0`); section 3 says what each means and what happens without it.

Each proof has the same shape: an inductive invariant (`...IInv`), a lemma that
`Init` establishes it, one lemma per action or group of actions that keeps it,
and a theorem that adds the temporal step.  What the invariant needs beyond the
property:

Endpoint zero (`FfsEp0_proofs`)
- `TypeCorrect`: types, one step per action.
- `ClassesDistinct`, `QueueWithinArray`: the bound of the event array is not
  inductive: four events could be followed by a fifth.  The invariant is
  `QueueDistinct`, that two events of one class (SUSPEND, RESUME, SETUP,
  lifecycle) are never queued together.  `EventAddDistinct` shows that the
  purge preserves it, `DropDistinct` that reading does, and `DistinctBound`
  that four classes leave room for four events.
- `OneInside`: exactly the holder of the mutex is inside read or write.
- `LatestNewsKept`: the last of a class in the queue, or the last one taken, is
  the last one raised; the purge of a class and a read of part of the queue are
  the two cases; and a thread that has news in hand is still copying.
- `PendingTold`: the property holds while no event source is inside its section
  under the spin lock; one that is has seen the pending request, which it is
  about to cancel (`PendingInv`).
- `OwnRequestEnded`: an answering thread has seen the request that a read took
  last, and a queued `ep0req` is for it (`EndInv`).

Endpoint files, memory and poll (`FfsFiles_proofs`)
- `QueuedEnabled`, `CompletionAlive`: one invariant; it says at each place in
  `ffs_epfile_iorw` what the thread still knows of the endpoint it read and
  whether the UDC may have its request (`ThreadOK`, `SyncOK`).
- `MemoryOwned`: an address is mapped by one owner at a time, unless it was mapped
  again, and what a transfer names was found under its area (`TransferOK`).
- `NoWakeUpLost`: a thread in poll is in the queue of what it tests (`InQueue`),
  so that a second test looks at what the first one entered for.

Descriptors (`FfsDescs_proofs`).  The assumptions on the constants are types: a
block is a list of descriptors and the counts of three speeds, what stands in an
OS block is one of the three entities with natural numbers in its fields
(`OsEntity`), and `usb_ep_autoconfig` never chooses address zero.  The numbers
are otherwise free: any block of any length, any `MaxEps`, and every sequence of
writes that failed before.
- The walks over a block are recursive functions, and no induction theorem of the
  library can be instantiated here (they take an operator).  So induction is by
  the least number at which the claim fails (`LeastNumber`, from the
  well-foundedness of the natural numbers, then `UpTo`, which takes the claim as
  a set of numbers), and a recursive function is met as the sequence of its
  states (`Walk`), which exists (`WalkExists`) and stays in a set that every
  step keeps (`WalkWithin`, `WalkThrough`).
- `DescsAgree`: `Counted` says of each state of the walk over one speed what it has
  counted of the descriptors behind it (`CountedStep`); at the end the counts are
  those of `ffs_data` or the block is refused (`SpeedAgrees`), and a later speed
  cannot disturb an earlier one (`StaysAgreed`): once there is anything in the
  counts, nothing may change them but the largest string index (`Settled`).
- `StringsInTable`: strings are accepted only when there are as many as the largest
  index asks for, and as many are stored; descriptors are not written again afterwards.
- `BindRenames`: every address of the block is in the map (`Indices`, from the
  invariant of `DescsAgree`), so equal addresses are looked up to one endpoint and
  different ones to two; the first pass gives each descriptor the address
  autoconfiguration chose for its endpoint (`Renamed`, `BindDescStep`), the second a
  number per interface (`Numbered`).  A bound function
  that has both passes behind it has its endpoints and interfaces renamed (`Alike`).
  This does not depend on `Rebind`.
- `BindTakesWhatWasParsed`: an entity the first walk accepts moves the second one by as
  much, although one reads the size and the other adds up the parts, and takes no
  more than was counted (`EntityFollows`, in the relation `Follows` between the two
  walks); then the same of a header with its entities, and of the block.

Instances (`FfsInstance_proofs`)
- `InstanceAlive`, `ClearedAfterGadget`: the invariant relates the administrator's
  place inside `usbfn_ioctl`, the function's in configfs, and the count: it is
  the creator's reference and the gadget's, and no more (`RefOK`).  The gadget's
  reference is that of the function configfs has bound, and the instance being
  deleted is the only one that is still called mounted without being so (`OneDev`).

Kernel events (`Manager_proofs`)
- `ListedAlive`: a sender has a wait of its own from `PrepareEvent` until it frees
  it (`OneWait`).
- `WokenAnswered`: the count of a wait covers the clients that have the event in
  their box and did not answer it (`Counted`); a closed client, a late answer and
  a reused token are the cases.
- `DriversResumed`: where the chain of notifiers stands says what the drivers are, for
  each order of the two and also when one of them does not find the device manager
  (`Unfound`).

USB notifier (`Manager_proofs`)
- `GadgetLastTold`: an event in the slot is the last one the kernel gave, and so is the
  one call that has not stored `g_preAcion` yet; otherwise `g_preAcion` is.
- `DevicesTold`, `FoundInfoKept`: `Stage` lists every combination a device that is
  not lost can be in of the notifier's call, the slot and its command, the state of
  its one info and what user space knows; it is one fact per device, so that
  each action has to be shown for the device it is about and left alone for the
  others.

Network (`Net_proofs`)
- `RingImplementsFifo`: the ring's indices and count agree (`RingOK`); it refines
  `BoundedFifo` through `PushAppends` and `PopRemoves`, which relate the contents of
  the ring before and after a step with and without a wrap of the index.
- `XmitKeepsDevice`: what transmits is registered, and what is registered has its device.
- `SegmentsInOrder`: the order of head, data, tail and end is inductive with the types,
  and with it the length, which exceeds the data segment by what header pushes moved;
  for a buffer in `over` nothing is claimed, and it is not worked on again.
- `QueuesDisjoint`: likewise; each queue operation is shown to be an insertion, a
  removal or a concatenation of sequences without a common member.

OSAL (`Osal_proofs`)
- `MinorsHaveOwners`: one thread at most is between the class and the numbers, and
  none past them before `g_hdfClassInitted` is set; without it the class could be
  unregistered under a device when the allocation of the numbers fails.
- `TimerStaysAlive`: who may still free the timer at each place of the callback and
  of `OsalTimerDelete` (`TimerIs`), and what is left at an address in `gone`.
- `WorkKeepsWrapper`: the queue has every pending work once; what a canceller holds
  is neither on the timer nor on the queue (`Settled`).
- `FreesWhatItAllocated`: blocks do not overlap and no block has two holders
  (`BlocksApart`), so that a header is overwritten neither by a caller nor by the
  free of another block.  `AlignedUpWithin` is the arithmetic of the alignment, for
  any alignment but zero.
- `OsalMemIsAllocator`: `OsalMem` refines `Allocator`, from the same invariant: both
  allocations hand out a block apart from the others (`AllocHands`), so what the
  caller gets is, with its header, beside everything held (`HandedObtains`); a free
  is `Return`, and a caller who fills his memory does nothing.

Platform (`Platform_proofs`)
- `CommandsExclude`: the semaphore and the threads within it hold one unit between
  them, or there is no semaphore yet (`Held`); `LookedUp` carries that whoever
  is inside has come through a semaphore that was initialised.
- `HandlersHaveCntlr`: a controller has one reference per SetIrq under way and one
  per handler that found it, and no others (`Balanced`); so the release, which
  frees at zero, never frees under a handler.
- `SettersObeyed`: PARODD is never left set without PARENB, which is what makes the
  getter's test for "no parity" right.
- `UsersKeepSupply`: the supply's count is the number of uses the nodes hold
  (`UsesCounted`, the cardinality of the set of pairs of a node and a use).

Model-checked only: liveness (`AnswerReturns`, `SenderReturns`, `DisabledReturns`,
`DeletedFreed`, `ReleaseEnds`), which is out of the prover's reach.

## 6. What is left out

- The CDC descriptors `_ffs_func_bind` patches; binding OS descriptors on a gadget
  that leaves out one of the speeds, where the walk starts inside that speed.  A bind whose
  endpoint has no full-speed descriptor stops at the NULL `descs[0]`.
- Contents of messages and transfers, bytes of descriptors; event file descriptors,
  which are signalled where the wait queue is woken.
- On ep0, poll by a thread beside another that reads: setup_state can then change
  under a sleeper that entered the other state's queue, and nobody tells it.
- Undefined behaviour is left out where the step after it means nothing, and a
  comment at the action says so: `ffs_ready` through a stale pointer, DELFN of
  a name that was never ready, RW_CANCEL after the endpoint was disabled, a USB report while the slot holds
  `g_usbPnpInfo`, a timer armed in freed memory, a buffer whose data left its memory.
- `NetDevReceive` goes on with the net_device it has looked up after `NetDevDeInit` freed
  it; the model lets it, and no property speaks of it.  That the framework deletes a device
  before it deinitialises it is assumed: `free_netdev` insists on it.
- `DestroyQueue` of the WLAN queue, which frees it with whatever is in it.
- Two administrators in DELFN of one name at the same time.
- Test modes, module release of the USB notifier, formatting and logging.
- In the platform adapters: what only passes a call on (GPIO reads and writes,
  regulator voltages and currents, UART open, read and write, the commands of
  the DSI device).
- Components listed `not_modelled` in `PROJECT.json`: register programming of one
  chip (MIPI), and adapters that look a kernel device up once and pass calls on
  (SDIO, eMMC, SPI, I2C, PWM, ADC, RTC, watchdog), where a property would
  restate the call.

## 7. Plan

1. Done: `FfsEp0` with `FfsEvents` and its proofs, `WlanQueue` with its refinement
   and proofs, the network adapters, `Kevent`, `UsbPnpNotify`, `FfsInstance`.
2. Done: `FfsEpfile`, checked in the run of the instance.
3. Done: `OsalTimer`, `OsalWork`, `OsalCdev`, `OsalMem`, in the run `adapters`.
   Left: OSAL threads, whose task is used after it was woken.
4. Done: `UartAdapter`, `RegulatorAdapter`, `GpioAdapter`, in the run `adapters`,
   `MipiTxDev`, in the run `manager`; `FfsMemory` and `FfsPoll`, in the run of the instance.
5. Done: `FfsDescs` and `FfsOsDescs`, checked in the run of the instance.  Left: the
   rewriting of CDC descriptors.
6. Proofs: done for every safety property a passing run checks.  Left: more of the
   abstract specifications that the modules implement, beside `BoundedFifo` and `Allocator`.
