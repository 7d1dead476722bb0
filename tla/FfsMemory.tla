------------------------------- MODULE FfsMemory -------------------------------
(***************************************************************************)
(* The transfer memory of the USB function's files (f_generic.c): mmap     *)
(* allocates an area and puts it on the file's list, a transfer or a       *)
(* RELEASE_BUF names memory by its address in user space, and the list     *)
(* tells which area that is.  Nothing hears of munmap, so an area stays on *)
(* the list, under its old address, until it is released.                  *)
(*                                                                         *)
(* An endpoint file looks up and queues, or looks up and frees, under one  *)
(* hold of eps_lock.  On ep0 only the look-up and the addition are locked: *)
(* RELEASE_BUF can come between a look-up and its use, another RELEASE_BUF *)
(* between a look-up and its list_del.  Left out: the lock that an endpoint*)
(* file keeps when it finds no area (FfsEpfile), and the list's links torn *)
(* between list_del and another processor's list_add_tail.                 *)
(***************************************************************************)
EXTENDS Naturals, SequencesExt

CONSTANTS Users,      \* transfers at a time, synchronous or not
          Releasers,  \* threads of the daemon in RELEASE_BUF on ep0
          MaxAddr,    \* bound on user addresses, in pages
          MaxAreas    \* bound on the mmaps of a behaviour

ASSUME MemAssumption == MaxAddr \in Nat \ {0} /\ MaxAreas \in Nat

VARIABLES onEp0,      \* whether the file is ep0
          align,      \* what usb_ep_align_maybe rounds the length of a read up to
          areas,      \* memory_list: areas [id, start, size]
          mapped,     \* the user's mappings, which areas they show
          mmaps,      \* mmaps so far
          transfer,   \* per user: none, or the area and the range it uses
          reused,     \* history: an address was mapped again before its area was released
          releasing,  \* per releaser: the area it has looked up, none when there is none
          twice       \* history: an area was freed twice, and anything may follow

releaseVars == <<releasing, twice>>
memVars     == <<onEp0, align, areas, mapped, mmaps, transfer, reused, releasing, twice>>

NoTransfer == [pc |-> "none"]
NoArea     == [id |-> 0]

MemInit ==
  /\ onEp0 \in BOOLEAN /\ align \in {1, 2}
  /\ areas = <<>> /\ mapped = {} /\ mmaps = 0 /\ reused = FALSE
  /\ transfer = [u \in Users |-> NoTransfer]
  /\ releasing = [r \in Releasers |-> NoArea] /\ twice = FALSE

Overlap(a, b) == a.start < b.start + b.size /\ b.start < a.start + a.size

\* Fault: only the first byte is looked for.
HoldsStart(a, buf, len) == buf \in a.start .. (a.start + a.size - 1)

Holds(a, buf, len) ==
  /\ buf \in a.start .. (a.start + a.size - 1)
  /\ len <= a.start + a.size - buf

\* generic_find_memory_area, generic_find_ep0_memory_area: the first on the list
\* that holds the range, by its place there.
Found(buf, len) == {k \in DOMAIN areas : Holds(areas[k], buf, len)}
FirstFound(buf, len) == CHOOSE k \in Found(buf, len) : \A m \in Found(buf, len) : k <= m

-----------------------------------------------------------------------------
\* ffs_epfile_mmap and ffs_ep0_mmap: the vma's range gets an area of its own.
NewArea(a) ==
  /\ mmaps < MaxAreas /\ mmaps' = mmaps + 1
  /\ areas' = Append(areas, a) /\ mapped' = mapped \cup {a}
  /\ reused' = (reused \/ \E b \in ToSet(areas) : Overlap(a, b))
  /\ UNCHANGED <<onEp0, align, transfer>> /\ UNCHANGED releaseVars

\* The kernel picks a range the process has not mapped; a failure leaves nothing.
Mmap ==
  \E start \in 0 .. (MaxAddr - 1), size \in 1 .. MaxAddr :
    LET a == [id |-> mmaps + 1, start |-> start, size |-> size] IN
    /\ start + size <= MaxAddr /\ \A m \in mapped : ~Overlap(a, m)
    /\ NewArea(a)

Munmap ==
  /\ \E m \in mapped : mapped' = mapped \ {m}
  /\ UNCHANGED <<onEp0, align, areas, mmaps, transfer, reused>> /\ UNCHANGED releaseVars

\* list_del and kfree free the whole area at place k, whoever uses it.
FreeArea(k) ==
  /\ areas' = RemoveAt(areas, k)
  /\ transfer' = [u \in Users |-> IF transfer[u] # NoTransfer /\ transfer[u].area = areas[k]
                                    THEN [transfer[u] EXCEPT !.freed = TRUE] ELSE transfer[u]]
  /\ UNCHANGED <<onEp0, align, mapped, mmaps, reused>>

\* FUNCTIONFS_ENDPOINT_RELEASE_BUF of an endpoint file.
ReleaseBuf ==
  \E buf \in 0 .. (MaxAddr - 1), len \in 1 .. MaxAddr :
    ~onEp0 /\ Found(buf, len) # {} /\ FreeArea(FirstFound(buf, len)) /\ UNCHANGED releaseVars

\* Of ep0: the area is looked up under mem_lock, and freed after it.
FindToRelease(r) ==
  /\ onEp0 /\ releasing[r] = NoArea
  /\ \E buf \in 0 .. (MaxAddr - 1), len \in 1 .. MaxAddr :
       Found(buf, len) # {} /\ releasing' = [releasing EXCEPT ![r] = areas[FirstFound(buf, len)]]
  /\ UNCHANGED <<onEp0, align, areas, mapped, mmaps, transfer, reused, twice>>

ReleaseFound(r) ==
  /\ releasing[r] # NoArea /\ releasing' = [releasing EXCEPT ![r] = NoArea]
  /\ \/ \E k \in DOMAIN areas : areas[k] = releasing[r] /\ FreeArea(k) /\ UNCHANGED twice
     \/ /\ releasing[r] \notin ToSet(areas) /\ twice' = TRUE
        /\ UNCHANGED <<onEp0, align, areas, mapped, mmaps, transfer, reused>>

\* A transfer of memory the user has mapped: ffs_epfile_iorw queues it at once,
\* ffs_ep0_iorw in a step of its own.  The length of a read is rounded up on an
\* endpoint whose controller wants that, after the caller's was looked up.
Transfer(u) ==
  \E m \in mapped, buf \in 0 .. (MaxAddr - 1), len \in 1 .. MaxAddr, read \in BOOLEAN :
    /\ transfer[u] = NoTransfer /\ Holds(m, buf, 1) /\ Found(buf, len) # {}
    /\ LET a == areas[FirstFound(buf, len)]
           length == IF read /\ ~onEp0 THEN ((len + align - 1) \div align) * align ELSE len
       IN transfer' = [transfer EXCEPT ![u] =
            [pc |-> IF onEp0 THEN "found" ELSE "queued", area |-> a, buf |-> buf, length |-> length,
             rounded |-> length > len, freed |-> FALSE, own |-> m]]
    /\ UNCHANGED <<onEp0, align, areas, mapped, mmaps, reused>> /\ UNCHANGED releaseVars

QueueOnEp0(u) ==
  /\ transfer[u].pc = "found" /\ transfer' = [transfer EXCEPT ![u].pc = "queued"]
  /\ UNCHANGED <<onEp0, align, areas, mapped, mmaps, reused>> /\ UNCHANGED releaseVars

\* Completed or dequeued.
TransferEnds(u) ==
  /\ transfer[u].pc = "queued" /\ transfer' = [transfer EXCEPT ![u] = NoTransfer]
  /\ UNCHANGED <<onEp0, align, areas, mapped, mmaps, reused>> /\ UNCHANGED releaseVars

MemNext ==
  \/ Mmap \/ Munmap \/ ReleaseBuf
  \/ \E r \in Releasers : FindToRelease(r) \/ ReleaseFound(r)
  \/ \E u \in Users : Transfer(u) \/ QueueOnEp0(u) \/ TransferEnds(u)

MemSpec == MemInit /\ [][MemNext]_memVars

-----------------------------------------------------------------------------
(* A transfer stays inside one allocated area, which is the one its owner  *)
(* sees at that address - unless the area was released under it, the        *)
(* controller made its length larger, or an address was mapped again before *)
(* the area it had named was released - until two RELEASE_BUFs on ep0 free  *)
(* one area twice, which no lock prevents.                                  *)
TransferInMemory ==
  ~twice => \A u \in Users : transfer[u] # NoTransfer =>
    LET t == transfer[u] IN
    /\ t.freed \/ t.area \in ToSet(areas)
    /\ t.rounded \/ t.buf + t.length <= t.area.start + t.area.size
    /\ reused \/ t.area = t.own
=============================================================================
