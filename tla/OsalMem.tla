-------------------------------- MODULE OsalMem --------------------------------
(***************************************************************************)
(* The OSAL allocator (osal_mem.c).  A header in front of the caller's     *)
(* memory tells OsalMemFree which allocator to return it to, and how far   *)
(* in front of the header the block begins: an aligned block is moved up   *)
(* within an allocation that is larger by the alignment.  Addresses and    *)
(* sizes are in units of the header's eight bytes, which is also the size   *)
(* of a pointer; sizes wrap as size_t does.                                *)
(***************************************************************************)
EXTENDS Naturals, FiniteSets

CONSTANTS MemTop,      \* the kernel's memory is 1 .. MemTop
          SizeMax,     \* SIZE_MAX
          KmallocSize, \* KMALLOC_SIZE
          MemSizes,    \* the sizes asked for
          Alignments,  \* the alignments asked for, powers of two
          MaxBlocks    \* bound on the blocks in use

ASSUME OmAssumption ==
  /\ MemTop \in Nat /\ SizeMax \in Nat \ {0} /\ KmallocSize \in 1 .. SizeMax
  /\ MemSizes \subseteq 1 .. SizeMax /\ Alignments \subseteq Nat \ {0}

VARIABLES kernel,    \* what kmalloc and vmalloc have given: [base, size, type]
          header,    \* per address: the header written there, or NoHeader
          owned,     \* what callers hold: [buf, size, align]
          mistaken   \* history: a free that missed the block, its allocator or its header

omVars == <<kernel, header, owned, mistaken>>

NoHeader == [type |-> "none", offset |-> 0]
mngSize == 1

OmInit ==
  /\ kernel = {} /\ owned = {} /\ mistaken = FALSE
  /\ header = [a \in 1 .. MemTop |-> NoHeader]

-----------------------------------------------------------------------------
\* Where kmalloc or vmalloc can find n units.
Bases(n) ==
  {b \in 1 .. (MemTop + 1 - n) : \A k \in kernel : b + n <= k.base \/ k.base + k.size <= b}

\* osal_mem_alloc: the allocations that can answer a request.
OsMemAlloc(size) ==
  IF size > SizeMax - mngSize THEN {}
  ELSE {[base |-> b, size |-> size + mngSize,
         type |-> IF size > KmallocSize - mngSize THEN "vmalloc" ELSE "kmalloc"] :
          b \in Bases(size + mngSize)}

AlignedUp(buf, align) == ((buf + align - 1) \div align) * align

Handed(k, offset, size, align) ==
  /\ kernel' = kernel \cup {k}
  /\ header' = [header EXCEPT ![k.base + offset] = [type |-> k.type, offset |-> offset]]
  /\ owned' = owned \cup {[buf |-> k.base + offset + mngSize, size |-> size, align |-> align]}
  /\ UNCHANGED mistaken

\* OsalMemAlloc and OsalMemCalloc.
OsalMemAlloc(size) ==
  /\ Cardinality(owned) < MaxBlocks
  /\ \E k \in OsMemAlloc(size) : Handed(k, 0, size, 1)

\* Fault: the room for the alignment is not asked for.
AllocAlignTight(align, size) ==
  /\ Cardinality(owned) < MaxBlocks /\ size <= SizeMax - align
  /\ \E k \in OsMemAlloc(size) :
       LET buf == k.base + mngSize
       IN AlignedUp(buf, align) <= MemTop /\ Handed(k, AlignedUp(buf, align) - buf, size, align)

\* Fault: the sum of the size and the alignment may wrap.
AllocAlignWraps(align, size) ==
  /\ Cardinality(owned) < MaxBlocks
  /\ \E k \in OsMemAlloc((size + align) % (SizeMax + 1)) :
       LET buf == k.base + mngSize
       IN AlignedUp(buf, align) <= MemTop /\ Handed(k, AlignedUp(buf, align) - buf, size, align)

OsalMemAllocAlign(align, size) ==
  /\ Cardinality(owned) < MaxBlocks /\ size <= SizeMax - align
  /\ \E k \in OsMemAlloc((size + align) % (SizeMax + 1)) :
       LET buf == k.base + mngSize
       IN Handed(k, AlignedUp(buf, align) - buf, size, align)

\* A caller fills what it was given: headers in it are gone.
Fill(u) ==
  /\ header' = [a \in 1 .. MemTop |-> IF a \in u.buf .. (u.buf + u.size - 1) THEN NoHeader ELSE header[a]]
  /\ UNCHANGED <<kernel, owned, mistaken>>

OsalMemFree(u) ==
  LET h == header[u.buf - mngSize]
      freed == {k \in kernel : h.type = k.type /\ k.base + h.offset = u.buf - mngSize}
  IN /\ owned' = owned \ {u} /\ kernel' = kernel \ freed
     /\ mistaken' = (mistaken \/ Cardinality(freed) # 1)
     /\ header' = [a \in 1 .. MemTop |->
          IF \E k \in freed : a \in k.base .. (k.base + k.size - 1) THEN NoHeader ELSE header[a]]

OmNext ==
  \/ \E size \in MemSizes :
       \/ OsalMemAlloc(size)
       \/ \E align \in Alignments : OsalMemAllocAlign(align, size)
  \/ \E u \in owned : Fill(u) \/ OsalMemFree(u)

OmSpec == OmInit /\ [][OmNext]_omVars

Heap == INSTANCE Allocator WITH Top <- MemTop, Overhead <- mngSize, Sizes <- MemSizes,
                                Aligns <- Alignments \cup {1}, held <- owned

-----------------------------------------------------------------------------
(* Whatever is asked for, up to sizes that wrap, a caller's memory is as    *)
(* long and as aligned as it asked for, lies within one allocation and     *)
(* apart from every other caller's and from every header; and its free      *)
(* gives back that allocation to the allocator it came from, also after     *)
(* everybody has filled his memory.                                        *)
FreesItsBlock ==
  /\ ~mistaken /\ Cardinality(kernel) = Cardinality(owned)
  /\ \A u \in owned :
       /\ u.buf % u.align = 0
       /\ \E k \in kernel : /\ k.base <= u.buf - mngSize /\ u.buf + u.size <= k.base + k.size
                            /\ header[u.buf - mngSize] = [type |-> k.type, offset |-> u.buf - mngSize - k.base]

(* OsalMemAlloc, OsalMemAllocAlign and OsalMemFree implement an allocator: *)
(* what a caller gets is what it asked for and, with its header, beside    *)
(* all that other callers hold, wherever kmalloc and vmalloc place blocks. *)
IsAllocator == Heap!AllocSpec
=============================================================================
