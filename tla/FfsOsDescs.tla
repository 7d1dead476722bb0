------------------------------- MODULE FfsOsDescs -------------------------------
(***************************************************************************)
(* Microsoft OS descriptors of a USB function (f_generic.c).  They end the *)
(* daemon's block of descriptors and are walked twice: when the block is   *)
(* written, with checks, to count the properties; and when the function is *)
(* bound, without, to fill memory allocated by those counts.               *)
(*                                                                         *)
(* A block is its length in bytes, the number of feature descriptors, and  *)
(* what stands at each byte where the daemon put something.  The speeds of *)
(* the same block are FfsDescs; here they are read, say Interfaces, and    *)
(* the gadget supports them all: a speed it does not is not skipped, and   *)
(* the walk of the bind would start inside its descriptors.                *)
(***************************************************************************)
EXTENDS Integers, Sequences

CONSTANTS OsBlocks,    \* the blocks the daemon may write
          Interfaces,  \* ffs->interfaces_count
          MaxProps     \* bound on the properties counted by failed writes

OsEntity(d) ==
  /\ d.kind = "header" => d.type \in {"compat", "prop"} /\ d.count \in Nat /\ d.iface \in Nat
  /\ d.kind = "compat" => d.iface \in Nat
  /\ d.kind = "prop"   => d.size \in Nat /\ d.name \in Nat /\ d.data \in Nat

ASSUME OsAssumption ==
  /\ Interfaces \in Nat /\ MaxProps \in Nat
  /\ \A b \in OsBlocks : /\ b.length \in Nat /\ b.count \in Nat
                         /\ DOMAIN b.at \subseteq Nat /\ \A p \in DOMAIN b.at : OsEntity(b.at[p])

VARIABLES os,    \* the counts in ffs_data, the accepted block, where it was read
          taken  \* what the bound function took of the memory

osVars == <<os, taken>>

HeaderSize == 11   \* struct usb_os_desc_header
CompatSize == 24   \* struct usb_ext_compat_desc
PropSize   == 10   \* struct usb_ext_prop_desc, before the name
PropFrame  == 14   \* what a property occupies beside its name and data

NoOsBlock == [length |-> 0, count |-> 0, at |-> <<>>]
NotTaken  == [pc |-> "new", at |-> <<>>, count |-> 0, name_len |-> 0, data_len |-> 0,
              table |-> {}]

OsInit ==
  /\ os = [block |-> NoOsBlock, accepted |-> FALSE, at |-> <<>>,
           prop_count |-> 0, name_len |-> 0, data_len |-> 0]
  /\ taken = NotTaken

-----------------------------------------------------------------------------
(* The entities of a block, for each of the two walks *)

Read(b, pos) == IF pos \in DOMAIN b.at THEN b.at[pos] ELSE [kind |-> "other"]
Fail(w) == [w EXCEPT !.ok = FALSE]
Move(w, n) == [w EXCEPT !.pos = @ + n, !.at = Append(@, w.pos)]

\* The length of a property is taken as a u8.
Length(d) == d.size % 256

\* Fault: the property is only checked to have room for its name.
ParsePropLoose(w, b, h, d) ==
  IF \/ b.length - w.pos < PropSize \/ h.iface >= Interfaces \/ d.kind # "prop"
     \/ b.length - w.pos < Length(d) \/ Length(d) < PropFrame + d.name
  THEN Fail(w)
  ELSE [Move(w, Length(d)) EXCEPT !.prop_count = @ + 1, !.name_len = @ + 2 * d.name,
                                  !.data_len = @ + d.data]

\* A property (its type in the range of known ones): what it says of its size
\* must agree with its name and its data.
ParseProp(w, b, h, d) ==
  IF \/ b.length - w.pos < PropSize \/ h.iface >= Interfaces \/ d.kind # "prop"
     \/ b.length - w.pos < Length(d) \/ Length(d) # PropFrame + d.name + d.data
  THEN Fail(w)
  ELSE [Move(w, Length(d)) EXCEPT !.prop_count = @ + 1, !.name_len = @ + 2 * d.name,
                                  !.data_len = @ + d.data]

ParseCompat(w, b, h, d) ==
  IF b.length - w.pos < CompatSize \/ d.kind # "compat" \/ d.iface >= Interfaces
  THEN Fail(w) ELSE Move(w, CompatSize)

ParseOsDesc(w, b, h, d) ==
  IF h.type = "compat" THEN ParseCompat(w, b, h, d) ELSE ParseProp(w, b, h, d)

\* __ffs_func_bind_do_os_desc.  It checks nothing: other bytes are taken for
\* whatever they spell.
BindOsDesc(w, b, h, d) ==
  IF h.type = "compat" /\ d.kind = "compat"
  THEN [Move(w, CompatSize) EXCEPT !.table = @ \cup {d.iface}]
  ELSE IF h.type = "prop" /\ d.kind = "prop"
  THEN [Move(w, (PropFrame + d.name + d.data) % 256) EXCEPT
          !.count = @ + 1, !.name_len = @ + d.name, !.data_len = @ + d.data,
          !.table = @ \cup {h.iface}]
  ELSE Fail(w)

-----------------------------------------------------------------------------
(* The walk *)

\* The function called for each entity of the block.
Entity(walker, w, b, h, d) ==
  IF walker = "parse" THEN ParseOsDesc(w, b, h, d) ELSE BindOsDesc(w, b, h, d)

\* ffs_do_single_os_desc.
SingleOsDesc(w, b, h, walker) ==
  LET walk[n \in 0..h.count] ==
        IF n = 0 THEN w
        ELSE LET v == walk[n - 1] IN IF v.ok THEN Entity(walker, v, b, h, Read(b, v.pos)) ELSE v
  IN walk[h.count]

\* ffs_do_os_descs.  A header that is not one has a wrong length, version, type
\* or count of compatible ids.
DoOsDescs(w, b, walker) ==
  LET walk[n \in 0..b.count] ==
        IF n = 0 THEN w
        ELSE LET v == walk[n - 1]
                 h == Read(b, v.pos)
             IN IF ~v.ok \/ b.length - v.pos < HeaderSize \/ h.kind # "header" THEN Fail(v)
                ELSE SingleOsDesc(Move(v, HeaderSize), b, h, walker)
  IN walk[b.count]

-----------------------------------------------------------------------------
\* Counts of a write that fails stay, and are added to by the next.
WriteOsDescs(b) ==
  /\ ~os.accepted /\ os.prop_count <= MaxProps
  /\ LET a == DoOsDescs([ok |-> TRUE, pos |-> 0, at |-> <<>>, prop_count |-> os.prop_count,
                         name_len |-> os.name_len, data_len |-> os.data_len], b, "parse")
         ok == a.ok /\ a.pos = b.length
     IN os' = [os EXCEPT !.prop_count = a.prop_count, !.name_len = a.name_len,
                         !.data_len = a.data_len, !.accepted = ok,
                         !.block = IF ok THEN b ELSE @, !.at = IF ok THEN a.at ELSE @]
  /\ UNCHANGED taken

\* Without use_os_string the descriptors are not walked.
BindOsDescs ==
  /\ os.accepted /\ taken.pc = "new"
  /\ \/ taken' = [taken EXCEPT !.pc = "unused"]
     \/ LET a == DoOsDescs([ok |-> TRUE, pos |-> 0, at |-> <<>>, count |-> 0, name_len |-> 0,
                            data_len |-> 0, table |-> {}], os.block, "bind")
        IN taken' = [pc |-> IF a.ok THEN "filled" ELSE "astray", at |-> a.at, count |-> a.count,
                     name_len |-> a.name_len, data_len |-> a.data_len, table |-> a.table]
  /\ UNCHANGED os

\* ffs_func_unbind.
UnbindOsDescs == taken.pc # "new" /\ taken' = NotTaken /\ UNCHANGED os

OsNext == (\E b \in OsBlocks : WriteOsDescs(b)) \/ BindOsDescs \/ UnbindOsDescs

OsSpec == OsInit /\ [][OsNext]_osVars

-----------------------------------------------------------------------------
(* The second walk relies on what the first has checked, with the size of  *)
(* a property cut to a byte by one and computed from its parts by the      *)
(* other: it reads entities where the first did, takes no more memory than *)
(* the counts of all writes up to the accepted one allocated, and stays    *)
(* inside the table of interfaces.                                         *)
BindFollowsParse ==
  taken.pc \notin {"new", "unused"} =>
    /\ taken.pc = "filled" /\ taken.at = os.at
    /\ taken.count <= os.prop_count
    /\ taken.name_len <= os.name_len /\ taken.data_len <= os.data_len
    /\ \A i \in taken.table : i < Interfaces
================================================================================
