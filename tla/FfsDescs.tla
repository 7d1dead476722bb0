-------------------------------- MODULE FfsDescs --------------------------------
(***************************************************************************)
(* Descriptors and strings of a USB function (f_generic.c): what the       *)
(* daemon's two configuration writes leave in struct ffs_data, attempt     *)
(* after attempt, and what _ffs_func_bind makes of it.                     *)
(*                                                                         *)
(* A descriptor is a record; its bytes are not modelled.  A block of       *)
(* descriptors says how many each speed has (full, high, super) and then   *)
(* lists them all.  A failed write changes ffs_data and is tried again.    *)
(* Left out: OS descriptors, the CDC descriptors patched by _ffs_func_bind,*)
(* and the ids that replace string indices when it rewrites them.          *)
(***************************************************************************)
EXTENDS Integers, Sequences, FiniteSets

CONSTANTS Blocks,        \* the blocks of descriptors the daemon may write
          StringBlocks,  \* the blocks of strings: str_count, lang_count, and
                         \* how many strings follow
          MaxEps,        \* FFS_MAX_EPS_COUNT
          MaxSlots,      \* bound on the descriptors of one speed
          Phys,          \* addresses usb_ep_autoconfig may choose
          StrWrap,       \* str_count is a u32: 2^32
          Rebind         \* a function whose bind failed is bound again

Speeds == 1..3
Descs  == [type : {"interface", "association", "endpoint", "other", "empty", "invalid"},
           num : Nat, str : Nat, addr : Nat]

\* FUNCTIONFS_VIRTUAL_ADDR in the header; a header without flags keeps it as it was.
Virtual == {"yes", "no", "kept"}

ASSUME DescsAssumption ==
  /\ MaxEps \in Nat \ {0} /\ MaxSlots \in Nat /\ StrWrap \in Nat \ {0} /\ Rebind \in BOOLEAN
  /\ Phys \subseteq Nat \ {0}
  /\ Blocks \subseteq [counts : [Speeds -> Nat], data : Seq(Descs), virtual : Virtual]
  /\ StringBlocks \subseteq [strs : Nat, langs : Nat, total : Nat]

VARIABLES fd,  \* the fields of ffs_data
          fn   \* struct ffs_function

dsVars == <<fd, fn>>

NoBlock == [counts |-> <<0, 0, 0>>, data |-> <<>>, virtual |-> "kept"]
Larger(a, b)  == IF a > b THEN a ELSE b
Smaller(a, b) == IF a < b THEN a ELSE b

NoPointer == [set |-> FALSE, at |-> [k \in 1..MaxSlots |-> 0]]
NoFunction == [pc |-> "new", descs |-> [s \in Speeds |-> NoPointer], eps |-> <<>>,
               inums |-> <<>>, next |-> 0, raw |-> <<>>]

DsInit ==
  /\ fd = [state |-> "READ_DESCRIPTORS", eps_count |-> 0, interfaces_count |-> 0,
           strings_count |-> 0, addrmap |-> [k \in 1..(MaxEps - 1) |-> 0],
           raw |-> NoBlock, tables |-> 0, virtual |-> FALSE]
  /\ fn = NoFunction

-----------------------------------------------------------------------------
(* __ffs_data_got_descs *)

\* Whether descriptors of an earlier speed were parsed, in this write or another.
First(a) == a.eps_count = 0 /\ a.interfaces_count = 0

\* Fault: descriptors of a later speed are not compared.
EndpointUnchecked(a, d) ==
  IF a.eps + 1 >= MaxEps THEN [a EXCEPT !.ok = FALSE]
  ELSE [a EXCEPT !.eps = @ + 1, !.addrmap[a.eps + 1] = IF First(a) THEN d.addr ELSE @]

\* FFS_ENDPOINT.
Endpoint(a, d) ==
  LET n == a.eps + 1 IN
  IF n >= MaxEps \/ (~First(a) /\ a.addrmap[n] # d.addr) THEN [a EXCEPT !.ok = FALSE]
  ELSE [a EXCEPT !.eps = n, !.addrmap[n] = d.addr]

\* ffs_do_single_desc with __ffs_data_do_entity.  A descriptor of an unknown
\* type may be of length zero, and is then met again.
SingleDesc(a, d) ==
  CASE d.type = "interface" -> [a EXCEPT !.pos = @ + 1, !.ifs = Larger(@, d.num + 1),
                                         !.strings_count = Larger(@, d.str)]
    [] d.type = "association" -> [a EXCEPT !.pos = @ + 1, !.strings_count = Larger(@, d.str)]
    [] d.type = "endpoint"  -> [Endpoint(a, d) EXCEPT !.pos = @ + 1]
    [] d.type = "other"     -> [a EXCEPT !.pos = @ + 1]
    [] d.type = "empty"     -> a
    [] d.type = "invalid"   -> [a EXCEPT !.ok = FALSE]

\* ffs_do_descs: count descriptors of data.
DoDescs(a, count, data) ==
  LET walk[n \in 0..count] ==
        IF n = 0 THEN a
        ELSE LET w == walk[n - 1] IN
             IF ~w.ok \/ w.pos = Len(data) THEN [w EXCEPT !.ok = FALSE]
             ELSE SingleDesc(w, data[w.pos + 1])
  IN walk[count]

\* One speed, and the comparison of its counts with those of the speeds before.
Speed(a, count, data) ==
  IF ~a.ok \/ count = 0 THEN a
  ELSE LET w == DoDescs([a EXCEPT !.ifs = 0, !.eps = 0], count, data) IN
       IF ~w.ok THEN w
       ELSE IF First(w) THEN [w EXCEPT !.eps_count = w.eps, !.interfaces_count = w.ifs]
       ELSE [w EXCEPT !.ok = (w.eps_count = w.eps /\ w.interfaces_count = w.ifs)]

GotDescs(b) ==
  LET a == [ok |-> TRUE, pos |-> 0, ifs |-> 0, eps |-> 0, eps_count |-> fd.eps_count,
            interfaces_count |-> fd.interfaces_count, strings_count |-> fd.strings_count,
            addrmap |-> fd.addrmap]
  IN Speed(Speed(Speed(a, b.counts[1], b.data), b.counts[2], b.data), b.counts[3], b.data)

\* Something must have been read, and nothing may be left.  The header's flags
\* are stored before anything else is looked at.
WriteDescs(b) ==
  /\ fd.state = "READ_DESCRIPTORS"
  /\ LET a  == GotDescs(b)
         ok == a.ok /\ a.pos > 0 /\ a.pos = Len(b.data)
     IN fd' = [fd EXCEPT !.eps_count = a.eps_count, !.interfaces_count = a.interfaces_count,
                         !.strings_count = a.strings_count, !.addrmap = a.addrmap,
                         !.state = IF ok THEN "READ_STRINGS" ELSE @,
                         !.raw = IF ok THEN b ELSE @,
                         !.virtual = IF b.virtual = "kept" THEN @ ELSE b.virtual = "yes"]
  /\ UNCHANGED fn

-----------------------------------------------------------------------------
(* __ffs_data_got_strings *)

\* str_count is counted down to zero by the first language: a second one asks
\* for 2^32 strings.
StringsRead(b) == IF b.langs = 0 THEN 0 ELSE b.strs + (b.langs - 1) * StrWrap

\* Fault: fewer strings than the descriptors name are accepted.
AcceptsAnyCount(b, needed) ==
  /\ b.strs = 0 <=> b.langs = 0
  /\ needed = 0 \/ (b.langs > 0 /\ StringsRead(b) = b.total)

AcceptsStrings(b, needed) ==
  /\ b.strs = 0 <=> b.langs = 0
  /\ b.strs >= needed
  /\ needed = 0 \/ StringsRead(b) = b.total

\* A language's table has room for the strings needed; more are ignored.
WriteStrings(b) ==
  /\ fd.state = "READ_STRINGS"
  /\ IF AcceptsStrings(b, fd.strings_count)
     THEN fd' = [fd EXCEPT !.state = "ACTIVE",
                           !.tables = Smaller(b.strs, fd.strings_count)]
     ELSE UNCHANGED fd
  /\ UNCHANGED fn

-----------------------------------------------------------------------------
(* _ffs_func_bind *)

Start(s) == IF s = 1 THEN 0 ELSE IF s = 2 THEN fd.raw.counts[1]
            ELSE fd.raw.counts[1] + fd.raw.counts[2]
Section(s) == (Start(s) + 1)..(Start(s) + fd.raw.counts[s])

\* ffs_ep_addr2idx.
Matches(addr) == {k \in 1..(MaxEps - 1) : fd.addrmap[k] = addr}
Addr2Idx(addr) == CHOOSE k \in Matches(addr) : \A m \in Matches(addr) : k <= m

Reading(f) == IF f.descs[3].set THEN 3 ELSE IF f.descs[2].set THEN 2 ELSE 1

\* usb_ep_autoconfig puts the physical address into the descriptor; with virtual
\* addresses the daemon's own is restored.
Rewritten(d, physical) == IF fd.virtual THEN d.addr ELSE physical

\* __ffs_func_bind_do_descs for the descriptor at p, the k-th of its speed;
\* auto gives the address autoconfig finds, 0 for none.  With an endpoint that
\* has no full speed descriptor descs[0] is dereferenced as NULL: stuck.
BindDesc(f, k, p, auto) ==
  LET s == Reading(f)
      g == [f EXCEPT !.descs[s].at[k] = p]
      d == f.raw[p]
      i == Addr2Idx(d.addr)
      old == f.eps[i]
  IN IF d.type # "endpoint" THEN g
     ELSE IF old.descs[s] # 0 THEN [g EXCEPT !.pc = "failed"]
     ELSE IF old.ep # 0
     THEN IF old.descs[1] = 0 THEN [g EXCEPT !.pc = "stuck"]
          ELSE [g EXCEPT !.eps[i].descs[s] = p, !.raw[p].addr = f.raw[old.descs[1]].addr]
     ELSE IF auto[i] = 0 THEN [g EXCEPT !.pc = "failed"]
     ELSE [g EXCEPT !.eps[i] = [@ EXCEPT !.descs[s] = p, !.ep = auto[i]],
                    !.raw[p].addr = Rewritten(d, auto[i])]

\* The pointer of speed s is set to an empty array, then its descriptors are walked.
BindSpeed(f, s, auto) ==
  LET n == fd.raw.counts[s]
      walk[k \in 0..n] ==
        IF k = 0 THEN [f EXCEPT !.descs[s] = [NoPointer EXCEPT !.set = TRUE]]
        ELSE LET w == walk[k - 1] IN
             IF w.pc # "binding" THEN w ELSE BindDesc(w, k, Start(s) + k, auto)
  IN IF n = 0 \/ f.pc # "binding" THEN f ELSE walk[n]

\* Fault: the number is allocated for every descriptor of the interface.
BindNumAlways(f, p) ==
  LET d == f.raw[p] IN
  IF d.type # "interface" THEN f
  ELSE [f EXCEPT !.raw[p].num = f.next, !.next = @ + 1]

\* __ffs_func_bind_do_nums: usb_interface_id counts up.
BindNum(f, p) ==
  LET d == f.raw[p]
      n == d.num + 1
      g == IF f.inums[n] >= 0 THEN f ELSE [f EXCEPT !.inums[n] = f.next, !.next = @ + 1]
  IN IF d.type # "interface" THEN f ELSE [g EXCEPT !.raw[p].num = g.inums[n]]

\* The interface and endpoint numbers are rewritten in one go.
BindNums(f) ==
  LET walk[p \in 0..Len(f.raw)] == IF p = 0 THEN f ELSE BindNum(walk[p - 1], p)
  IN IF f.pc = "binding" THEN walk[Len(f.raw)] ELSE f

\* auto: autoconfig never gives an endpoint twice; first: the configuration's
\* next interface number; ids: whether it has enough of them.
BindAttempt(auto, first, ids) ==
  LET f == [fn EXCEPT !.pc = "binding", !.next = first, !.raw = fd.raw.data,
                      !.eps = [i \in 1..fd.eps_count |-> [descs |-> <<0, 0, 0>>, ep |-> 0]],
                      !.inums = [n \in 1..fd.interfaces_count |-> -1]]
      g == BindSpeed(BindSpeed(BindSpeed(f, 1, auto), 2, auto), 3, auto)
      h == IF ids THEN BindNums(g) ELSE [g EXCEPT !.pc = "failed"]
  IN IF h.pc = "binding" THEN [h EXCEPT !.pc = "bound"] ELSE h

\* A failure keeps the pointers, the memory and the endpoints.
FuncBindDescs ==
  /\ fd.state = "ACTIVE" /\ fn.pc \in IF Rebind THEN {"new", "failed"} ELSE {"new"}
  /\ \E auto \in [1..fd.eps_count -> Phys \cup {0}], first \in 0..1, ids \in BOOLEAN :
       /\ \A i, j \in 1..fd.eps_count : auto[i] = auto[j] /\ auto[i] # 0 => i = j
       /\ ids \/ fd.interfaces_count > 0
       /\ fn' = BindAttempt(auto, first, ids)
       /\ fn'.pc # "stuck"
  /\ UNCHANGED fd

\* ffs_func_unbind.
FuncUnbindDescs == fn.pc = "bound" /\ fn' = NoFunction /\ UNCHANGED fd

DsNext ==
  \/ \E b \in Blocks : WriteDescs(b)
  \/ \E b \in StringBlocks : WriteStrings(b)
  \/ FuncBindDescs \/ FuncUnbindDescs

DsSpec == DsInit /\ [][DsNext]_dsVars

-----------------------------------------------------------------------------
EndpointsOf(s)  == {p \in Section(s) : fd.raw.data[p].type = "endpoint"}
Rank(s, p)      == Cardinality({q \in EndpointsOf(s) : q <= p})
InterfacesOf(s) == {p \in Section(s) : fd.raw.data[p].type = "interface"}

\* The descriptors of speed s that may name a string.
NamedOf(s) == {p \in Section(s) : fd.raw.data[p].type \in {"interface", "association"}}

(* However many writes failed before, the descriptors that were accepted   *)
(* and the counts in ffs_data agree: every speed that has interfaces or    *)
(* endpoints has them all, its endpoints in the order of eps_addrmap, and  *)
(* no interface or string index is beyond the counts.                      *)
SpeedsAgree ==
  fd.state # "READ_DESCRIPTORS" =>
    /\ Start(3) + fd.raw.counts[3] = Len(fd.raw.data)
    /\ \A s \in Speeds : EndpointsOf(s) # {} \/ InterfacesOf(s) # {} =>
         /\ Cardinality(EndpointsOf(s)) = fd.eps_count
         /\ \A p \in EndpointsOf(s) : fd.raw.data[p].addr = fd.addrmap[Rank(s, p)]
         /\ fd.interfaces_count > 0 =>
              fd.interfaces_count - 1 \in {fd.raw.data[p].num : p \in InterfacesOf(s)}
         /\ \A p \in InterfacesOf(s) : fd.raw.data[p].num < fd.interfaces_count
    /\ \A s \in Speeds : \A p \in NamedOf(s) : fd.raw.data[p].str <= fd.strings_count

(* Every string index of the descriptors, of interfaces and of interface   *)
(* associations, is in the table of the first language, which has the      *)
(* strings needed and no more, and whose entries __ffs_func_bind_do_nums   *)
(* reads without a check.                                                  *)
StringsCovered ==
  fd.state = "ACTIVE" =>
    \A s \in Speeds : \A p \in NamedOf(s) : fd.raw.data[p].str <= fd.tables

(* The comment in __ffs_func_bind_do_descs, "If ss_descriptors is not      *)
(* NULL, we are reading super speed descriptors" and so on: a bound        *)
(* function's pointers name the descriptors of their own speed, all of     *)
(* them, although the walk guesses the speed from the pointers.            *)
ArraysFilled ==
  fn.pc = "bound" =>
    \A s \in Speeds : \A k \in 1..fd.raw.counts[s] : fn.descs[s].at[k] = Start(s) + k

(* Rewriting numbers in place, over two passes and three speeds, is a      *)
(* renaming: descriptors of one interface or endpoint at several speeds    *)
(* still agree, and those of different ones still differ.                  *)
RenamedAlike ==
  fn.pc = "bound" =>
    \A p, q \in 1..Len(fn.raw) :
      LET old == fd.raw.data IN
      /\ old[p].type = "interface" /\ old[q].type = "interface" =>
           (old[p].num = old[q].num <=> fn.raw[p].num = fn.raw[q].num)
      /\ old[p].type = "endpoint" /\ old[q].type = "endpoint" =>
           (old[p].addr = old[q].addr <=> fn.raw[p].addr = fn.raw[q].addr)
================================================================================
