----------------------------- MODULE MCFfsInstance -----------------------------
(* FfsInstance, one endpoint file, the descriptors and the OS descriptors  *)
(* on small instances: two addresses, so that an instance can be made      *)
(* while another is being deleted; two threads, two functions and two      *)
(* asynchronous requests; two interfaces and endpoints at up to three      *)
(* speeds; up to two features of OS descriptors; one transfer at a time    *)
(* and two areas in three pages of transfer memory; two threads in poll.  A behaviour exercises *)
(* one of the six: that a file lives as long as its instance is what      *)
(* EpfilesDestroy stands for, and EpNext queues whatever memory it is given.*)
EXTENDS FfsInstance, FfsEpfile, FfsDescs, FfsOsDescs, FfsMemory, FfsPoll

I(n, s) == [type |-> "interface", num |-> n, str |-> s, addr |-> 0]
E(a)    == [type |-> "endpoint", num |-> 0, str |-> 0, addr |-> a]
A(s)    == [type |-> "association", num |-> 0, str |-> s, addr |-> 0]
Of(t)   == [type |-> t, num |-> 0, str |-> 0, addr |-> 0]

MCSections ==
  {<<>>, <<Of("other")>>, <<A(2)>>, <<I(0, 1), E(1)>>, <<I(0, 0), E(2)>>, <<I(1, 2), E(2), E(1)>>,
   <<I(0, 0), I(1, 1), I(1, 0)>>, <<I(1, 0), I(0, 1), E(1)>>, <<E(1), E(2), E(3)>>,
   <<E(1), E(1)>>, <<I(0, 2), Of("empty")>>, <<E(2), Of("invalid")>>}

MCBlocks ==
  {[counts |-> <<Len(a) + n, Len(b), Len(c)>>, data |-> (a \o b) \o c,
    virtual |-> IF a # b THEN "kept" ELSE IF b = c THEN "no" ELSE "yes"] :
     a, b, c \in MCSections, n \in {0, 1}}

MCStringBlocks ==
  {[strs |-> s, langs |-> l, total |-> s * l] : s \in 0..2, l \in 0..2}

Header(t, i, n) == [kind |-> "header", type |-> t, iface |-> i, count |-> n, bytes |-> HeaderSize]
CompatId(i)     == [kind |-> "compat", iface |-> i, bytes |-> CompatSize]
Prop(s, n, d)   == [kind |-> "prop", size |-> s, name |-> n, data |-> d, bytes |-> s % 256]

\* Sizes that agree, are 256 too large, too large by a property's name, or too small.
MCFeatures ==
  {<<Header("compat", 0, n), CompatId(i)>> : n \in 0..2, i \in {1, 2}}
    \cup {<<Header("prop", 1, 2), Prop(s, 2, 3), Prop(16, 2, 0)>> : s \in {16, 19, 21, 19 + 256}}
    \cup {<<Header("prop", 2, 1), Prop(19, 2, 3)>>}

Placed(items) ==
  LET pos[k \in 1..(Len(items) + 1)] == IF k = 1 THEN 0 ELSE pos[k - 1] + items[k - 1].bytes
  IN [length |-> pos[Len(items) + 1],
      at |-> [p \in {pos[k] : k \in 1..Len(items)} |->
                items[CHOOSE k \in 1..Len(items) : pos[k] = p]]]

MCOsBlocks ==
  {[length |-> Placed(a \o b).length, count |-> c, at |-> Placed(a \o b).at] :
     a \in MCFeatures, b \in MCFeatures \cup {<<>>}, c \in 1..2}

VARIABLE part

vars == <<part, insVars, epVars, dsVars, osVars, memVars, pollVars>>

MCInit ==
  /\ part \in {"instance", "file", "descs", "os", "memory", "poll"}
  /\ InsInit /\ EpInit /\ DsInit /\ OsInit /\ MemInit /\ PollInit
  /\ part = "memory" \/ (~onEp0 /\ align = 1)
  /\ part = "poll" \/ file = "ep0"

MCNext ==
  /\ part' = part
  /\ \/ part = "instance" /\ InsNext /\ UNCHANGED <<epVars, dsVars, osVars, memVars, pollVars>>
     \/ part = "file"     /\ EpNext  /\ UNCHANGED <<insVars, dsVars, osVars, memVars, pollVars>>
     \/ part = "descs"    /\ DsNext  /\ UNCHANGED <<insVars, epVars, osVars, memVars, pollVars>>
     \/ part = "os"       /\ OsNext  /\ UNCHANGED <<insVars, epVars, dsVars, memVars, pollVars>>
     \/ part = "memory"   /\ MemNext /\ UNCHANGED <<insVars, epVars, dsVars, osVars, pollVars>>
     \/ part = "poll"     /\ PollNext /\ UNCHANGED <<insVars, epVars, dsVars, osVars, memVars>>

MCSpec == MCInit /\ [][MCNext]_vars /\ (part = "file" => EpFairness)
==============================================================================
