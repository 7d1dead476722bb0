----------------------------- MODULE FfsDescs_proofs -----------------------------
(***************************************************************************)
(* Theorems about the descriptors of a USB function, for any blocks the    *)
(* daemon writes: what __ffs_data_got_descs accepts, and what two walks    *)
(* over the same bytes make of each other.  The walks of the models are    *)
(* recursive functions over an interval; they are met here as sequences of *)
(* states, each a step from the one before (Walk), and what holds along    *)
(* one is proved by induction over the interval (UpTo).                    *)
(***************************************************************************)
EXTENDS FfsDescs, FfsOsDescs, FiniteSetTheorems, SequenceTheorems, NaturalsInduction,
        WellFoundedInduction, TLAPS

-----------------------------------------------------------------------------
(* Walks.                                                                  *)

(* A set of numbers has a least one.                                       *)
LEMMA LeastNumber ==
  ASSUME NEW S \in SUBSET Nat, S # {}
  PROVE  \E k \in S : \A m \in S : k <= m
<1> DEFINE R == {ss \in Nat \X Nat : ss[1] < ss[2]}
<1>1. IsWellFoundedOn(R, Nat)
  BY NatLessThanWellFounded, Zenon DEF OpToRel
<1>2. \A m, k \in S : m < k => <<m, k>> \in R
  OBVIOUS
<1> HIDE DEF R
<1>3. PICK k \in S : \A m \in S : ~ (<<m, k>> \in R)
  BY <1>1, WFMin
<1>4. \A m \in S : ~(m < k)
  BY <1>2, <1>3
<1>5. \A m \in S : m \in Nat /\ k \in Nat
  OBVIOUS
<1> QED
  BY <1>4, <1>5

(* Induction over an interval: T is the set of the numbers at which what   *)
(* is to be proved holds.                                                  *)
LEMMA UpTo ==
  ASSUME NEW n \in Nat, NEW T, 0 \in T, \A k \in 1..n : k - 1 \in T => k \in T
  PROVE  \A k \in 0..n : k \in T
<1> DEFINE Missing == {k \in 0..n : k \notin T}
<1>1. SUFFICES ASSUME Missing # {} PROVE FALSE
  OBVIOUS
<1>2. Missing \in SUBSET Nat
  OBVIOUS
<1>3. PICK k \in Missing : \A m \in Missing : k <= m
  BY <1>1, <1>2, LeastNumber
<1>4. k \in 1..n /\ k - 1 \notin Missing /\ k - 1 \in 0..n
  BY <1>3
<1> QED
  BY <1>3, <1>4

(* A walk of n steps: the states before the first step and after each.     *)
Walk(g, n, a, F) ==
  g = [k \in 0..n |-> IF k = 0 THEN a ELSE F[<<k, g[k - 1]>>]]

(* There is one, whatever the steps do.                                    *)
LEMMA WalkExists == ASSUME NEW n \in Nat, NEW a, NEW F PROVE \E g : Walk(g, n, a, F)
<1> DEFINE T == {k \in 0..n : \E g : Walk(g, k, a, F)}
<1>1. 0 \in T
  <2>1. Walk([k \in 0..0 |-> a], 0, a, F)
    BY DEF Walk
  <2> QED
    BY <2>1
<1>2. ASSUME NEW k \in 1..n, k - 1 \in T PROVE k \in T
  <2>1. PICK g : Walk(g, k - 1, a, F)
    BY <1>2
  <2> DEFINE h == [j \in 0..k |-> IF j = k THEN F[<<k, g[k - 1]>>] ELSE g[j]]
  <2>2. \A j \in 0..(k - 1) : g[j] = IF j = 0 THEN a ELSE F[<<j, g[j - 1]>>]
    BY <2>1 DEF Walk
  <2>3. ASSUME NEW j \in 0..k PROVE h[j] = IF j = 0 THEN a ELSE F[<<j, h[j - 1]>>]
    <3>1. CASE j = k
      <4>1. h[j] = F[<<k, g[k - 1]>>] /\ h[k - 1] = g[k - 1]
        BY <3>1
      <4> QED
        BY <3>1, <4>1
    <3>2. CASE j \in 0..(k - 1)
      <4>1. h[j] = g[j] /\ (j # 0 => h[j - 1] = g[j - 1])
        BY <3>2
      <4> QED
        BY <2>2, <3>2, <4>1
    <3> QED
      BY <3>1, <3>2
  <2>4. Walk(h, k, a, F)
    BY <2>3 DEF Walk
  <2> HIDE DEF h
  <2> QED
    BY <2>4
<1> HIDE DEF T
<1>3. \A k \in 0..n : k \in T
  BY <1>1, <1>2, UpTo, Zenon
<1> QED
  BY <1>3 DEF T

(* If the steps stay within S, so does the walk.                           *)
LEMMA WalkWithin ==
  ASSUME NEW n \in Nat, NEW S, NEW a \in S, NEW F \in [(1..n) \X S -> S]
  PROVE  \E g \in [0..n -> S] : Walk(g, n, a, F)
<1>1. PICK g : Walk(g, n, a, F)
  BY WalkExists
<1>2. g[0] = a /\ \A k \in 1..n : g[k] = F[<<k, g[k - 1]>>]
  BY <1>1 DEF Walk
<1> DEFINE T == {k \in 0..n : g[k] \in S}
<1>3. 0 \in T /\ \A k \in 1..n : k - 1 \in T => k \in T
  <2>1. ASSUME NEW k \in 1..n, NEW s \in S PROVE F[<<k, s>>] \in S
    <3>1. <<k, s>> \in (1..n) \X S
      OBVIOUS
    <3> QED
      BY <3>1
  <2>2. ASSUME NEW k \in 1..n, k - 1 \in T PROVE k \in T
    <3>1. g[k - 1] \in S /\ k \in 0..n
      BY <2>2
    <3>2. F[<<k, g[k - 1]>>] \in S
      BY <2>1, <3>1
    <3> QED
      BY <1>2, <3>1, <3>2
  <2>3. 0 \in T
    BY <1>2
  <2> HIDE DEF T
  <2> QED
    BY <2>2, <2>3
<1> HIDE DEF T
<1>4. \A k \in 0..n : k \in T
  BY <1>3, UpTo, Zenon
<1>5. \A k \in 0..n : g[k] \in S
  BY <1>4 DEF T
<1>6. g \in [0..n -> S]
  BY <1>1, <1>5 DEF Walk
<1> QED
  BY <1>1, <1>6

(* If each step leads from its set of states to the next, so does the walk. *)
LEMMA WalkThrough ==
  ASSUME NEW n \in Nat, NEW S, NEW a \in S[0], NEW F,
         \A k \in 1..n : \A w \in S[k - 1] : F[<<k, w>>] \in S[k]
  PROVE  \E g : Walk(g, n, a, F) /\ \A k \in 0..n : g[k] \in S[k]
<1>1. PICK g : Walk(g, n, a, F)
  BY WalkExists
<1>2. g[0] = a /\ \A k \in 1..n : g[k] = F[<<k, g[k - 1]>>]
  BY <1>1 DEF Walk
<1> DEFINE T == {k \in 0..n : g[k] \in S[k]}
<1>3. 0 \in T
  BY <1>2
<1>4. ASSUME NEW k \in 1..n, k - 1 \in T PROVE k \in T
  <2>1. g[k - 1] \in S[k - 1] /\ k \in 0..n
    BY <1>4
  <2>2. F[<<k, g[k - 1]>>] \in S[k]
    BY <2>1
  <2> QED
    BY <1>2, <2>1, <2>2
<1> HIDE DEF T
<1>5. \A k \in 0..n : k \in T
  BY <1>3, <1>4, UpTo, Zenon
<1> QED
  BY <1>1, <1>5 DEF T

-----------------------------------------------------------------------------
(* The descriptors of one speed.                                           *)

Accs == [ok : BOOLEAN, pos : Nat, ifs : Nat, eps : 0..(MaxEps - 1),
         eps_count : 0..(MaxEps - 1), interfaces_count : Nat, strings_count : Nat,
         addrmap : [1..(MaxEps - 1) -> Nat]]

\* One step of ffs_do_descs.
NextDesc(w, data) ==
  IF ~w.ok \/ w.pos = Len(data) THEN [w EXCEPT !.ok = FALSE] ELSE SingleDesc(w, data[w.pos + 1])

\* What no step changes, not even one that fails.
Steady(a, w) ==
  /\ w.eps_count = a.eps_count /\ w.interfaces_count = a.interfaces_count
  /\ w.strings_count >= a.strings_count
  /\ ~First(a) => w.addrmap = a.addrmap

\* A step from w to v over the descriptor met, when it fails at nothing.
Met(w, v, data) ==
  \E d \in Descs :
    /\ d = data[w.pos + 1]
    /\ \/ d.type = "empty" /\ v = w
       \/ /\ d.type = "interface" /\ v.pos = w.pos + 1
          /\ v.ifs = Larger(w.ifs, d.num + 1) /\ v.strings_count >= d.str
          /\ v.eps = w.eps /\ v.addrmap = w.addrmap
       \/ /\ d.type \in {"association", "other"} /\ v.pos = w.pos + 1
          /\ d.type = "association" => v.strings_count >= d.str
          /\ v.ifs = w.ifs /\ v.eps = w.eps /\ v.addrmap = w.addrmap
       \/ /\ d.type = "endpoint" /\ v.pos = w.pos + 1
          /\ v.ifs = w.ifs /\ v.eps = w.eps + 1 /\ v.eps \in 1..(MaxEps - 1)
          /\ v.addrmap = [w.addrmap EXCEPT ![w.eps + 1] = d.addr]

(* What a step makes of the descriptor it meets.                           *)
LEMMA NextDescIs ==
  ASSUME NEW data \in Seq(Descs), NEW w \in Accs, w.pos <= Len(data), NEW v,
         v = NextDesc(w, data)
  PROVE  /\ v \in Accs /\ v.pos <= Len(data) /\ Steady(w, v)
         /\ v.ok => /\ w.ok /\ w.pos + 1 \in 1..Len(data)
                    /\ Met(w, v, data)
<1>0. ASSUME NEW n \in Nat, n <= Len(data),
             v = [[w EXCEPT !.ok = FALSE] EXCEPT !.pos = n] \/ v = [w EXCEPT !.ok = FALSE]
      PROVE  v \in Accs /\ v.pos <= Len(data) /\ Steady(w, v) /\ ~v.ok
  <2>1. /\ v \in Accs /\ ~v.ok /\ v.pos \in {n, w.pos} /\ v.eps_count = w.eps_count
        /\ v.interfaces_count = w.interfaces_count /\ v.addrmap = w.addrmap
        /\ v.strings_count = w.strings_count /\ w.strings_count \in Nat
    BY <1>0 DEF Accs
  <2> QED
    BY <1>0, <2>1 DEF Steady
<1>1. CASE ~w.ok \/ w.pos = Len(data)
  <2>1. v = [w EXCEPT !.ok = FALSE] /\ w.pos \in Nat
    BY <1>1 DEF NextDesc, Accs
  <2> QED
    BY <1>0, <2>1
<1>2. CASE w.ok /\ w.pos # Len(data)
  <2>0. w.pos \in Nat /\ Len(data) \in Nat /\ w.pos + 1 \in 1..Len(data)
    BY <1>2 DEF Accs
  <2>1. PICK d \in Descs : d = data[w.pos + 1]
    BY <2>0
  <2>2. v = SingleDesc(w, d)
    BY <1>2, <2>1 DEF NextDesc
  <2>3. w.pos + 1 \in Nat /\ d.num + 1 \in Nat /\ w.eps + 1 \in Nat
    BY DEF Accs, Descs
  <2>4. PICK n \in Nat : n = w.pos + 1
    BY <2>3
  <2>5. CASE d.type = "interface"
    <3>1. PICK i \in Nat : i = Larger(w.ifs, d.num + 1)
      BY <2>3 DEF Larger, Accs
    <3>2. PICK c \in Nat : c = Larger(w.strings_count, d.str)
      BY DEF Larger, Accs, Descs
    <3>3. c >= w.strings_count /\ c >= d.str
      BY <3>2 DEF Larger, Accs, Descs
    <3>4. v = [w EXCEPT !.pos = n, !.ifs = i, !.strings_count = c]
      BY <2>2, <2>4, <2>5, <3>1, <3>2 DEF SingleDesc
    <3>5. v \in Accs /\ v.pos = n /\ v.ifs = i /\ v.strings_count = c /\ v.eps = w.eps
          /\ v.addrmap = w.addrmap /\ v.eps_count = w.eps_count
          /\ v.interfaces_count = w.interfaces_count /\ v.ok = w.ok
      BY <3>4 DEF Accs
    <3> QED
      BY <1>2, <2>0, <2>1, <2>4, <2>5, <3>1, <3>3, <3>5 DEF Steady, Met
  <2>6. CASE d.type = "endpoint"
    <3> DEFINE bad == w.eps + 1 >= MaxEps \/ (~First(w) /\ w.addrmap[w.eps + 1] # d.addr)
    <3>1. CASE bad
      <4>1. v = [[w EXCEPT !.ok = FALSE] EXCEPT !.pos = n]
        BY <2>2, <2>4, <2>6, <3>1 DEF SingleDesc, Endpoint
      <4> QED
        <5>1. n <= Len(data)
          BY <2>0, <2>4
        <5> QED
          BY <1>0, <4>1, <5>1
    <3>2. CASE ~bad
      <4>1. PICK e \in Nat : e = w.eps + 1
        BY <2>3
      <4>2. e \in 1..(MaxEps - 1)
        BY <3>2, <4>1, DescsAssumption DEF Accs
      <4>3. PICK map \in [1..(MaxEps - 1) -> Nat] : map = [w.addrmap EXCEPT ![e] = d.addr]
        BY DEF Accs, Descs
      <4>4. ~First(w) => map = w.addrmap
        BY <3>2, <4>1, <4>3 DEF Accs
      <4>5. v = [[w EXCEPT !.eps = e, !.addrmap = map] EXCEPT !.pos = n]
        BY <2>2, <2>4, <2>6, <3>2, <4>1, <4>3 DEF SingleDesc, Endpoint
      <4>6. v \in Accs /\ v.pos = n /\ v.ifs = w.ifs /\ v.strings_count = w.strings_count
            /\ v.eps = e /\ v.addrmap = map /\ v.eps_count = w.eps_count
            /\ v.interfaces_count = w.interfaces_count /\ v.ok = w.ok
            /\ w.strings_count \in Nat
        <5>1. e \in 0..(MaxEps - 1)
          BY <4>2
        <5> QED
          BY <4>3, <4>5, <5>1 DEF Accs
      <4>7. v.addrmap = [w.addrmap EXCEPT ![w.eps + 1] = d.addr]
        BY <4>1, <4>3, <4>6
      <4>8. v.pos = w.pos + 1 /\ v.eps = w.eps + 1 /\ v.eps \in 1..(MaxEps - 1)
            /\ v.pos <= Len(data)
        BY <2>0, <2>4, <4>1, <4>2, <4>6
      <4>9. Steady(w, v)
        BY <4>4, <4>6 DEF Steady
      <4> QED
        BY <1>2, <2>0, <2>1, <2>6, <4>6, <4>7, <4>8, <4>9 DEF Met
    <3> QED
      BY <3>1, <3>2
  <2>7. CASE d.type = "other"
    <3>1. v = [w EXCEPT !.pos = n]
      BY <2>2, <2>4, <2>7 DEF SingleDesc
    <3>2. v \in Accs /\ v.pos = n /\ v.ifs = w.ifs /\ v.strings_count = w.strings_count
          /\ v.eps = w.eps /\ v.addrmap = w.addrmap /\ v.eps_count = w.eps_count
          /\ v.interfaces_count = w.interfaces_count /\ v.ok = w.ok
          /\ w.strings_count \in Nat
      BY <3>1 DEF Accs
    <3> QED
      BY <1>2, <2>0, <2>1, <2>4, <2>7, <3>2 DEF Steady, Met
  <2>a. CASE d.type = "association"
    <3>1. PICK c \in Nat : c = Larger(w.strings_count, d.str)
      BY DEF Larger, Accs, Descs
    <3>2. c >= w.strings_count /\ c >= d.str
      BY <3>1 DEF Larger, Accs, Descs
    <3>3. v = [w EXCEPT !.pos = n, !.strings_count = c]
      BY <2>2, <2>4, <2>a, <3>1 DEF SingleDesc
    <3>4. v \in Accs /\ v.pos = n /\ v.ifs = w.ifs /\ v.strings_count = c
          /\ v.eps = w.eps /\ v.addrmap = w.addrmap /\ v.eps_count = w.eps_count
          /\ v.interfaces_count = w.interfaces_count /\ v.ok = w.ok
      BY <3>3 DEF Accs
    <3> QED
      BY <1>2, <2>0, <2>1, <2>4, <2>a, <3>2, <3>4 DEF Steady, Met
  <2>8. CASE d.type = "empty"
    <3>1. v = w /\ w.strings_count \in Nat
      BY <2>2, <2>8 DEF SingleDesc, Accs
    <3> QED
      BY <1>2, <2>0, <2>1, <2>8, <3>1 DEF Steady, Met
  <2>9. CASE d.type = "invalid"
    <3>1. v = [w EXCEPT !.ok = FALSE]
      BY <2>2, <2>9 DEF SingleDesc
    <3> QED
      BY <1>0, <2>0, <3>1
  <2> QED
    BY <2>5, <2>6, <2>7, <2>8, <2>9, <2>a DEF Descs
<1> QED
  BY <1>1, <1>2

\* The endpoints, the interfaces and what may name a string among the
\* descriptors after lo, up to hi.
Eps(data, lo, hi) == {p \in (lo + 1)..hi : data[p].type = "endpoint"}
Ifs(data, lo, hi) == {p \in (lo + 1)..hi : data[p].type = "interface"}
Strs(data, lo, hi) == {p \in (lo + 1)..hi : data[p].type \in {"interface", "association"}}
Nth(data, lo, p)  == Cardinality(Eps(data, lo, p))

\* An empty descriptor is met again and again: the walk never reaches the end.
Stuck(w, data) == w.pos < Len(data) /\ data[w.pos + 1].type = "empty"

\* What a walk from lo to hi has counted.
Counted(w, data, lo, hi) ==
  /\ w.eps = Nth(data, lo, hi)
  /\ \A p \in Eps(data, lo, hi) :
       Nth(data, lo, p) \in 1..w.eps /\ w.addrmap[Nth(data, lo, p)] = data[p].addr
  /\ \A p \in Ifs(data, lo, hi) : data[p].num < w.ifs
  /\ \A p \in Strs(data, lo, hi) : data[p].str <= w.strings_count
  /\ w.ifs > 0 => \E p \in Ifs(data, lo, hi) : data[p].num = w.ifs - 1

(* How the endpoints and the interfaces grow by one descriptor.            *)
LEMMA OneMore ==
  ASSUME NEW data, NEW lo \in Nat, NEW hi \in Nat, lo <= hi
  PROVE  /\ IsFiniteSet(Eps(data, lo, hi)) /\ Nth(data, lo, hi) \in Nat
         /\ data[hi + 1].type = "endpoint" =>
              /\ \A p : p \in Eps(data, lo, hi + 1) <=> p \in Eps(data, lo, hi) \/ p = hi + 1
              /\ \A p : p \in Ifs(data, lo, hi + 1) <=> p \in Ifs(data, lo, hi)
              /\ Nth(data, lo, hi + 1) = Nth(data, lo, hi) + 1
         /\ data[hi + 1].type = "interface" =>
              /\ \A p : p \in Eps(data, lo, hi + 1) <=> p \in Eps(data, lo, hi)
              /\ \A p : p \in Ifs(data, lo, hi + 1) <=> p \in Ifs(data, lo, hi) \/ p = hi + 1
              /\ Nth(data, lo, hi + 1) = Nth(data, lo, hi)
         /\ data[hi + 1].type # "endpoint" /\ data[hi + 1].type # "interface" =>
              /\ \A p : p \in Eps(data, lo, hi + 1) <=> p \in Eps(data, lo, hi)
              /\ \A p : p \in Ifs(data, lo, hi + 1) <=> p \in Ifs(data, lo, hi)
              /\ Nth(data, lo, hi + 1) = Nth(data, lo, hi)
<1>1. IsFiniteSet(Eps(data, lo, hi)) /\ Nth(data, lo, hi) \in Nat
  <2>1. IsFiniteSet((lo + 1)..hi) /\ Eps(data, lo, hi) \subseteq (lo + 1)..hi
    BY FS_Interval DEF Eps
  <2> QED
    BY <2>1, FS_Subset, FS_CardinalityType DEF Nth
<1>2. \A p \in (lo + 1)..(hi + 1) : p \in (lo + 1)..hi \/ p = hi + 1
  OBVIOUS
<1>3. hi + 1 \in (lo + 1)..(hi + 1) /\ hi + 1 \notin (lo + 1)..hi
      /\ (lo + 1)..hi \subseteq (lo + 1)..(hi + 1)
  OBVIOUS
<1>4. ASSUME data[hi + 1].type = "endpoint"
      PROVE  Nth(data, lo, hi + 1) = Nth(data, lo, hi) + 1
  <2>1. Eps(data, lo, hi + 1) = Eps(data, lo, hi) \cup {hi + 1} /\ hi + 1 \notin Eps(data, lo, hi)
    BY <1>2, <1>3, <1>4 DEF Eps
  <2> QED
    BY <1>1, <2>1, FS_AddElement DEF Nth
<1>5. ASSUME data[hi + 1].type # "endpoint"
      PROVE  Nth(data, lo, hi + 1) = Nth(data, lo, hi)
  <2>1. Eps(data, lo, hi + 1) = Eps(data, lo, hi)
    BY <1>2, <1>3, <1>5 DEF Eps
  <2> QED
    BY <2>1 DEF Nth
<1>6. \A p : p \in (lo + 1)..(hi + 1) <=> p \in (lo + 1)..hi \/ p = hi + 1
  BY <1>2, <1>3
<1>7. \A p : /\ p \in Eps(data, lo, hi + 1) <=>
                  p \in Eps(data, lo, hi) \/ (p = hi + 1 /\ data[p].type = "endpoint")
             /\ p \in Ifs(data, lo, hi + 1) <=>
                  p \in Ifs(data, lo, hi) \/ (p = hi + 1 /\ data[p].type = "interface")
  BY <1>6 DEF Eps, Ifs
<1> QED
  BY <1>1, <1>4, <1>5, <1>7

(* So does what may name a string.                                         *)
LEMMA OneMoreNamed ==
  ASSUME NEW data, NEW lo \in Nat, NEW hi \in Nat, lo <= hi, NEW p \in Strs(data, lo, hi + 1)
  PROVE  \/ p \in Strs(data, lo, hi)
         \/ p = hi + 1 /\ data[p].type \in {"interface", "association"}
<1>1. p \in (lo + 1)..(hi + 1) /\ data[p].type \in {"interface", "association"}
  BY DEF Strs
<1>2. p \in (lo + 1)..hi \/ p = hi + 1
  BY <1>1
<1> QED
  BY <1>1, <1>2 DEF Strs

(* Counting goes on with a descriptor that is not empty.                   *)
LEMMA CountedStep ==
  ASSUME NEW data \in Seq(Descs), NEW w \in Accs, NEW lo \in Nat, lo <= w.pos,
         w.pos <= Len(data), NEW v, v = NextDesc(w, data), v.ok, ~Stuck(w, data),
         Counted(w, data, lo, w.pos)
  PROVE  v.pos = w.pos + 1 /\ Counted(v, data, lo, v.pos)
<1>0. Met(w, v, data)
  BY NextDescIs
<1>1. PICK d \in Descs :
        /\ d = data[w.pos + 1]
        /\ \/ d.type = "empty" /\ v = w
           \/ /\ d.type = "interface" /\ v.pos = w.pos + 1
              /\ v.ifs = Larger(w.ifs, d.num + 1) /\ v.strings_count >= d.str
              /\ v.eps = w.eps /\ v.addrmap = w.addrmap
           \/ /\ d.type \in {"association", "other"} /\ v.pos = w.pos + 1
              /\ d.type = "association" => v.strings_count >= d.str
              /\ v.ifs = w.ifs /\ v.eps = w.eps /\ v.addrmap = w.addrmap
           \/ /\ d.type = "endpoint" /\ v.pos = w.pos + 1
              /\ v.ifs = w.ifs /\ v.eps = w.eps + 1 /\ v.eps \in 1..(MaxEps - 1)
              /\ v.addrmap = [w.addrmap EXCEPT ![w.eps + 1] = d.addr]
  BY <1>0, Zenon DEF Met
<1>2. v.strings_count >= w.strings_count /\ v \in Accs /\ w.pos + 1 \in 1..Len(data)
  BY NextDescIs DEF Steady
<1>3. d.type # "empty"
  <2>1. w.pos < Len(data)
    BY <1>2 DEF Accs
  <2> QED
    BY <1>1, <2>1 DEF Stuck
<1>4. PICK hi \in Nat : hi = w.pos /\ lo <= hi
  BY DEF Accs
<1>a. v.pos = hi + 1 /\ hi + 1 \in 1..Len(data) /\ d = data[hi + 1] /\ Len(data) \in Nat
  BY <1>1, <1>2, <1>3, <1>4
<1>5. /\ w.ifs \in Nat /\ v.ifs \in Nat /\ w.eps \in Nat /\ v.eps \in Nat
      /\ w.strings_count \in Nat /\ v.strings_count \in Nat /\ d.num \in Nat /\ d.str \in Nat
  BY <1>2 DEF Accs, Descs
<1>6. \A p \in (lo + 1)..hi : data[p].num \in Nat /\ data[p].str \in Nat
  <2>1. ASSUME NEW p \in (lo + 1)..hi PROVE data[p].num \in Nat /\ data[p].str \in Nat
    <3>1. p \in 1..Len(data)
      BY <1>4, <1>a
    <3>2. data[p] \in Descs
      BY <3>1
    <3> QED
      BY <3>2 DEF Descs
  <2> QED
    BY <2>1
<1>b. /\ w.eps = Nth(data, lo, hi)
      /\ \A p \in Eps(data, lo, hi) :
           Nth(data, lo, p) \in 1..w.eps /\ w.addrmap[Nth(data, lo, p)] = data[p].addr
      /\ \A p \in Ifs(data, lo, hi) : p \in (lo + 1)..hi /\ data[p].num < w.ifs
      /\ \A p \in Strs(data, lo, hi) : p \in (lo + 1)..hi /\ data[p].str <= w.strings_count
      /\ w.ifs > 0 => \E p \in Ifs(data, lo, hi) : data[p].num = w.ifs - 1
  BY <1>4 DEF Counted, Ifs, Strs
<1>c. ASSUME NEW p \in Strs(data, lo, hi + 1) PROVE data[p].str <= v.strings_count
  <2>1. CASE p \in Strs(data, lo, hi)
    BY <1>2, <1>5, <1>6, <1>b, <2>1
  <2>2. CASE p = hi + 1 /\ data[p].type \in {"interface", "association"}
    <3>0. d = data[p] /\ d.type \in {"interface", "association"}
      BY <1>a, <2>2
    <3>1. v.strings_count >= d.str /\ data[p].str = d.str
      BY <1>1, <3>0
    <3> QED
      BY <1>5, <3>1
  <2>3. \/ p \in Strs(data, lo, hi)
        \/ p = hi + 1 /\ data[p].type \in {"interface", "association"}
    <3>1. lo <= hi
      BY <1>4
    <3> QED
      BY ONLY <1>c, <3>1, lo \in Nat, hi \in Nat, OneMoreNamed
  <2> QED
    BY <2>1, <2>2, <2>3
<1>e. data[hi + 1].type = d.type
  BY <1>a
<1>d. SUFFICES Counted(v, data, lo, hi + 1)
  BY <1>a, <1>4
<1>7. CASE d.type = "interface"
  <2>1. /\ \A p : p \in Eps(data, lo, hi + 1) <=> p \in Eps(data, lo, hi)
        /\ \A p : p \in Ifs(data, lo, hi + 1) <=> p \in Ifs(data, lo, hi) \/ p = hi + 1
        /\ Nth(data, lo, hi + 1) = Nth(data, lo, hi)
    <3>1. data[hi + 1].type = "interface"
      BY <1>7, <1>e
    <3> QED
      BY <1>4, <3>1, OneMore
  <2>2. /\ v.ifs = Larger(w.ifs, d.num + 1) /\ v.strings_count >= d.str
        /\ v.eps = w.eps /\ v.addrmap = w.addrmap
    BY <1>1, <1>7
  <2>3. /\ v.ifs >= w.ifs /\ d.num < v.ifs /\ v.ifs \in {w.ifs, d.num + 1}
    BY <1>5, <2>2 DEF Larger
  <2>4. ASSUME NEW p \in Ifs(data, lo, hi + 1) PROVE data[p].num < v.ifs
    <3>1. CASE p = hi + 1
      BY <1>5, <1>a, <2>2, <2>3, <3>1
    <3>2. CASE p \in Ifs(data, lo, hi)
      <4>1. data[p].num < w.ifs /\ data[p].num \in Nat
        BY <1>6, <1>b, <3>2
      <4> QED
        BY <1>5, <2>3, <4>1
    <3> QED
      BY <2>1, <2>4, <3>1, <3>2
  <2>5. ASSUME v.ifs > 0 PROVE \E p \in Ifs(data, lo, hi + 1) : data[p].num = v.ifs - 1
    <3>1. CASE v.ifs = w.ifs
      BY <1>b, <2>1, <2>5, <3>1
    <3>2. CASE v.ifs = d.num + 1
      BY <1>5, <1>a, <2>1, <3>2
    <3> QED
      BY <2>3, <3>1, <3>2
  <2>6. v.eps = Nth(data, lo, hi + 1)
    BY <1>b, <2>1, <2>2
  <2> QED
    BY <1>b, <1>c, <2>1, <2>2, <2>4, <2>5, <2>6 DEF Counted
<1>8. CASE d.type \in {"association", "other"}
  <2>1. /\ \A p : p \in Eps(data, lo, hi + 1) <=> p \in Eps(data, lo, hi)
        /\ \A p : p \in Ifs(data, lo, hi + 1) <=> p \in Ifs(data, lo, hi)
        /\ Nth(data, lo, hi + 1) = Nth(data, lo, hi)
    <3>1. data[hi + 1].type # "endpoint" /\ data[hi + 1].type # "interface"
      BY <1>8, <1>e
    <3> QED
      BY <1>4, <3>1, OneMore
  <2>2. v.ifs = w.ifs /\ v.eps = w.eps /\ v.addrmap = w.addrmap
    BY <1>1, <1>8
  <2>3. v.eps = Nth(data, lo, hi + 1)
    BY <1>b, <2>1, <2>2
  <2> QED
    BY <1>b, <1>c, <2>1, <2>2, <2>3 DEF Counted
<1>9. CASE d.type = "endpoint"
  <2>1. /\ \A p : p \in Eps(data, lo, hi + 1) <=> p \in Eps(data, lo, hi) \/ p = hi + 1
        /\ \A p : p \in Ifs(data, lo, hi + 1) <=> p \in Ifs(data, lo, hi)
        /\ Nth(data, lo, hi + 1) = Nth(data, lo, hi) + 1
    <3>1. data[hi + 1].type = "endpoint"
      BY <1>9, <1>e
    <3> QED
      BY <1>4, <3>1, OneMore
  <2>2. /\ v.ifs = w.ifs /\ v.eps = w.eps + 1 /\ v.eps \in 1..(MaxEps - 1)
        /\ v.addrmap = [w.addrmap EXCEPT ![w.eps + 1] = d.addr]
    BY <1>1, <1>9
  <2>3. v.eps = Nth(data, lo, hi + 1)
    BY <1>b, <2>1, <2>2
  <2>4. ASSUME NEW p \in Eps(data, lo, hi + 1)
        PROVE  Nth(data, lo, p) \in 1..v.eps /\ v.addrmap[Nth(data, lo, p)] = data[p].addr
    <3>1. w.addrmap \in [1..(MaxEps - 1) -> Nat]
      BY DEF Accs
    <3>2. CASE p = hi + 1
      <4>1. Nth(data, lo, p) = w.eps + 1
        BY <2>2, <2>3, <3>2
      <4>2. w.eps + 1 \in 1..(MaxEps - 1) /\ w.eps + 1 \in 1..v.eps
        BY <1>5, <2>2
      <4> QED
        <5>1. v.addrmap[w.eps + 1] = d.addr
          BY <2>2, <3>1, <4>2
        <5> QED
          BY <1>a, <3>2, <4>1, <4>2, <5>1
    <3>3. CASE p \in Eps(data, lo, hi)
      <4>1. Nth(data, lo, p) \in 1..w.eps /\ w.addrmap[Nth(data, lo, p)] = data[p].addr
        BY <1>b, <3>3
      <4>2. \A n \in 1..w.eps : n \in 1..v.eps /\ n \in 1..(MaxEps - 1) /\ n # w.eps + 1
        BY <1>5, <2>2, DescsAssumption
      <4>3. v.addrmap[Nth(data, lo, p)] = w.addrmap[Nth(data, lo, p)]
        BY <2>2, <3>1, <4>1, <4>2
      <4> QED
        BY <4>1, <4>2, <4>3
    <3> QED
      BY <2>1, <2>4, <3>2, <3>3
  <2> QED
    BY <1>b, <1>c, <2>1, <2>2, <2>3, <2>4 DEF Counted
<1> QED
  BY <1>1, <1>3, <1>7, <1>8, <1>9

\* What holds along a walk of k descriptors from a.
Along(a, w, data, k) ==
  /\ Steady(a, w)
  /\ w.ok => a.ok
  /\ w.ok /\ Stuck(a, data) => Stuck(w, data)
  /\ w.ok => \/ Stuck(w, data)
             \/ w.pos = a.pos + k /\ Counted(w, data, a.pos, w.pos)

(* A walk that fails at nothing has met every descriptor once and counted  *)
(* it, or is stuck before an empty one.                                    *)
LEMMA DescsAlong ==
  ASSUME NEW data \in Seq(Descs), NEW count \in Nat, NEW a \in Accs, a.pos <= Len(data),
         a.ifs = 0, a.eps = 0
  PROVE  /\ DoDescs(a, count, data) \in Accs /\ DoDescs(a, count, data).pos <= Len(data)
         /\ Along(a, DoDescs(a, count, data), data, count)
<1> DEFINE S == {w \in Accs : w.pos <= Len(data)}
           F == [p \in (1..count) \X S |-> NextDesc(p[2], data)]
<1>1. F \in [(1..count) \X S -> S] /\ a \in S
  <2>1. ASSUME NEW w \in S PROVE NextDesc(w, data) \in S
    BY <2>1, NextDescIs
  <2> QED
    BY <2>1
<1>2. PICK h \in [0..count -> S] : Walk(h, count, a, F)
  <2> HIDE DEF S, F
  <2> QED
    BY <1>1, WalkWithin
<1> DEFINE Is(g) == g = [n \in 0..count |->
                           IF n = 0 THEN a
                           ELSE IF ~g[n - 1].ok \/ g[n - 1].pos = Len(data)
                           THEN [g[n - 1] EXCEPT !.ok = FALSE]
                           ELSE SingleDesc(g[n - 1], data[g[n - 1].pos + 1])]
<1>3. \E g : Is(g)
  <2>1. ASSUME NEW n \in 0..count
        PROVE  h[n] = IF n = 0 THEN a
                      ELSE IF ~h[n - 1].ok \/ h[n - 1].pos = Len(data)
                           THEN [h[n - 1] EXCEPT !.ok = FALSE]
                           ELSE SingleDesc(h[n - 1], data[h[n - 1].pos + 1])
    <3>1. CASE n = 0
      BY <1>2, <3>1 DEF Walk
    <3>2. CASE n \in 1..count
      <4>1. h[n] = F[<<n, h[n - 1]>>] /\ h[n - 1] \in S
        <5> HIDE DEF S, F
        <5>1. n \in 0..count /\ n # 0 /\ n - 1 \in 0..count
          BY <3>2
        <5> QED
          BY <1>2, <5>1 DEF Walk
      <4>2. F[<<n, h[n - 1]>>] = NextDesc(h[n - 1], data)
        <5> HIDE DEF S
        <5>1. <<n, h[n - 1]>> \in (1..count) \X S
          BY <3>2, <4>1
        <5> QED
          BY <5>1
      <4> QED
        BY <3>2, <4>1, <4>2 DEF NextDesc
    <3> QED
      BY <3>1, <3>2
  <2>2. Is(h)
    BY <2>1
  <2> HIDE DEF Is
  <2> QED
    BY <2>2
<1> DEFINE g == CHOOSE g : Is(g)
<1>4. Is(g)
  BY <1>3, Zenon
<1>5. DoDescs(a, count, data) = g[count]
  BY DEF DoDescs
<1> HIDE DEF g
<1>6. g[0] = a /\ \A n \in 1..count : g[n] = NextDesc(g[n - 1], data)
  <2>1. g[0] = a
    BY <1>4
  <2>2. ASSUME NEW n \in 1..count PROVE g[n] = NextDesc(g[n - 1], data)
    <3>1. n \in 0..count /\ n # 0
      OBVIOUS
    <3> QED
      BY <1>4, <3>1 DEF NextDesc
  <2> QED
    BY <2>1, <2>2
<1> DEFINE T == {k \in 0..count : g[k] \in S /\ Along(a, g[k], data, k)}
<1>7. 0 \in T
  <2>1. Counted(a, data, a.pos, a.pos) /\ Steady(a, a) /\ a.pos + 0 = a.pos
    <3>1. a.pos \in Nat /\ a.strings_count \in Nat
      BY DEF Accs
    <3>2. (a.pos + 1)..a.pos = {}
      BY <3>1
    <3>3. Eps(data, a.pos, a.pos) = {} /\ Ifs(data, a.pos, a.pos) = {}
          /\ Strs(data, a.pos, a.pos) = {}
      BY <3>2 DEF Eps, Ifs, Strs
    <3>4. Nth(data, a.pos, a.pos) = 0
      BY <3>3, FS_EmptySet DEF Nth
    <3> QED
      BY <3>1, <3>3, <3>4 DEF Counted, Steady
  <2> QED
    BY <1>1, <1>6, <2>1 DEF Along
<1>8. ASSUME NEW k \in 1..count, k - 1 \in T PROVE k \in T
  <2>1. PICK w \in S : w = g[k - 1] /\ Along(a, w, data, k - 1)
    BY <1>8
  <2>2. PICK v : v = g[k] /\ v = NextDesc(w, data)
    BY <1>6, <2>1
  <2>3. /\ w \in Accs /\ w.pos <= Len(data) /\ v \in Accs /\ v.pos <= Len(data) /\ Steady(w, v)
        /\ v.ok => w.ok /\ w.pos + 1 \in 1..Len(data) /\ Met(w, v, data)
    <3>1. w \in Accs /\ w.pos <= Len(data)
      OBVIOUS
    <3> HIDE DEF S
    <3> QED
      BY <2>2, <3>1, NextDescIs
  <2>4. Steady(a, v)
    <3>1. a.strings_count \in Nat /\ w.strings_count \in Nat /\ v.strings_count \in Nat
      BY <2>3 DEF Accs
    <3>2. First(w) <=> First(a)
      BY <2>1 DEF Along, Steady, First
    <3> QED
      BY <2>1, <2>3, <3>1, <3>2 DEF Along, Steady
  <2>5. ASSUME v.ok, Stuck(w, data) PROVE Stuck(v, data)
    <3>1. PICK d \in Descs : d = data[w.pos + 1] /\ (d.type = "empty" => v = w)
      BY <2>3, <2>5 DEF Met
    <3> QED
      BY <2>5, <3>1 DEF Stuck
  <2>6. ASSUME v.ok, ~Stuck(w, data)
        PROVE  v.pos = a.pos + k /\ Counted(v, data, a.pos, v.pos)
    <3>1. w.pos = a.pos + (k - 1) /\ Counted(w, data, a.pos, w.pos)
      BY <2>1, <2>3, <2>6 DEF Along
    <3>2. a.pos \in Nat /\ a.pos <= w.pos
      BY <3>1 DEF Accs
    <3>3. v.pos = w.pos + 1 /\ Counted(v, data, a.pos, v.pos)
      BY <2>2, <2>3, <2>6, <3>1, <3>2, CountedStep
    <3> QED
      BY <3>1, <3>2, <3>3
  <2>7. Along(a, v, data, k)
    BY <2>1, <2>3, <2>4, <2>5, <2>6 DEF Along
  <2>8. g[k] \in S /\ Along(a, g[k], data, k) /\ k \in 0..count
    BY <2>2, <2>3, <2>7
  <2> HIDE DEF S
  <2> QED
    BY <2>8
<1> HIDE DEF T
<1>9. count \in T
  <2>1. \A k \in 0..count : k \in T
    BY <1>7, <1>8, UpTo, Zenon
  <2> QED
    BY <2>1
<1> QED
  BY <1>5, <1>9 DEF T

\* SpeedsAgree, of the descriptors after lo up to hi.
SectionAgrees(r, data, lo, hi) ==
  /\ \A p \in Strs(data, lo, hi) : data[p].str <= r.strings_count
  /\ Eps(data, lo, hi) # {} \/ Ifs(data, lo, hi) # {} =>
       /\ ~First(r)
       /\ Nth(data, lo, hi) = r.eps_count
       /\ \A p \in Eps(data, lo, hi) :
            Nth(data, lo, p) \in 1..r.eps_count /\ r.addrmap[Nth(data, lo, p)] = data[p].addr
       /\ r.interfaces_count > 0 =>
            \E p \in Ifs(data, lo, hi) : data[p].num = r.interfaces_count - 1
       /\ \A p \in Ifs(data, lo, hi) : data[p].num < r.interfaces_count

\* What stays once a speed has been parsed.
Settled(a, r) ==
  /\ r.strings_count >= a.strings_count
  /\ ~First(a) => /\ r.addrmap = a.addrmap /\ r.eps_count = a.eps_count
                  /\ r.interfaces_count = a.interfaces_count

(* A speed that was parsed agrees with the counts it leaves.               *)
LEMMA SpeedAgrees ==
  ASSUME NEW data \in Seq(Descs), NEW count \in Nat, NEW a \in Accs, a.pos <= Len(data),
         NEW r, r = Speed(a, count, data)
  PROVE  /\ r \in Accs /\ r.pos <= Len(data) /\ Settled(a, r)
         /\ r.ok => a.ok
         /\ r.ok /\ Stuck(a, data) => Stuck(r, data)
         /\ r.ok => \/ Stuck(r, data)
                    \/ r.pos = a.pos + count /\ SectionAgrees(r, data, a.pos, r.pos)
<1>0. a.pos \in Nat /\ a.strings_count \in Nat
  BY DEF Accs
<1>1. CASE ~a.ok \/ count = 0
  <2>1. r = a /\ Settled(a, a)
    BY <1>0, <1>1 DEF Speed, Settled
  <2>2. ASSUME count = 0 PROVE a.pos + count = a.pos /\ SectionAgrees(a, data, a.pos, a.pos)
    <3>1. (a.pos + 1)..a.pos = {} /\ a.pos + count = a.pos
      BY <1>0, <2>2
    <3>2. Eps(data, a.pos, a.pos) = {} /\ Ifs(data, a.pos, a.pos) = {}
          /\ Strs(data, a.pos, a.pos) = {}
      BY <3>1 DEF Eps, Ifs, Strs
    <3> QED
      BY <3>1, <3>2 DEF SectionAgrees
  <2> QED
    BY <1>1, <2>1, <2>2
<1>2. CASE a.ok /\ count # 0
  <2> DEFINE z == [a EXCEPT !.ifs = 0, !.eps = 0]
             w == DoDescs(z, count, data)
  <2>1. /\ z \in Accs /\ z.ifs = 0 /\ z.eps = 0 /\ z.pos = a.pos /\ z.ok = a.ok
        /\ z.eps_count = a.eps_count /\ z.interfaces_count = a.interfaces_count
        /\ z.strings_count = a.strings_count /\ z.addrmap = a.addrmap
    <3>1. PICK e \in 0..(MaxEps - 1), i \in Nat : e = 0 /\ i = 0
      BY DescsAssumption
    <3>2. z = [a EXCEPT !.ifs = i, !.eps = e]
      BY <3>1
    <3> QED
      BY <3>1, <3>2 DEF Accs
  <2> HIDE DEF z
  <2>2. w \in Accs /\ w.pos <= Len(data) /\ Along(z, w, data, count)
    BY <2>1, DescsAlong
  <2>3. r = IF ~w.ok THEN w
            ELSE IF First(w) THEN [w EXCEPT !.eps_count = w.eps, !.interfaces_count = w.ifs]
            ELSE [w EXCEPT !.ok = (w.eps_count = w.eps /\ w.interfaces_count = w.ifs)]
    BY <1>2 DEF Speed, z
  <2> HIDE DEF w
  <2>4. /\ w.eps_count = a.eps_count /\ w.interfaces_count = a.interfaces_count
        /\ w.strings_count >= a.strings_count
        /\ ~First(a) => w.addrmap = a.addrmap
        /\ First(w) <=> First(a)
        /\ Stuck(z, data) <=> Stuck(a, data)
    BY <2>1, <2>2 DEF Along, Steady, First, Stuck
  <2>5. /\ w.ifs \in Nat /\ w.eps \in Nat /\ w.strings_count \in Nat /\ w.eps_count \in Nat
        /\ w.interfaces_count \in Nat
    BY <2>2 DEF Accs
  <2>6. CASE ~w.ok
    BY <2>2, <2>3, <2>4, <2>6 DEF Settled
  <2>7. CASE w.ok
    <3>1. /\ r \in Accs /\ r.pos = w.pos /\ r.strings_count = w.strings_count
          /\ r.addrmap = w.addrmap
          /\ ~First(w) => r.eps_count = w.eps_count /\ r.interfaces_count = w.interfaces_count
          /\ r.ok => r.eps_count = w.eps /\ r.interfaces_count = w.ifs
      <4>1. CASE First(w)
        <5>1. r = [w EXCEPT !.eps_count = w.eps, !.interfaces_count = w.ifs]
          BY <2>3, <2>7, <4>1
        <5> QED
          BY <2>2, <2>5, <4>1, <5>1 DEF Accs
      <4>2. CASE ~First(w)
        <5>1. PICK b \in BOOLEAN : b = (w.eps_count = w.eps /\ w.interfaces_count = w.ifs)
          OBVIOUS
        <5>2. r = [w EXCEPT !.ok = b]
          BY <2>3, <2>7, <4>2, <5>1
        <5>3. /\ r \in Accs /\ r.pos = w.pos /\ r.strings_count = w.strings_count
              /\ r.addrmap = w.addrmap /\ r.ok = b
              /\ r.eps_count = w.eps_count /\ r.interfaces_count = w.interfaces_count
          BY <2>2, <5>2 DEF Accs
        <5> QED
          BY <5>1, <5>3
      <4> QED
        BY <4>1, <4>2
    <3>2. Settled(a, r)
      BY <2>4, <3>1 DEF Settled
    <3>3. Stuck(r, data) <=> Stuck(w, data)
      BY <3>1 DEF Stuck
    <3>4. ASSUME r.ok, ~Stuck(w, data)
          PROVE  r.pos = a.pos + count /\ SectionAgrees(r, data, a.pos, r.pos)
      <4>1. w.pos = a.pos + count /\ Counted(w, data, a.pos, w.pos)
        BY <2>1, <2>2, <2>7, <3>4 DEF Along
      <4>2. PICK lo \in Nat, hi \in Nat : lo = a.pos /\ hi = w.pos
        BY <1>0, <2>2 DEF Accs
      <4>3. /\ r.eps_count = Nth(data, lo, hi)
            /\ \A p \in Eps(data, lo, hi) :
                 Nth(data, lo, p) \in 1..r.eps_count /\ r.addrmap[Nth(data, lo, p)] = data[p].addr
            /\ \A p \in Ifs(data, lo, hi) : data[p].num < r.interfaces_count
            /\ \A p \in Strs(data, lo, hi) : data[p].str <= r.strings_count
            /\ r.interfaces_count > 0 =>
                 \E p \in Ifs(data, lo, hi) : data[p].num = r.interfaces_count - 1
        BY <3>1, <3>4, <4>1, <4>2 DEF Counted
      <4>4. ASSUME Eps(data, lo, hi) # {} \/ Ifs(data, lo, hi) # {} PROVE ~First(r)
        <5>1. ASSUME NEW p \in Eps(data, lo, hi) PROVE r.eps_count # 0
          BY <2>5, <3>1, <3>4, <4>3, <5>1
        <5>2. ASSUME NEW p \in Ifs(data, lo, hi) PROVE r.interfaces_count # 0
          <6>1. p \in 1..Len(data)
            BY <2>2, <4>2, <5>2 DEF Ifs
          <6>2. data[p] \in Descs
            BY <6>1
          <6>3. data[p].num \in Nat
            BY <6>2 DEF Descs
          <6> QED
            BY <2>5, <3>1, <3>4, <4>3, <5>2, <6>3
        <5> QED
          BY <4>4, <5>1, <5>2 DEF First
      <4> QED
        BY <3>1, <4>1, <4>2, <4>3, <4>4 DEF SectionAgrees
    <3> QED
      BY <1>2, <2>1, <2>2, <2>4, <2>7, <3>1, <3>2, <3>3, <3>4 DEF Along
  <2> QED
    BY <2>6, <2>7
<1> QED
  BY <1>1, <1>2

(* Parsing more speeds does not undo the agreement of those before.        *)
LEMMA StaysAgreed ==
  ASSUME NEW data \in Seq(Descs), NEW a \in Accs, NEW r \in Accs, Settled(a, r),
         NEW lo \in Nat, NEW hi \in Nat, hi <= Len(data), SectionAgrees(a, data, lo, hi)
  PROVE  SectionAgrees(r, data, lo, hi)
<1>3. ASSUME NEW p \in Strs(data, lo, hi) PROVE data[p].str <= r.strings_count
  <2>1. p \in 1..Len(data)
    BY <1>3 DEF Strs
  <2>2. data[p] \in Descs
    BY <2>1
  <2>3. data[p].str \in Nat /\ r.strings_count \in Nat /\ a.strings_count \in Nat
    BY <2>2 DEF Descs, Accs
  <2>4. data[p].str <= a.strings_count /\ r.strings_count >= a.strings_count
    BY DEF SectionAgrees, Settled
  <2> QED
    BY <2>3, <2>4
<1>1. SUFFICES ASSUME Eps(data, lo, hi) # {} \/ Ifs(data, lo, hi) # {}
               PROVE  SectionAgrees(r, data, lo, hi)
  BY <1>3 DEF SectionAgrees
<1>2. /\ r.addrmap = a.addrmap /\ r.eps_count = a.eps_count
      /\ r.interfaces_count = a.interfaces_count
  BY <1>1 DEF SectionAgrees, Settled
<1>4. First(r) <=> First(a)
  BY <1>2 DEF First
<1> QED
  BY <1>1, <1>2, <1>3, <1>4 DEF SectionAgrees

-----------------------------------------------------------------------------
(* What ffs_data says of the descriptors and the strings it accepted.      *)

DescBlocks == [counts : [Speeds -> Nat], data : Seq(Descs), virtual : Virtual]

FdTypeOK ==
  fd \in [state : {"READ_DESCRIPTORS", "READ_STRINGS", "ACTIVE"},
          eps_count : 0..(MaxEps - 1), interfaces_count : Nat, strings_count : Nat,
          addrmap : [1..(MaxEps - 1) -> Nat], raw : DescBlocks, tables : Nat,
          virtual : BOOLEAN]

\* Where a speed's descriptors end.
End(b, s) == IF s = 0 THEN 0 ELSE IF s = 1 THEN b.counts[1]
             ELSE IF s = 2 THEN b.counts[1] + b.counts[2]
             ELSE b.counts[1] + b.counts[2] + b.counts[3]

\* Every speed of b agrees with the counts of r, and there is nothing else in b.
BlockAgrees(r, b) ==
  /\ End(b, 3) = Len(b.data)
  /\ \A s \in Speeds : SectionAgrees(r, b.data, End(b, s - 1), End(b, s))

FdIInv ==
  /\ FdTypeOK
  /\ fd.state # "READ_DESCRIPTORS" => BlockAgrees(fd, fd.raw)
  /\ fd.state = "ACTIVE" => fd.strings_count <= fd.tables

(* What one write of descriptors comes to.                                 *)
LEMMA GotDescsAgrees ==
  ASSUME FdTypeOK, NEW b \in DescBlocks, NEW r, r = GotDescs(b)
  PROVE  /\ r \in Accs
         /\ r.ok /\ r.pos = Len(b.data) => BlockAgrees(r, b)
<1> DEFINE a == [ok |-> TRUE, pos |-> 0, ifs |-> 0, eps |-> 0, eps_count |-> fd.eps_count,
                 interfaces_count |-> fd.interfaces_count, strings_count |-> fd.strings_count,
                 addrmap |-> fd.addrmap]
           r1 == Speed(a, b.counts[1], b.data)
           r2 == Speed(r1, b.counts[2], b.data)
<1>1. PICK data \in Seq(Descs) : data = b.data
  BY DEF DescBlocks
<1>2. PICK c1 \in Nat, c2 \in Nat, c3 \in Nat :
        c1 = b.counts[1] /\ c2 = b.counts[2] /\ c3 = b.counts[3]
  BY DEF DescBlocks, Speeds
<1>3. a \in Accs /\ a.pos = 0 /\ a.pos <= Len(data)
  <2>1. PICK t \in BOOLEAN, z \in Nat, e \in 0..(MaxEps - 1) : t = TRUE /\ z = 0 /\ e = 0
    <3>1. 0 \in Nat /\ 0 \in 0..(MaxEps - 1)
      BY DescsAssumption
    <3> QED
      BY <3>1, Zenon
  <2>2. a = [ok |-> t, pos |-> z, ifs |-> z, eps |-> e, eps_count |-> fd.eps_count,
             interfaces_count |-> fd.interfaces_count, strings_count |-> fd.strings_count,
             addrmap |-> fd.addrmap]
    BY <2>1
  <2>3. a \in Accs
    BY <2>2 DEF FdTypeOK, Accs
  <2> QED
    BY <1>1, <2>1, <2>3
<1>4. r = Speed(r2, c3, data)
  BY <1>1, <1>2 DEF GotDescs
<1>5. r1 = Speed(a, c1, data) /\ r2 = Speed(r1, c2, data)
  BY <1>1, <1>2
<1> HIDE DEF a, r1, r2
<1>6. /\ r1 \in Accs /\ r1.pos <= Len(data) /\ Settled(a, r1)
      /\ r1.ok => \/ Stuck(r1, data)
                  \/ r1.pos = c1 /\ SectionAgrees(r1, data, 0, r1.pos)
  BY <1>3, <1>5, SpeedAgrees
<1>7. /\ r2 \in Accs /\ r2.pos <= Len(data) /\ Settled(r1, r2)
      /\ r2.ok => r1.ok
      /\ r2.ok /\ Stuck(r1, data) => Stuck(r2, data)
      /\ r2.ok => \/ Stuck(r2, data)
                  \/ r2.pos = r1.pos + c2 /\ SectionAgrees(r2, data, r1.pos, r2.pos)
  BY <1>5, <1>6, SpeedAgrees
<1>8. /\ r \in Accs /\ r.pos <= Len(data) /\ Settled(r2, r)
      /\ r.ok => r2.ok
      /\ r.ok /\ Stuck(r2, data) => Stuck(r, data)
      /\ r.ok => \/ Stuck(r, data)
                 \/ r.pos = r2.pos + c3 /\ SectionAgrees(r, data, r2.pos, r.pos)
  BY <1>4, <1>7, SpeedAgrees
<1>9. ASSUME r.ok, r.pos = Len(b.data) PROVE BlockAgrees(r, b)
  <2>1. ~Stuck(r, data)
    BY <1>1, <1>9 DEF Stuck
  <2>2. /\ r1.pos = c1 /\ r2.pos = c1 + c2 /\ r.pos = c1 + c2 + c3
        /\ SectionAgrees(r1, data, 0, c1) /\ SectionAgrees(r2, data, c1, c1 + c2)
        /\ SectionAgrees(r, data, c1 + c2, c1 + c2 + c3)
    BY <1>6, <1>7, <1>8, <1>9, <2>1
  <2>3. PICK n \in Nat, m \in Nat : n = c1 + c2 /\ m = n + c3
    OBVIOUS
  <2>4. c1 <= Len(data) /\ n <= Len(data) /\ m = Len(data)
    BY <1>1, <1>6, <1>7, <1>9, <2>2, <2>3
  <2>5. SectionAgrees(r2, data, 0, c1)
    BY <1>6, <1>7, <2>2, <2>4, StaysAgreed
  <2>6. SectionAgrees(r, data, 0, c1)
    BY <1>7, <1>8, <2>4, <2>5, StaysAgreed
  <2>7. SectionAgrees(r, data, c1, n)
    BY <1>7, <1>8, <2>2, <2>3, <2>4, StaysAgreed
  <2>8. SectionAgrees(r, data, n, m)
    BY <2>2, <2>3
  <2>9. /\ End(b, 0) = 0 /\ End(b, 1) = c1 /\ End(b, 2) = n /\ End(b, 3) = m
    BY <1>2, <2>3 DEF End
  <2>10. \A s \in Speeds : (s = 1 /\ s - 1 = 0) \/ (s = 2 /\ s - 1 = 1) \/ (s = 3 /\ s - 1 = 2)
    BY DEF Speeds
  <2> QED
    BY <1>1, <2>4, <2>6, <2>7, <2>8, <2>9, <2>10 DEF BlockAgrees
<1> QED
  BY <1>8, <1>9

(* The sets SpeedsAgree speaks of, section by section.                     *)
LEMMA Sections ==
  ASSUME FdTypeOK, NEW s \in Speeds, NEW lo, NEW hi, lo = End(fd.raw, s - 1), hi = End(fd.raw, s)
  PROVE  /\ lo \in Nat /\ hi \in Nat /\ lo <= hi /\ hi <= End(fd.raw, 3)
         /\ lo = Start(s) /\ hi = Start(s) + fd.raw.counts[s]
         /\ EndpointsOf(s) = Eps(fd.raw.data, lo, hi)
         /\ InterfacesOf(s) = Ifs(fd.raw.data, lo, hi)
         /\ NamedOf(s) = Strs(fd.raw.data, lo, hi)
         /\ \A p \in EndpointsOf(s) : Rank(s, p) = Nth(fd.raw.data, lo, p)
<1>1. PICK c1 \in Nat, c2 \in Nat, c3 \in Nat :
        c1 = fd.raw.counts[1] /\ c2 = fd.raw.counts[2] /\ c3 = fd.raw.counts[3]
  BY DEF FdTypeOK, DescBlocks, Speeds
<1>2. s = 1 \/ s = 2 \/ s = 3
  BY DEF Speeds
<1>3. /\ lo \in Nat /\ hi \in Nat /\ lo <= hi /\ hi <= End(fd.raw, 3)
      /\ lo = Start(s) /\ hi = Start(s) + fd.raw.counts[s]
  <2>1. CASE s = 1
    BY <1>1, <2>1 DEF End, Start
  <2>2. CASE s = 2
    BY <1>1, <2>2 DEF End, Start
  <2>3. CASE s = 3
    BY <1>1, <2>3 DEF End, Start
  <2> QED
    BY <1>2, <2>1, <2>2, <2>3
<1>4. Section(s) = (lo + 1)..hi
  BY <1>3 DEF Section
<1>5. EndpointsOf(s) = Eps(fd.raw.data, lo, hi) /\ InterfacesOf(s) = Ifs(fd.raw.data, lo, hi)
      /\ NamedOf(s) = Strs(fd.raw.data, lo, hi)
  BY <1>4 DEF EndpointsOf, InterfacesOf, NamedOf, Eps, Ifs, Strs
<1>6. ASSUME NEW p \in EndpointsOf(s) PROVE Rank(s, p) = Nth(fd.raw.data, lo, p)
  <2>1. p \in (lo + 1)..hi
    BY <1>4, <1>6 DEF EndpointsOf
  <2>2. \A q : q \in (lo + 1)..hi /\ q <= p <=> q \in (lo + 1)..p
    BY <1>3, <2>1
  <2>3. {q \in EndpointsOf(s) : q <= p} = Eps(fd.raw.data, lo, p)
    BY <1>4, <2>2 DEF EndpointsOf, Eps
  <2> QED
    BY <2>3 DEF Rank, Nth
<1> QED
  BY <1>3, <1>5, <1>6

(* The descriptors of the daemon stay as they were found.                  *)
LEMMA FdInit == DsInit => FdIInv
<1> SUFFICES ASSUME DsInit PROVE FdIInv
  OBVIOUS
<1>1. PICK z \in Nat, n \in 0..(MaxEps - 1), map \in [1..(MaxEps - 1) -> Nat],
           c \in [Speeds -> Nat], e \in Seq(Descs), no \in BOOLEAN :
        /\ z = 0 /\ n = 0 /\ no = FALSE /\ map = [k \in 1..(MaxEps - 1) |-> 0] /\ c = <<0, 0, 0>> /\ e = <<>>
  <2>1. [k \in 1..(MaxEps - 1) |-> 0] \in [1..(MaxEps - 1) -> Nat]
    OBVIOUS
  <2>2. <<0, 0, 0>> \in [Speeds -> Nat]
    BY DEF Speeds
  <2>3. <<>> \in Seq(Descs) /\ 0 \in Nat /\ 0 \in 0..(MaxEps - 1)
    BY DescsAssumption
  <2> QED
    BY <2>1, <2>2, <2>3
<1>2. PICK b \in DescBlocks : b = NoBlock
  BY <1>1 DEF NoBlock, DescBlocks, Virtual
<1>3. fd = [state |-> "READ_DESCRIPTORS", eps_count |-> n, interfaces_count |-> z,
            strings_count |-> z, addrmap |-> map, raw |-> b, tables |-> z, virtual |-> no]
  BY <1>1, <1>2 DEF DsInit
<1>4. FdTypeOK
  BY <1>3 DEF FdTypeOK
<1> QED
  BY <1>3, <1>4 DEF FdIInv

(* A write of descriptors.                                                 *)
LEMMA FdWriteDescs ==
  ASSUME FdIInv, NEW b \in Blocks, WriteDescs(b) PROVE FdIInv'
<1>1. FdTypeOK /\ fd.state = "READ_DESCRIPTORS"
  BY DEF FdIInv, WriteDescs
<1>2. b \in DescBlocks
  BY DescsAssumption DEF DescBlocks
<1>3. PICK r : r = GotDescs(b)
  OBVIOUS
<1>4. r \in Accs /\ (r.ok /\ r.pos = Len(b.data) => BlockAgrees(r, b))
  BY <1>1, <1>2, <1>3, GotDescsAgrees
<1>5. PICK ok \in BOOLEAN : ok <=> r.ok /\ r.pos > 0 /\ r.pos = Len(b.data)
  <2>1. (r.ok /\ r.pos > 0 /\ r.pos = Len(b.data)) \in BOOLEAN
    OBVIOUS
  <2> QED
    BY <2>1
<1>6. PICK st, raw : st = (IF ok THEN "READ_STRINGS" ELSE fd.state)
                     /\ raw = (IF ok THEN b ELSE fd.raw)
  OBVIOUS
<1>a. PICK vb \in BOOLEAN : vb = (IF b.virtual = "kept" THEN fd.virtual ELSE b.virtual = "yes")
  BY <1>1 DEF FdTypeOK
<1>7. fd' = [fd EXCEPT !.eps_count = r.eps_count, !.interfaces_count = r.interfaces_count,
                       !.strings_count = r.strings_count, !.addrmap = r.addrmap,
                       !.state = st, !.raw = raw, !.virtual = vb]
  BY <1>3, <1>5, <1>6, <1>a DEF WriteDescs
<1>8. st \in {"READ_DESCRIPTORS", "READ_STRINGS", "ACTIVE"} /\ raw \in DescBlocks
  BY <1>1, <1>2, <1>6 DEF FdTypeOK
<1>9. /\ FdTypeOK'
      /\ fd'.eps_count = r.eps_count /\ fd'.interfaces_count = r.interfaces_count
      /\ fd'.strings_count = r.strings_count /\ fd'.addrmap = r.addrmap
      /\ fd'.state = st /\ fd'.raw = raw
  BY <1>1, <1>4, <1>7, <1>8 DEF FdTypeOK, Accs
<1>10. ASSUME st # "READ_DESCRIPTORS" PROVE BlockAgrees(fd', fd'.raw)
  <2>1. ok
    BY <1>1, <1>6, <1>10
  <2>2. BlockAgrees(r, b) /\ fd'.raw = b
    BY <1>4, <1>5, <1>6, <1>9, <2>1
  <2>3. ASSUME NEW lo, NEW hi, SectionAgrees(r, b.data, lo, hi)
        PROVE  SectionAgrees(fd', b.data, lo, hi)
    BY <1>9, <2>3, Zenon DEF SectionAgrees, First
  <2> QED
    BY <2>2, <2>3 DEF BlockAgrees
<1>11. st # "ACTIVE"
  BY <1>1, <1>6
<1> QED
  BY <1>9, <1>10, <1>11 DEF FdIInv

(* A write of strings.                                                     *)
LEMMA FdWriteStrings ==
  ASSUME FdIInv, NEW b \in StringBlocks, WriteStrings(b) PROVE FdIInv'
<1>1. FdTypeOK /\ fd.state = "READ_STRINGS" /\ BlockAgrees(fd, fd.raw)
  BY DEF FdIInv, WriteStrings
<1>2. CASE UNCHANGED fd
  BY <1>2 DEF FdIInv, FdTypeOK
<1>3. CASE AcceptsStrings(b, fd.strings_count)
  <2>1. b.strs \in Nat /\ b.strs >= fd.strings_count /\ fd.strings_count \in Nat
    BY <1>1, <1>3, DescsAssumption DEF AcceptsStrings, FdTypeOK
  <2>2. PICK t \in Nat : t = Smaller(b.strs, fd.strings_count) /\ t = fd.strings_count
    BY <2>1 DEF Smaller
  <2>3. fd' = [fd EXCEPT !.state = "ACTIVE", !.tables = t]
    BY <1>3, <2>2 DEF WriteStrings
  <2>4. /\ FdTypeOK' /\ fd'.raw = fd.raw /\ fd'.eps_count = fd.eps_count
        /\ fd'.interfaces_count = fd.interfaces_count /\ fd'.addrmap = fd.addrmap
        /\ fd'.strings_count = fd.strings_count /\ fd'.tables = t
    BY <1>1, <2>3 DEF FdTypeOK
  <2>5. ASSUME NEW lo, NEW hi, SectionAgrees(fd, fd.raw.data, lo, hi)
        PROVE  SectionAgrees(fd', fd'.raw.data, lo, hi)
    BY <2>4, <2>5, Zenon DEF SectionAgrees, First
  <2>6. BlockAgrees(fd', fd'.raw)
    <3>1. End(fd'.raw, 3) = Len(fd'.raw.data)
      BY <1>1, <2>4 DEF BlockAgrees
    <3>2. ASSUME NEW s \in Speeds
          PROVE  SectionAgrees(fd', fd'.raw.data, End(fd'.raw, s - 1), End(fd'.raw, s))
      BY <1>1, <2>4, <2>5 DEF BlockAgrees
    <3> QED
      BY <3>1, <3>2 DEF BlockAgrees
  <2>7. fd'.strings_count <= fd'.tables
    BY <2>1, <2>2, <2>4
  <2> QED
    BY <2>4, <2>6, <2>7 DEF FdIInv
<1> QED
  BY <1>2, <1>3 DEF WriteStrings

(* What ffs_data says of its descriptors holds throughout.                 *)
LEMMA FdAlways == DsSpec => []FdIInv
<1>1. ASSUME FdIInv, [DsNext]_dsVars PROVE FdIInv'
  <2>1. CASE UNCHANGED fd
    BY <1>1, <2>1 DEF FdIInv, FdTypeOK
  <2>2. CASE \E b \in Blocks : WriteDescs(b)
    BY <1>1, <2>2, FdWriteDescs
  <2>3. CASE \E b \in StringBlocks : WriteStrings(b)
    BY <1>1, <2>3, FdWriteStrings
  <2>4. CASE FuncBindDescs \/ FuncUnbindDescs
    <3>1. UNCHANGED fd
      BY <2>4 DEF FuncBindDescs, FuncUnbindDescs
    <3> QED
      BY <2>1, <3>1
  <2> QED
    BY <1>1, <2>1, <2>2, <2>3, <2>4 DEF DsNext, dsVars
<1> QED
  BY <1>1, FdInit, PTL DEF DsSpec

(* However many writes of __ffs_data_got_descs failed before, the counts   *)
(* ffs_data ends with are those of every speed of what was accepted, for   *)
(* any descriptors.                                                        *)
THEOREM DescsAgree == DsSpec => []SpeedsAgree
<1>1. ASSUME FdIInv PROVE SpeedsAgree
  <2>1. SUFFICES ASSUME fd.state # "READ_DESCRIPTORS" PROVE SpeedsAgree
    BY DEF SpeedsAgree
  <2>2. FdTypeOK /\ BlockAgrees(fd, fd.raw)
    BY <1>1, <2>1 DEF FdIInv
  <2>3. Start(3) + fd.raw.counts[3] = Len(fd.raw.data)
    <3>1. 3 \in Speeds
      BY DEF Speeds
    <3>2. End(fd.raw, 3) = Start(3) + fd.raw.counts[3]
      BY <2>2, <3>1, Sections
    <3> QED
      BY <2>2, <3>2 DEF BlockAgrees
  <2>4. ASSUME NEW s \in Speeds, EndpointsOf(s) # {} \/ InterfacesOf(s) # {}
        PROVE  /\ Cardinality(EndpointsOf(s)) = fd.eps_count
               /\ \A p \in EndpointsOf(s) : fd.raw.data[p].addr = fd.addrmap[Rank(s, p)]
               /\ fd.interfaces_count > 0 =>
                    fd.interfaces_count - 1 \in {fd.raw.data[p].num : p \in InterfacesOf(s)}
               /\ \A p \in InterfacesOf(s) : fd.raw.data[p].num < fd.interfaces_count
    <3>1. PICK lo, hi : lo = End(fd.raw, s - 1) /\ hi = End(fd.raw, s)
      OBVIOUS
    <3>2. /\ EndpointsOf(s) = Eps(fd.raw.data, lo, hi)
          /\ InterfacesOf(s) = Ifs(fd.raw.data, lo, hi)
          /\ \A p \in EndpointsOf(s) : Rank(s, p) = Nth(fd.raw.data, lo, p)
      BY <2>2, <3>1, Sections
    <3>3. SectionAgrees(fd, fd.raw.data, lo, hi)
      BY <2>2, <3>1 DEF BlockAgrees
    <3>4. /\ Nth(fd.raw.data, lo, hi) = fd.eps_count
          /\ \A p \in EndpointsOf(s) : fd.addrmap[Nth(fd.raw.data, lo, p)] = fd.raw.data[p].addr
          /\ fd.interfaces_count > 0 =>
               \E p \in InterfacesOf(s) : fd.raw.data[p].num = fd.interfaces_count - 1
          /\ \A p \in InterfacesOf(s) : fd.raw.data[p].num < fd.interfaces_count
      BY <2>4, <3>2, <3>3, Zenon DEF SectionAgrees
    <3>5. Cardinality(EndpointsOf(s)) = fd.eps_count
      BY <3>2, <3>4 DEF Nth
    <3> QED
      BY <3>2, <3>4, <3>5
  <2>5. ASSUME NEW s \in Speeds, NEW p \in NamedOf(s)
        PROVE  fd.raw.data[p].str <= fd.strings_count
    <3>1. PICK lo, hi : lo = End(fd.raw, s - 1) /\ hi = End(fd.raw, s)
      OBVIOUS
    <3>2. p \in Strs(fd.raw.data, lo, hi) /\ SectionAgrees(fd, fd.raw.data, lo, hi)
      BY <2>2, <2>5, <3>1, Sections DEF BlockAgrees
    <3> QED
      BY <3>2 DEF SectionAgrees
  <2> QED
    BY <2>3, <2>4, <2>5 DEF SpeedsAgree
<1> QED
  BY <1>1, FdAlways, PTL

(* __ffs_func_bind_do_nums never reads the string table beyond its end.    *)
THEOREM StringsInTable == DsSpec => []StringsCovered
<1>1. ASSUME FdIInv PROVE StringsCovered
  <2>1. SUFFICES ASSUME fd.state = "ACTIVE", NEW s \in Speeds, NEW p \in NamedOf(s)
                 PROVE  fd.raw.data[p].str <= fd.tables
    BY DEF StringsCovered
  <2>2. FdTypeOK /\ BlockAgrees(fd, fd.raw) /\ fd.strings_count <= fd.tables
    BY <1>1, <2>1 DEF FdIInv
  <2>3. PICK lo, hi : lo = End(fd.raw, s - 1) /\ hi = End(fd.raw, s)
    OBVIOUS
  <2>4. /\ p \in Strs(fd.raw.data, lo, hi) /\ SectionAgrees(fd, fd.raw.data, lo, hi)
        /\ lo \in Nat /\ hi \in Nat /\ hi <= Len(fd.raw.data)
    BY <2>1, <2>2, <2>3, Sections DEF BlockAgrees
  <2>a. p \in 1..Len(fd.raw.data)
    BY <2>4 DEF Strs
  <2>5. fd.raw.data[p].str <= fd.strings_count
    BY <2>4 DEF SectionAgrees
  <2>6. fd.raw.data[p] \in Descs
    BY <2>2, <2>a DEF FdTypeOK, DescBlocks
  <2>7. fd.raw.data[p].str \in Nat /\ fd.strings_count \in Nat /\ fd.tables \in Nat
    BY <2>2, <2>6 DEF FdTypeOK, Descs
  <2> QED
    BY <2>2, <2>5, <2>7
<1> QED
  BY <1>1, FdAlways, PTL

-----------------------------------------------------------------------------
(* Binding: what _ffs_func_bind makes of the descriptors.                  *)

\* The index of the endpoint that descriptor p describes.
Idx(p) == Addr2Idx(fd.raw.data[p].addr)
IsEp(p) == fd.raw.data[p].type = "endpoint"
IsIf(p) == fd.raw.data[p].type = "interface"
Positions == 1..Len(fd.raw.data)

(* Every descriptor is of some speed, hence within the counts: the lookups *)
(* ffs_ep_addr2idx and interfaces_nums[...] of the bind are in range.      *)
LEMMA Indices ==
  ASSUME FdIInv, fd.state = "ACTIVE", NEW p \in Positions
  PROVE  /\ fd.raw.data[p] \in Descs
         /\ IsEp(p) => Idx(p) \in 1..fd.eps_count /\ fd.addrmap[Idx(p)] = fd.raw.data[p].addr
         /\ IsIf(p) => fd.raw.data[p].num + 1 \in 1..fd.interfaces_count
<1>1. FdTypeOK /\ BlockAgrees(fd, fd.raw)
  BY DEF FdIInv
<1>2. PICK data \in Seq(Descs) : data = fd.raw.data
  BY <1>1 DEF FdTypeOK, DescBlocks
<1>3. p \in 1..Len(data) /\ Len(data) \in Nat /\ data[p] \in Descs
  BY <1>2 DEF Positions
<1>4. PICK s \in Speeds : p \in (End(fd.raw, s - 1) + 1)..End(fd.raw, s)
  <2>1. PICK c1 \in Nat, c2 \in Nat, c3 \in Nat :
          c1 = fd.raw.counts[1] /\ c2 = fd.raw.counts[2] /\ c3 = fd.raw.counts[3]
    BY <1>1 DEF FdTypeOK, DescBlocks, Speeds
  <2>2. /\ End(fd.raw, 0) = 0 /\ End(fd.raw, 1) = c1 /\ End(fd.raw, 2) = c1 + c2
        /\ End(fd.raw, 3) = c1 + c2 + c3 /\ End(fd.raw, 3) = Len(data)
    BY <1>1, <1>2, <2>1 DEF End, BlockAgrees
  <2>3. p \in (End(fd.raw, 0) + 1)..End(fd.raw, 1) \/ p \in (End(fd.raw, 1) + 1)..End(fd.raw, 2)
        \/ p \in (End(fd.raw, 2) + 1)..End(fd.raw, 3)
    BY <1>3, <2>2
  <2>4. 1 \in Speeds /\ 2 \in Speeds /\ 3 \in Speeds /\ 1 - 1 = 0 /\ 2 - 1 = 1 /\ 3 - 1 = 2
    BY DEF Speeds
  <2> QED
    BY <2>3, <2>4
<1>5. PICK lo, hi : lo = End(fd.raw, s - 1) /\ hi = End(fd.raw, s)
  OBVIOUS
<1>6. p \in (lo + 1)..hi /\ SectionAgrees(fd, data, lo, hi)
  BY <1>1, <1>2, <1>4, <1>5 DEF BlockAgrees
<1>7. ASSUME IsEp(p)
      PROVE  Idx(p) \in 1..fd.eps_count /\ fd.addrmap[Idx(p)] = fd.raw.data[p].addr
  <2>1. p \in Eps(data, lo, hi)
    BY <1>2, <1>6, <1>7 DEF IsEp, Eps
  <2>2. PICK k \in 1..fd.eps_count : fd.addrmap[k] = data[p].addr
    BY <1>6, <2>1 DEF SectionAgrees
  <2>3. \A j \in 1..fd.eps_count : j \in 1..(MaxEps - 1)
    BY <1>1, DescsAssumption DEF FdTypeOK
  <2> DEFINE M == Matches(data[p].addr)
  <2>4. k \in M
    BY <2>2, <2>3 DEF Matches
  <2>5. M \in SUBSET Nat
    BY DEF Matches
  <2>6. \A m \in M : m \in Nat /\ fd.addrmap[m] = data[p].addr /\ 1 <= m
    BY DescsAssumption DEF Matches
  <2>7. Idx(p) = CHOOSE i \in M : \A m \in M : i <= m
    BY <1>2 DEF Idx, Addr2Idx
  <2> HIDE DEF M
  <2>8. PICK i \in M : \A m \in M : i <= m
    BY <2>4, <2>5, LeastNumber
  <2>9. Idx(p) \in M /\ \A m \in M : Idx(p) <= m
    BY <2>7, <2>8, Zenon
  <2>10. Idx(p) <= k /\ Idx(p) \in Nat /\ 1 <= Idx(p) /\ fd.addrmap[Idx(p)] = data[p].addr
    BY <2>4, <2>6, <2>9
  <2>11. fd.eps_count \in Nat
    BY <1>1, DescsAssumption DEF FdTypeOK
  <2> QED
    BY <1>2, <2>10, <2>11
<1>8. ASSUME IsIf(p) PROVE fd.raw.data[p].num + 1 \in 1..fd.interfaces_count
  <2>1. p \in Ifs(data, lo, hi)
    BY <1>2, <1>6, <1>8 DEF IsIf, Ifs
  <2>2. data[p].num < fd.interfaces_count
    BY <1>6, <2>1 DEF SectionAgrees
  <2>3. data[p].num \in Nat /\ fd.interfaces_count \in Nat
    BY <1>1, <1>3 DEF FdTypeOK, Descs
  <2> QED
    BY <1>2, <2>2, <2>3
<1> QED
  BY <1>2, <1>3, <1>7, <1>8

Pointers == [set : BOOLEAN, at : [1..MaxSlots -> Nat]]
Slots    == [descs : [Speeds -> Nat], ep : Nat]
Fns == [pc : {"new", "binding", "failed", "stuck", "bound"}, descs : [Speeds -> Pointers],
        eps : [1..fd.eps_count -> Slots], inums : [1..fd.interfaces_count -> Int],
        next : Nat, raw : [Positions -> Descs]]
Autos == [1..fd.eps_count -> Nat]

\* The address the descriptors of the i-th endpoint are given: the one autoconfig
\* found, or the daemon's own.
Given(auto, i) == IF fd.virtual THEN fd.addrmap[i] ELSE auto[i]

\* What the walks over the endpoints have done, up to descriptor n: every
\* endpoint met has the address given to its index, and an endpoint that has a
\* full speed descriptor has one that was met.
Renamed(f, auto, first, n) ==
  /\ f \in Fns /\ f.pc # "bound"
  /\ f.pc = "binding" =>
       /\ f.next = first /\ \A i \in 1..fd.interfaces_count : f.inums[i] = -1
       /\ \A p \in Positions : /\ f.raw[p].type = fd.raw.data[p].type
                               /\ f.raw[p].num = fd.raw.data[p].num
       /\ \A p \in Positions : p > n => f.raw[p] = fd.raw.data[p]
       /\ \A p \in Positions : p <= n /\ IsEp(p) =>
            auto[Idx(p)] # 0 /\ f.raw[p].addr = Given(auto, Idx(p))
       /\ \A i \in 1..fd.eps_count : f.eps[i].descs[1] # 0 =>
            LET q == f.eps[i].descs[1] IN q \in Positions /\ q <= n /\ IsEp(q) /\ Idx(q) = i

(* The pointers of a function are set, not the descriptors.                *)
LEMMA PointersOnly ==
  ASSUME NEW f \in Fns, NEW D \in [Speeds -> Pointers], NEW g, g = [f EXCEPT !.descs = D],
         NEW auto, NEW first, NEW n, Renamed(f, auto, first, n)
  PROVE  /\ Renamed(g, auto, first, n)
         /\ g.pc = f.pc /\ g.eps = f.eps /\ g.raw = f.raw /\ g.inums = f.inums /\ g.next = f.next
<1>1. /\ g \in Fns /\ g.pc = f.pc /\ g.eps = f.eps /\ g.raw = f.raw /\ g.inums = f.inums
      /\ g.next = f.next
  BY DEF Fns
<1> QED
  BY <1>1, Zenon DEF Renamed

(* A function whose walk stopped is no longer asked anything.              *)
LEMMA Stopped ==
  ASSUME NEW f \in Fns, NEW c \in {"failed", "stuck"}, NEW g, g = [f EXCEPT !.pc = c],
         NEW auto, NEW first, NEW n
  PROVE  Renamed(g, auto, first, n)
<1>1. g \in Fns /\ g.pc = c
  BY DEF Fns
<1>2. c # "binding" /\ c # "bound"
  OBVIOUS
<1> QED
  BY <1>1, <1>2 DEF Renamed

\* From f to g descriptor m, of endpoint i, gets the address of the endpoint.
Gives(f, g, auto, m, i, e) ==
  /\ IsEp(m) /\ i = Idx(m) /\ auto[i] # 0
  /\ e \in [1..fd.eps_count -> Slots] /\ \A j \in 1..fd.eps_count : j # i => e[j] = f.eps[j]
  /\ e[i].descs[1] \in {f.eps[i].descs[1], m}
  /\ g = [f EXCEPT !.eps = e, !.raw = [f.raw EXCEPT ![m].addr = Given(auto, i)]]

(* What is given is an address.                                            *)
LEMMA GivenIsAddress ==
  ASSUME FdIInv, NEW auto \in Autos, NEW i \in 1..fd.eps_count
  PROVE  Given(auto, i) \in Nat
<1>1. fd.eps_count \in 0..(MaxEps - 1) /\ fd.addrmap \in [1..(MaxEps - 1) -> Nat]
      /\ fd.virtual \in BOOLEAN
  BY DEF FdIInv, FdTypeOK
<1>2. i \in 1..(MaxEps - 1)
  BY <1>1, DescsAssumption
<1> QED
  BY <1>1, <1>2 DEF Given, Autos

(* One endpoint descriptor gets its address.                               *)
LEMMA Addressed ==
  ASSUME FdIInv, fd.state = "ACTIVE", NEW auto \in Autos, NEW first, NEW n \in Nat,
         NEW m \in Positions, m = n + 1, NEW f, f.pc = "binding", Renamed(f, auto, first, n),
         NEW i \in 1..fd.eps_count, NEW e, NEW g, Gives(f, g, auto, m, i, e)
  PROVE  Renamed(g, auto, first, m)
<1>0. f \in Fns
  BY DEF Renamed
<1>g. /\ IsEp(m) /\ i = Idx(m) /\ auto[i] # 0
      /\ e \in [1..fd.eps_count -> Slots] /\ \A j \in 1..fd.eps_count : j # i => e[j] = f.eps[j]
      /\ e[i].descs[1] \in {f.eps[i].descs[1], m}
      /\ g = [f EXCEPT !.eps = e, !.raw = [f.raw EXCEPT ![m].addr = Given(auto, i)]]
  BY DEF Gives
<1>h. PICK r : r = [f.raw EXCEPT ![m].addr = Given(auto, i)]
  OBVIOUS
<1>1. PICK x \in Nat : x = Given(auto, i)
  BY GivenIsAddress
<1>2. PICK d \in Descs : d = f.raw[m]
  BY <1>0 DEF Fns
<1>3. PICK b \in Descs : b = [d EXCEPT !.addr = x]
  BY DEF Descs
<1>4. b.type = d.type /\ b.num = d.num /\ b.addr = x
  BY <1>3 DEF Descs
<1>5. r \in [Positions -> Descs] /\ r = [f.raw EXCEPT ![m] = b]
  <2>1. r = [f.raw EXCEPT ![m] = b]
    BY <1>0, <1>1, <1>2, <1>3, <1>h DEF Fns
  <2> QED
    BY <1>0, <2>1 DEF Fns
<1>6. \A p \in Positions : r[p] = IF p = m THEN b ELSE f.raw[p]
  BY <1>0, <1>5, <1>g, <1>h DEF Fns
<1>8. /\ g \in Fns /\ g.pc = f.pc /\ g.eps = e /\ g.raw = r /\ g.inums = f.inums /\ g.next = f.next
  BY <1>0, <1>5, <1>g, <1>h DEF Fns
<1>9. /\ f.next = first /\ \A j \in 1..fd.interfaces_count : f.inums[j] = -1
      /\ \A p \in Positions : f.raw[p].type = fd.raw.data[p].type
                              /\ f.raw[p].num = fd.raw.data[p].num
      /\ \A p \in Positions : p > n => f.raw[p] = fd.raw.data[p]
      /\ \A p \in Positions : p <= n /\ IsEp(p) =>
           auto[Idx(p)] # 0 /\ f.raw[p].addr = Given(auto, Idx(p))
      /\ \A j \in 1..fd.eps_count : f.eps[j].descs[1] # 0 =>
            LET q == f.eps[j].descs[1] IN q \in Positions /\ q <= n /\ IsEp(q) /\ Idx(q) = j
  BY DEF Renamed
<1>10. \A p \in Positions : p \in Int /\ (p > m => p > n /\ p # m)
                            /\ (p <= m => p <= n \/ p = m) /\ (p <= n => p # m)
  <2>1. \A p \in Positions : p \in Int
    BY DEF Positions
  <2> QED
    BY <2>1
<1>11. \A p \in Positions : /\ r[p].type = fd.raw.data[p].type /\ r[p].num = fd.raw.data[p].num
                            /\ p > m => r[p] = fd.raw.data[p]
                            /\ p <= m /\ IsEp(p) =>
                                 auto[Idx(p)] # 0 /\ r[p].addr = Given(auto, Idx(p))
  <2>1. ASSUME NEW p \in Positions
        PROVE  /\ r[p].type = fd.raw.data[p].type /\ r[p].num = fd.raw.data[p].num
               /\ p > m => r[p] = fd.raw.data[p]
               /\ p <= m /\ IsEp(p) => auto[Idx(p)] # 0 /\ r[p].addr = Given(auto, Idx(p))
    <3>1. CASE p = m
      <4>1. r[p] = b /\ ~(p > m)
        BY <1>6, <1>10, <3>1
      <4> QED
        BY <1>1, <1>2, <1>4, <1>9, <1>g, <3>1, <4>1
    <3>2. CASE p # m
      BY <1>6, <1>9, <1>10, <3>2
    <3> QED
      BY <3>1, <3>2
  <2> QED
    BY <2>1
<1>12. ASSUME NEW j \in 1..fd.eps_count, e[j].descs[1] # 0
       PROVE  e[j].descs[1] \in Positions /\ e[j].descs[1] <= m
              /\ IsEp(e[j].descs[1]) /\ Idx(e[j].descs[1]) = j
  <2>0. e[j].descs[1] = f.eps[j].descs[1] \/ (j = i /\ e[j].descs[1] = m)
    BY <1>g
  <2>1. CASE e[j].descs[1] = f.eps[j].descs[1]
    <3>1. PICK q \in Positions : q = e[j].descs[1] /\ q <= n /\ IsEp(q) /\ Idx(q) = j
      BY <1>9, <1>12, <2>1
    <3>2. q \in Int
      BY <1>10
    <3> QED
      BY <3>1, <3>2
  <2>2. CASE j = i /\ e[j].descs[1] = m
    <3>1. m <= m
      OBVIOUS
    <3> QED
      BY <1>g, <2>2, <3>1
  <2> QED
    BY <2>0, <2>1, <2>2
<1> QED
  BY <1>8, <1>9, <1>11, <1>12 DEF Renamed

(* One step of __ffs_func_bind_do_descs, whichever speed it takes itself   *)
(* to be reading.                                                          *)
LEMMA BindDescStep ==
  ASSUME FdIInv, fd.state = "ACTIVE", NEW auto \in Autos, NEW first, NEW n \in Nat,
         NEW m \in Positions, m = n + 1, NEW k, NEW f, f.pc = "binding", Renamed(f, auto, first, n)
  PROVE  Renamed(BindDesc(f, k, m, auto), auto, first, m)
<1> DEFINE s == Reading(f)
           g == [f EXCEPT !.descs[s].at[k] = m]
           d == f.raw[m]
           i == Addr2Idx(d.addr)
           old == f.eps[i]
           v == BindDesc(f, k, m, auto)
<1>1. f \in Fns /\ d = fd.raw.data[m] /\ m \in Nat
  <2>1. m > n /\ m \in Nat
    OBVIOUS
  <2> QED
    BY <2>1 DEF Renamed
<1>2. s \in Speeds
  BY DEF Reading, Speeds
<1>3. v = IF d.type # "endpoint" THEN g
          ELSE IF old.descs[s] # 0 THEN [g EXCEPT !.pc = "failed"]
          ELSE IF old.ep # 0
          THEN IF old.descs[1] = 0 THEN [g EXCEPT !.pc = "stuck"]
               ELSE [g EXCEPT !.eps[i].descs[s] = m,
                              !.raw[m].addr = f.raw[old.descs[1]].addr]
          ELSE IF auto[i] = 0 THEN [g EXCEPT !.pc = "failed"]
          ELSE [g EXCEPT !.eps[i] = [@ EXCEPT !.descs[s] = m, !.ep = auto[i]],
                         !.raw[m].addr = Rewritten(d, auto[i])]
  BY DEF BindDesc
<1>4. i = Idx(m) /\ (d.type = "endpoint" <=> IsEp(m))
  BY <1>1 DEF Idx, IsEp
<1> HIDE DEF s, d, i, v
<1>5. Renamed(g, auto, first, n) /\ g.pc = f.pc /\ g.eps = f.eps /\ g.raw = f.raw
      /\ g.inums = f.inums /\ g.next = f.next
  <2>1. PICK D \in [Speeds -> Pointers] : g = [f EXCEPT !.descs = D]
    <3>0. g = [f EXCEPT !.descs = [f.descs EXCEPT ![s] =
                                     [f.descs[s] EXCEPT !.at = [f.descs[s].at EXCEPT ![k] = m]]]]
      BY <1>1, <1>2 DEF Fns, Pointers
    <3>4. f.descs[s] \in Pointers
      BY <1>1, <1>2 DEF Fns
    <3>1. PICK at \in [1..MaxSlots -> Nat] : at = [f.descs[s].at EXCEPT ![k] = m]
      BY <1>1, <3>4 DEF Pointers
    <3>2. PICK q \in Pointers : q = [f.descs[s] EXCEPT !.at = at]
      BY <3>4 DEF Pointers
    <3>3. [f.descs EXCEPT ![s] = q] \in [Speeds -> Pointers]
      BY <1>1, <1>2, <3>2 DEF Fns
    <3> QED
      BY <3>0, <3>1, <3>2, <3>3
  <2> HIDE DEF g
  <2> QED
    BY <1>1, <2>1, PointersOnly
<1> HIDE DEF g
<1>6. g \in Fns
  BY <1>5 DEF Renamed
<1>7. CASE v = [g EXCEPT !.pc = "failed"] \/ v = [g EXCEPT !.pc = "stuck"]
  <2>1. PICK c \in {"failed", "stuck"} : v = [g EXCEPT !.pc = c]
    BY <1>7
  <2>2. Renamed(v, auto, first, m)
    BY <1>6, <2>1, Stopped
  <2> QED
    BY <2>2 DEF v
<1>8. CASE v = g /\ ~IsEp(m)
  <2>0. \A p \in Positions : (p > m => p > n) /\ (p <= m => p <= n \/ p = m)
    <3>1. \A p \in Positions : p \in Int
      BY DEF Positions
    <3> QED
      BY <3>1
  <2>1. \A j \in 1..fd.eps_count : g.eps[j].descs[1] # 0 =>
          g.eps[j].descs[1] \in Positions /\ g.eps[j].descs[1] <= m
          /\ IsEp(g.eps[j].descs[1]) /\ Idx(g.eps[j].descs[1]) = j
    <3>1. \A j \in 1..fd.eps_count : g.eps[j].descs[1] # 0 =>
            g.eps[j].descs[1] \in Positions /\ g.eps[j].descs[1] <= n
            /\ IsEp(g.eps[j].descs[1]) /\ Idx(g.eps[j].descs[1]) = j
      BY <1>5 DEF Renamed
    <3>2. \A q \in Positions : q <= n => q <= m
      <4>1. \A p \in Positions : p \in Int
        BY DEF Positions
      <4> QED
        BY <4>1
    <3> QED
      BY <3>1, <3>2
  <2>2. Renamed(g, auto, first, m)
    BY <1>5, <1>8, <2>0, <2>1 DEF Renamed
  <2> QED
    BY <1>8, <2>2 DEF v
<1>9. ASSUME IsEp(m) PROVE i \in 1..fd.eps_count
  BY <1>4, <1>9, Indices
<1>a. ASSUME IsEp(m), auto[i] # 0, NEW e \in [1..fd.eps_count -> Slots],
             v = [g EXCEPT !.eps = e, !.raw[m].addr = Given(auto, i)],
             \A j \in 1..fd.eps_count : j # i => e[j] = f.eps[j],
             e[i].descs[1] \in {f.eps[i].descs[1], m}
      PROVE  Renamed(v, auto, first, m)
  <2>1. i \in 1..fd.eps_count /\ i = Idx(m) /\ g.pc = "binding" /\ g.eps = f.eps
        /\ Renamed(g, auto, first, n)
    BY <1>4, <1>5, <1>9, <1>a
  <2>2. /\ \A j \in 1..fd.eps_count : j # i => e[j] = g.eps[j]
        /\ e[i].descs[1] \in {g.eps[i].descs[1], m}
    BY <1>a, <2>1
  <2>3. Gives(g, v, auto, m, i, e)
    BY <1>a, <2>1, <2>2 DEF Gives
  <2> HIDE DEF old
  <2> QED
    BY <2>1, <2>3, Addressed
<1>b. CASE /\ IsEp(m) /\ old.ep # 0 /\ old.descs[1] # 0
           /\ v = [g EXCEPT !.eps[i].descs[s] = m,
                            !.raw[m].addr = f.raw[old.descs[1]].addr]
  <2>1. i \in 1..fd.eps_count
    BY <1>9, <1>b
  <2>2. PICK q \in Positions : q = old.descs[1] /\ q <= n /\ IsEp(q) /\ Idx(q) = i
    BY <1>b, <2>1 DEF Renamed
  <2>3. auto[i] # 0 /\ f.raw[q].addr = Given(auto, i)
    BY <2>2 DEF Renamed
  <2>b. f.eps[i] \in Slots
    BY <1>1, <2>1 DEF Fns
  <2>4. PICK t \in [Speeds -> Nat] : t = [f.eps[i].descs EXCEPT ![s] = m]
    BY <1>1, <2>b DEF Slots
  <2>5. PICK z \in Slots : z = [f.eps[i] EXCEPT !.descs = t]
    BY <2>b DEF Slots
  <2>6. z.descs = t /\ t[1] \in {f.eps[i].descs[1], m}
    <3>1. f.eps[i] \in Slots /\ 1 \in Speeds
      BY <2>b DEF Speeds
    <3> QED
      BY <1>2, <2>4, <2>5, <3>1 DEF Slots
  <2>7. PICK e \in [1..fd.eps_count -> Slots] : e = [f.eps EXCEPT ![i] = z]
    BY <1>1, <2>1, <2>5 DEF Fns
  <2>8. e[i] = z /\ \A j \in 1..fd.eps_count : j # i => e[j] = f.eps[j]
    BY <1>1, <2>1, <2>7 DEF Fns
  <2>9. v = [g EXCEPT !.eps = e, !.raw[m].addr = Given(auto, i)]
    BY <1>5, <1>b, <2>2, <2>3, <2>4, <2>5, <2>7
  <2>10. Renamed(v, auto, first, m)
    BY <1>a, <1>b, <2>3, <2>6, <2>8, <2>9
  <2> QED
    BY <2>10 DEF v
<1>c. CASE /\ IsEp(m) /\ auto[i] # 0
           /\ v = [g EXCEPT !.eps[i] = [@ EXCEPT !.descs[s] = m, !.ep = auto[i]],
                            !.raw[m].addr = Rewritten(d, auto[i])]
  <2>a. Rewritten(d, auto[i]) = Given(auto, i)
    <3>1. fd.addrmap[i] = d.addr
      BY <1>1, <1>4, <1>c, Indices
    <3> QED
      BY <3>1 DEF Rewritten, Given
  <2>1. i \in 1..fd.eps_count
    BY <1>9, <1>c
  <2>2. auto[i] \in Nat
    BY <2>1 DEF Autos
  <2>b. f.eps[i] \in Slots
    BY <1>1, <2>1 DEF Fns
  <2>4. PICK t \in [Speeds -> Nat] : t = [f.eps[i].descs EXCEPT ![s] = m]
    BY <1>1, <2>b DEF Slots
  <2>5. PICK z \in Slots : z = [f.eps[i] EXCEPT !.descs = t, !.ep = auto[i]]
    BY <2>2, <2>b DEF Slots
  <2>6. z.descs = t /\ t[1] \in {f.eps[i].descs[1], m}
    <3>1. f.eps[i] \in Slots /\ 1 \in Speeds
      BY <2>b DEF Speeds
    <3> QED
      BY <1>2, <2>4, <2>5, <3>1 DEF Slots
  <2>7. PICK e \in [1..fd.eps_count -> Slots] : e = [f.eps EXCEPT ![i] = z]
    BY <1>1, <2>1, <2>5 DEF Fns
  <2>8. e[i] = z /\ \A j \in 1..fd.eps_count : j # i => e[j] = f.eps[j]
    BY <1>1, <2>1, <2>7 DEF Fns
  <2>9. v = [g EXCEPT !.eps = e, !.raw[m].addr = Given(auto, i)]
    BY <1>5, <1>c, <2>a, <2>4, <2>5, <2>7
  <2>10. Renamed(v, auto, first, m)
    BY <1>a, <1>c, <2>6, <2>8, <2>9
  <2> QED
    BY <2>10 DEF v
<1> QED
  BY <1>3, <1>4, <1>7, <1>8, <1>b, <1>c

(* The endpoints of one speed.                                             *)
LEMMA BindSpeedRenames ==
  ASSUME FdIInv, fd.state = "ACTIVE", NEW auto \in Autos, NEW first, NEW s \in Speeds,
         NEW f, Renamed(f, auto, first, Start(s))
  PROVE  Renamed(BindSpeed(f, s, auto), auto, first, Start(s) + fd.raw.counts[s])
<1>1. PICK lo \in Nat, n \in Nat :
        /\ lo = Start(s) /\ n = fd.raw.counts[s] /\ lo + n <= Len(fd.raw.data)
  <2>1. PICK l, h : l = End(fd.raw, s - 1) /\ h = End(fd.raw, s)
    OBVIOUS
  <2>2. FdTypeOK /\ BlockAgrees(fd, fd.raw)
    BY DEF FdIInv
  <2>3. l \in Nat /\ h <= End(fd.raw, 3) /\ l = Start(s) /\ h = Start(s) + fd.raw.counts[s]
    BY <2>1, <2>2, Sections
  <2>4. fd.raw.counts[s] \in Nat /\ End(fd.raw, 3) = Len(fd.raw.data)
    BY <2>2 DEF FdTypeOK, DescBlocks, BlockAgrees
  <2> QED
    BY <2>3, <2>4
<1>2. \A k \in 1..n : lo + k \in Positions /\ lo + k = (lo + (k - 1)) + 1 /\ lo + (k - 1) \in Nat
  <2>1. Len(fd.raw.data) \in Nat
    <3>1. fd.raw.data \in Seq(Descs)
      BY DEF FdIInv, FdTypeOK, DescBlocks
    <3> QED
      BY <3>1
  <2>2. PICK len \in Nat : len = Len(fd.raw.data)
    BY <2>1
  <2>3. Positions = 1..len
    BY <2>2 DEF Positions
  <2>4. lo \in Nat /\ n \in Nat /\ lo + n <= len
    BY <1>1, <2>2
  <2> QED
    BY ONLY <2>2, <2>3, <2>4
<1> DEFINE a == [f EXCEPT !.descs[s] = [NoPointer EXCEPT !.set = TRUE]]
           Step(k, w) == IF w.pc # "binding" THEN w ELSE BindDesc(w, k, lo + k, auto)
           S == [k \in 0..n |-> {w \in Fns : Renamed(w, auto, first, lo + k)}]
           F == [q \in (1..n) \X Fns |-> Step(q[1], q[2])]
           Is(g) == g = [k \in 0..n |-> IF k = 0 THEN a ELSE Step(k, g[k - 1])]
<1>3. CASE n = 0 \/ f.pc # "binding"
  <2>1. BindSpeed(f, s, auto) = f
    BY <1>1, <1>3 DEF BindSpeed
  <2>2. Renamed(f, auto, first, lo + n)
    <3>1. CASE n = 0
      BY <1>1, <3>1
    <3>2. CASE f.pc # "binding"
      BY <3>2 DEF Renamed
    <3> QED
      BY <1>3, <3>1, <3>2
  <2> QED
    BY <1>1, <2>1, <2>2
<1>4. CASE ~(n = 0 \/ f.pc # "binding")
  <2>1. a \in S[0]
    <3>1. f \in Fns
      BY DEF Renamed
    <3>2. PICK q \in Pointers : q = [NoPointer EXCEPT !.set = TRUE]
      <4>1. NoPointer \in Pointers
        <5>1. PICK b \in BOOLEAN, t \in [1..MaxSlots -> Nat] :
                b = FALSE /\ t = [k \in 1..MaxSlots |-> 0]
          OBVIOUS
        <5>2. NoPointer = [set |-> b, at |-> t]
          BY <5>1 DEF NoPointer
        <5> QED
          BY <5>2 DEF Pointers
      <4> QED
        BY <4>1 DEF Pointers
    <3>3. PICK D \in [Speeds -> Pointers] : D = [f.descs EXCEPT ![s] = q]
      BY <3>1, <3>2 DEF Fns
    <3>4. a = [f EXCEPT !.descs = D]
      BY <3>2, <3>3
    <3> HIDE DEF a
    <3>5. Renamed(a, auto, first, lo)
      BY <1>1, <3>1, <3>4, PointersOnly
    <3>6. a \in Fns /\ lo + 0 = lo /\ 0 \in 0..n
      BY <3>5 DEF Renamed
    <3> QED
      BY <3>5, <3>6
  <2>2. ASSUME NEW k \in 1..n, NEW w \in S[k - 1] PROVE Step(k, w) \in S[k] /\ w \in Fns
    <3>1. k \in 0..n /\ k - 1 \in 0..n
      BY <2>2
    <3>2. w \in Fns /\ Renamed(w, auto, first, lo + (k - 1))
      BY <3>1
    <3>3. Renamed(Step(k, w), auto, first, lo + k)
      <4>1. ASSUME w.pc = "binding" PROVE Renamed(BindDesc(w, k, lo + k, auto), auto, first, lo + k)
        <5>1. PICK m \in Positions, c \in Nat : m = lo + k /\ m = c + 1 /\ c = lo + (k - 1)
          BY <1>2, <2>2
        <5>2. Renamed(w, auto, first, c)
          BY <3>2, <5>1
        <5>3. Renamed(BindDesc(w, k, m, auto), auto, first, m)
          BY <4>1, <5>1, <5>2, BindDescStep
        <5> QED
          BY <5>1, <5>3
      <4>2. ASSUME w.pc # "binding" PROVE Renamed(w, auto, first, lo + k)
        BY <3>2, <4>2 DEF Renamed
      <4> QED
        BY <4>1, <4>2
    <3> HIDE DEF Step
    <3>4. Step(k, w) \in Fns
      BY <3>3 DEF Renamed
    <3> QED
      BY <3>1, <3>2, <3>3, <3>4
  <2>3. \A k \in 1..n : \A w \in S[k - 1] : F[<<k, w>>] \in S[k] /\ F[<<k, w>>] = Step(k, w)
    <3> HIDE DEF S, Step
    <3> QED
      BY <2>2
  <2>4. PICK h : Walk(h, n, a, F) /\ \A k \in 0..n : h[k] \in S[k]
    <3> HIDE DEF S, F, a
    <3> QED
      BY <2>1, <2>3, WalkThrough
  <2>5. \E g : Is(g)
    <3>1. \A k \in 0..n : h[k] = IF k = 0 THEN a ELSE Step(k, h[k - 1])
      <4> HIDE DEF S, F, a, Step
      <4>1. \A k \in 1..n : k \in 0..n /\ k - 1 \in 0..n
        OBVIOUS
      <4>2. \A k \in 1..n : h[k] = F[<<k, h[k - 1]>>] /\ h[k - 1] \in S[k - 1]
        BY <2>4, <4>1 DEF Walk
      <4>3. \A k \in 1..n : h[k] = Step(k, h[k - 1])
        BY <2>3, <4>2
      <4>4. h[0] = a /\ \A k \in 0..n : k # 0 => k \in 1..n
        BY <2>4 DEF Walk
      <4> QED
        BY <4>3, <4>4
    <3>2. DOMAIN h = 0..n /\ h = [k \in DOMAIN h |-> h[k]]
      BY <2>4 DEF Walk
    <3> HIDE DEF a, Step
    <3>3. Is(h)
      BY <3>1, <3>2
    <3> HIDE DEF Is
    <3> QED
      BY <3>3
  <2> DEFINE g == CHOOSE g : Is(g)
  <2>6. Is(g)
    <3> HIDE DEF Is
    <3> QED
      BY <2>5, Zenon
  <2>7. BindSpeed(f, s, auto) = g[n]
    BY <1>1, <1>4 DEF BindSpeed
  <2> HIDE DEF g
  <2>8. g[0] = a /\ \A k \in 1..n : g[k] = Step(k, g[k - 1])
    <3> HIDE DEF a, Step
    <3>1. \A k \in 1..n : k \in 0..n /\ k # 0
      OBVIOUS
    <3> QED
      BY <2>6, <3>1
  <2> DEFINE T == {k \in 0..n : g[k] \in S[k]}
  <2>9. 0 \in T
    <3> HIDE DEF S, a
    <3> QED
      BY <2>1, <2>8
  <2>10. ASSUME NEW k \in 1..n, k - 1 \in T PROVE k \in T
    <3> HIDE DEF S, Step
    <3>1. g[k - 1] \in S[k - 1] /\ k \in 0..n
      BY <2>10
    <3>2. Step(k, g[k - 1]) \in S[k]
      BY <2>2, <3>1
    <3> QED
      BY <2>8, <3>1, <3>2
  <2> HIDE DEF T
  <2>11. n \in T
    <3>1. \A k \in 0..n : k \in T
      BY <2>9, <2>10, UpTo, Zenon
    <3> QED
      BY <3>1
  <2>12. Renamed(g[n], auto, first, lo + n)
    BY <2>11 DEF T
  <2> QED
    BY <1>1, <2>7, <2>12
<1> QED
  BY <1>3, <1>4

\* What __ffs_func_bind_do_nums has done to h up to descriptor n: an interface
\* has one number for all its descriptors, of its own.
Numbered(h, f, n) ==
  /\ f \in Fns /\ f.pc = h.pc
  /\ \A p \in Positions : f.raw[p].type = fd.raw.data[p].type /\ f.raw[p].addr = h.raw[p].addr
  /\ \A p \in Positions : p > n => f.raw[p].num = fd.raw.data[p].num
  /\ \A p \in Positions : p <= n /\ IsIf(p) =>
       LET i == fd.raw.data[p].num + 1 IN f.inums[i] >= 0 /\ f.raw[p].num = f.inums[i]
  /\ \A i \in 1..fd.interfaces_count : f.inums[i] < f.next
  /\ \A i, j \in 1..fd.interfaces_count : f.inums[i] = f.inums[j] /\ f.inums[i] >= 0 => i = j

\* The function in which interface i has a number.
WithNumber(f, i) ==
  IF f.inums[i] >= 0 THEN f ELSE [f EXCEPT !.inums[i] = f.next, !.next = @ + 1]

(* A number given to an interface that has none is given to no other.      *)
LEMMA FreshNumber ==
  ASSUME NEW f \in Fns, NEW i \in 1..fd.interfaces_count, NEW g, g = WithNumber(f, i),
         NEW h, NEW n, Numbered(h, f, n),
         \A p \in Positions : IsIf(p) => fd.raw.data[p].num + 1 \in 1..fd.interfaces_count
  PROVE  Numbered(h, g, n) /\ g.inums[i] >= 0 /\ g.raw = f.raw /\ g.pc = f.pc
<1>1. CASE f.inums[i] >= 0
  BY <1>1 DEF WithNumber
<1>2. CASE ~(f.inums[i] >= 0)
  <2>0. f.next \in Nat /\ f.next + 1 \in Nat /\ f.next < f.next + 1 /\ f.next \in Int
    BY DEF Fns
  <2>1. PICK x \in Nat, y \in Nat : x = f.next /\ y = f.next + 1 /\ x < y /\ x \in Int
    BY <2>0, Zenon
  <2>2. PICK c \in [1..fd.interfaces_count -> Int] : c = [f.inums EXCEPT ![i] = x]
    <3>1. f.inums \in [1..fd.interfaces_count -> Int]
      BY DEF Fns
    <3>2. [f.inums EXCEPT ![i] = x] \in [1..fd.interfaces_count -> Int]
      BY <2>1, <3>1
    <3> QED
      BY <3>2
  <2>3. g = [f EXCEPT !.inums = c, !.next = y]
    BY <1>2, <2>1, <2>2 DEF WithNumber
  <2>4. g \in Fns /\ g.pc = f.pc /\ g.raw = f.raw /\ g.inums = c /\ g.next = y
    BY <2>2, <2>3 DEF Fns
  <2>5. \A j \in 1..fd.interfaces_count : c[j] = (IF j = i THEN x ELSE f.inums[j]) /\ f.inums[j] \in Int
    BY <2>2 DEF Fns
  <2>6. \A j \in 1..fd.interfaces_count : c[j] < y
    <3>1. \A j \in 1..fd.interfaces_count : f.inums[j] < x
      BY <2>1 DEF Numbered
    <3> QED
      BY <2>1, <2>5, <3>1
  <2>7. \A j, k \in 1..fd.interfaces_count : c[j] = c[k] /\ c[j] >= 0 => j = k
    <3>1. \A j \in 1..fd.interfaces_count : f.inums[j] < x
      BY <2>1 DEF Numbered
    <3>2. \A j, k \in 1..fd.interfaces_count :
            f.inums[j] = f.inums[k] /\ f.inums[j] >= 0 => j = k
      BY DEF Numbered
    <3>3. ASSUME NEW j \in 1..fd.interfaces_count, NEW k \in 1..fd.interfaces_count,
                 c[j] = c[k], c[j] >= 0
          PROVE  j = k
      <4>1. c[j] # x \/ j = i
        BY <2>1, <2>5, <3>1
      <4>2. c[k] # x \/ k = i
        BY <2>1, <2>5, <3>1
      <4> QED
        BY <2>5, <3>2, <3>3, <4>1, <4>2
    <3> QED
      BY <3>3
  <2>8. ASSUME NEW p \in Positions, p <= n, IsIf(p)
        PROVE  /\ c[fd.raw.data[p].num + 1] >= 0
               /\ f.raw[p].num = c[fd.raw.data[p].num + 1]
    <3>1. PICK j \in 1..fd.interfaces_count : j = fd.raw.data[p].num + 1
      BY <2>8
    <3>2. f.inums[j] >= 0 /\ f.raw[p].num = f.inums[j]
      BY <2>8, <3>1 DEF Numbered
    <3>3. j # i
      BY <1>2, <3>2
    <3> QED
      BY <2>5, <3>1, <3>2, <3>3
  <2>9. c[i] >= 0
    BY <2>1, <2>5
  <2>10. /\ f.pc = h.pc
         /\ \A p \in Positions : f.raw[p].type = fd.raw.data[p].type /\ f.raw[p].addr = h.raw[p].addr
         /\ \A p \in Positions : p > n => f.raw[p].num = fd.raw.data[p].num
    BY DEF Numbered
  <2>11. Numbered(h, g, n)
    <3>1. /\ g.pc = h.pc
          /\ \A p \in Positions : g.raw[p].type = fd.raw.data[p].type /\ g.raw[p].addr = h.raw[p].addr
          /\ \A p \in Positions : p > n => g.raw[p].num = fd.raw.data[p].num
      BY <2>4, <2>10
    <3>2. /\ \A j \in 1..fd.interfaces_count : g.inums[j] < g.next
          /\ \A j, k \in 1..fd.interfaces_count : g.inums[j] = g.inums[k] /\ g.inums[j] >= 0 => j = k
      BY <2>4, <2>6, <2>7
    <3>3. \A p \in Positions : p <= n /\ IsIf(p) =>
            LET j == fd.raw.data[p].num + 1 IN g.inums[j] >= 0 /\ g.raw[p].num = g.inums[j]
      BY <2>4, <2>8
    <3> QED
      BY <2>4, <3>1, <3>2, <3>3, Zenon DEF Numbered
  <2> QED
    BY <2>4, <2>9, <2>11
<1> QED
  BY <1>1, <1>2

(* One step of __ffs_func_bind_do_nums.                                    *)
LEMMA NumberedStep ==
  ASSUME FdIInv, fd.state = "ACTIVE", NEW h, NEW n \in Nat, NEW m \in Positions, m = n + 1,
         NEW f, Numbered(h, f, n)
  PROVE  Numbered(h, BindNum(f, m), m)
<1>0. f \in Fns /\ f.raw[m].type = fd.raw.data[m].type /\ f.raw[m].num = fd.raw.data[m].num
  <2>1. m > n
    OBVIOUS
  <2> QED
    BY <2>1 DEF Numbered
<1>1. \A p \in Positions : p \in Int /\ (p > m => p > n) /\ (p <= m => p <= n \/ p = m)
                           /\ (p <= n => p # m) /\ (p > m => p # m)
  <2>1. \A p \in Positions : p \in Int
    BY DEF Positions
  <2> QED
    BY <2>1
<1>2. \A p \in Positions : IsIf(p) => fd.raw.data[p].num + 1 \in 1..fd.interfaces_count
  BY Indices
<1>3. CASE ~IsIf(m)
  <2>1. BindNum(f, m) = f
    BY <1>0, <1>3 DEF BindNum, IsIf
  <2>2. Numbered(h, f, m)
    BY <1>1, <1>3 DEF Numbered
  <2> QED
    BY <2>1, <2>2
<1>4. CASE IsIf(m)
  <2>1. PICK i \in 1..fd.interfaces_count : i = fd.raw.data[m].num + 1
    BY <1>2, <1>4
  <2>2. PICK g : g = WithNumber(f, i)
    OBVIOUS
  <2>3. BindNum(f, m) = [g EXCEPT !.raw[m].num = g.inums[i]]
    BY <1>0, <1>4, <2>1, <2>2 DEF BindNum, IsIf, WithNumber
  <2>4. Numbered(h, g, n) /\ g.inums[i] >= 0 /\ g.raw = f.raw /\ g.pc = f.pc
    BY <1>0, <1>2, <2>2, FreshNumber
  <2>5. g \in Fns
    BY <2>4 DEF Numbered
  <2>6. PICK x \in Nat : x = g.inums[i]
    <3>1. g.inums[i] \in Int
      BY <2>5 DEF Fns
    <3> QED
      BY <2>4, <3>1
  <2>7. PICK b \in Descs : b = [g.raw[m] EXCEPT !.num = x]
    BY <2>5 DEF Fns, Descs
  <2>8. b.num = x /\ b.type = g.raw[m].type /\ b.addr = g.raw[m].addr
    <3>1. g.raw[m] \in Descs
      BY <2>5 DEF Fns
    <3> QED
      BY <2>7, <3>1 DEF Descs
  <2>9. PICK r \in [Positions -> Descs] : r = [g.raw EXCEPT ![m] = b]
    BY <2>5 DEF Fns
  <2>10. \A p \in Positions : r[p] = IF p = m THEN b ELSE g.raw[p]
    BY <2>5, <2>9 DEF Fns
  <2>11. PICK v : v = [g EXCEPT !.raw = r]
    OBVIOUS
  <2>12. BindNum(f, m) = v
    BY <2>3, <2>6, <2>7, <2>9, <2>11
  <2>13. v \in Fns /\ v.pc = g.pc /\ v.inums = g.inums /\ v.next = g.next /\ v.raw = r
    BY <2>5, <2>9, <2>11 DEF Fns
  <2>14. ASSUME NEW p \in Positions
         PROVE  /\ r[p].type = fd.raw.data[p].type /\ r[p].addr = h.raw[p].addr
                /\ p > m => r[p].num = fd.raw.data[p].num
                /\ p <= m /\ IsIf(p) => g.inums[fd.raw.data[p].num + 1] >= 0
                                        /\ r[p].num = g.inums[fd.raw.data[p].num + 1]
    <3>1. /\ g.raw[p].type = fd.raw.data[p].type /\ g.raw[p].addr = h.raw[p].addr
          /\ p > n => g.raw[p].num = fd.raw.data[p].num
          /\ p <= n /\ IsIf(p) => g.inums[fd.raw.data[p].num + 1] >= 0
                                  /\ g.raw[p].num = g.inums[fd.raw.data[p].num + 1]
      BY <2>4 DEF Numbered
    <3>2. CASE p = m
      <4>1. r[p] = b /\ ~(p > m)
        BY <1>1, <2>10, <3>2
      <4> QED
        BY <2>1, <2>4, <2>6, <2>8, <3>1, <3>2, <4>1
    <3>3. CASE p # m
      BY <1>1, <2>10, <3>1, <3>3
    <3> QED
      BY <3>2, <3>3
  <2>15. /\ g.pc = h.pc
         /\ \A j \in 1..fd.interfaces_count : g.inums[j] < g.next
         /\ \A j, k \in 1..fd.interfaces_count : g.inums[j] = g.inums[k] /\ g.inums[j] >= 0 => j = k
    BY <2>4 DEF Numbered
  <2>16. Numbered(h, v, m)
    <3>1. /\ v.pc = h.pc
          /\ \A p \in Positions : v.raw[p].type = fd.raw.data[p].type /\ v.raw[p].addr = h.raw[p].addr
          /\ \A p \in Positions : p > m => v.raw[p].num = fd.raw.data[p].num
      BY <2>13, <2>14, <2>15
    <3>2. /\ \A j \in 1..fd.interfaces_count : v.inums[j] < v.next
          /\ \A j, k \in 1..fd.interfaces_count : v.inums[j] = v.inums[k] /\ v.inums[j] >= 0 => j = k
      BY <2>13, <2>15
    <3>3. \A p \in Positions : p <= m /\ IsIf(p) =>
            LET j == fd.raw.data[p].num + 1 IN v.inums[j] >= 0 /\ v.raw[p].num = v.inums[j]
      BY <2>13, <2>14
    <3> QED
      BY <2>13, <3>1, <3>2, <3>3, Zenon DEF Numbered
  <2> QED
    BY <2>12, <2>16
<1> QED
  BY <1>3, <1>4

(* The bytes of the descriptors keep their number.                         *)
LEMMA RawLength ==
  ASSUME FdIInv, NEW r \in [Positions -> Descs]
  PROVE  Len(r) = Len(fd.raw.data) /\ Len(fd.raw.data) \in Nat
<1>1. Len(fd.raw.data) \in Nat
  <2>1. fd.raw.data \in Seq(Descs)
    BY DEF FdIInv, FdTypeOK, DescBlocks
  <2> QED
    BY <2>1
<1>2. PICK n \in Nat : n = Len(fd.raw.data)
  BY <1>1
<1>3. r \in [1..n -> Descs]
  BY <1>2 DEF Positions
<1>4. r \in Seq(Descs) /\ DOMAIN r = 1..n
  BY <1>3
<1>5. DOMAIN r = 1..Len(r) /\ Len(r) \in Nat
  BY <1>4
<1>6. 1..Len(r) = 1..n
  BY <1>4, <1>5
<1>7. Len(r) = n
  BY <1>2, <1>5, <1>6
<1> QED
  BY <1>2, <1>7

(* The second walk, over all the descriptors.                              *)
LEMMA BindNumsNumbers ==
  ASSUME FdIInv, fd.state = "ACTIVE", NEW f, f.pc = "binding", Numbered(f, f, 0)
  PROVE  Numbered(f, BindNums(f), Len(fd.raw.data))
<1>0. f \in Fns
  BY DEF Numbered
<1>1. PICK n \in Nat : n = Len(f.raw) /\ n = Len(fd.raw.data)
  <2>1. f.raw \in [Positions -> Descs]
    BY <1>0 DEF Fns
  <2> QED
    BY <2>1, RawLength
<1>2. \A k \in 1..n : k \in Positions /\ k = (k - 1) + 1 /\ k - 1 \in Nat
  BY <1>1 DEF Positions
<1> DEFINE S == [k \in 0..n |-> {w \in Fns : Numbered(f, w, k)}]
           F == [q \in (1..n) \X Fns |-> BindNum(q[2], q[1])]
           Is(g) == g = [k \in 0..n |-> IF k = 0 THEN f ELSE BindNum(g[k - 1], k)]
<1>3. f \in S[0]
  BY <1>0
<1>4. ASSUME NEW k \in 1..n, NEW w \in S[k - 1] PROVE BindNum(w, k) \in S[k] /\ w \in Fns
  <2>1. k \in 0..n /\ k - 1 \in 0..n
    OBVIOUS
  <2>2. w \in Fns /\ Numbered(f, w, k - 1)
    BY <2>1
  <2>3. PICK c \in Nat, m \in Positions : c = k - 1 /\ m = k /\ m = c + 1
    BY <1>2
  <2>4. Numbered(f, w, c)
    BY <2>2, <2>3
  <2>5. Numbered(f, BindNum(w, m), m)
    BY <2>3, <2>4, NumberedStep
  <2>6. BindNum(w, k) \in Fns /\ Numbered(f, BindNum(w, k), k)
    <3>1. BindNum(w, m) \in Fns
      BY ONLY <2>5 DEF Numbered
    <3> QED
      BY <2>3, <2>5, <3>1, Zenon
  <2> QED
    BY <2>1, <2>2, <2>6
<1>5. \A k \in 1..n : \A w \in S[k - 1] : F[<<k, w>>] \in S[k] /\ F[<<k, w>>] = BindNum(w, k)
  <2> HIDE DEF S
  <2> QED
    BY <1>4
<1>6. PICK h : Walk(h, n, f, F) /\ \A k \in 0..n : h[k] \in S[k]
  <2> HIDE DEF S, F
  <2> QED
    BY <1>3, <1>5, WalkThrough
<1>7. \E g : Is(g)
  <2>1. \A k \in 0..n : h[k] = IF k = 0 THEN f ELSE BindNum(h[k - 1], k)
    <3> HIDE DEF S, F
    <3>1. \A k \in 1..n : k \in 0..n /\ k - 1 \in 0..n
      OBVIOUS
    <3>2. \A k \in 1..n : h[k] = F[<<k, h[k - 1]>>] /\ h[k - 1] \in S[k - 1]
      BY <1>6, <3>1 DEF Walk
    <3>3. \A k \in 1..n : h[k] = BindNum(h[k - 1], k)
      BY <1>5, <3>2
    <3>4. h[0] = f /\ \A k \in 0..n : k # 0 => k \in 1..n
      BY <1>6 DEF Walk
    <3> QED
      BY <3>3, <3>4
  <2>2. DOMAIN h = 0..n /\ h = [k \in DOMAIN h |-> h[k]]
    BY <1>6 DEF Walk
  <2>3. Is(h)
    BY <2>1, <2>2
  <2> HIDE DEF Is
  <2> QED
    BY <2>3
<1> DEFINE g == CHOOSE g : Is(g)
<1>8. Is(g)
  <2> HIDE DEF Is
  <2> QED
    BY <1>7, Zenon
<1>9. BindNums(f) = g[n]
  BY <1>1 DEF BindNums
<1> HIDE DEF g
<1>10. g[0] = f /\ \A k \in 1..n : g[k] = BindNum(g[k - 1], k)
  <2>1. \A k \in 1..n : k \in 0..n /\ k # 0
    OBVIOUS
  <2> QED
    BY <1>8, <2>1
<1> DEFINE T == {k \in 0..n : g[k] \in S[k]}
<1>11. 0 \in T
  <2> HIDE DEF S
  <2> QED
    BY <1>3, <1>10
<1>12. ASSUME NEW k \in 1..n, k - 1 \in T PROVE k \in T
  <2> HIDE DEF S
  <2>1. g[k - 1] \in S[k - 1] /\ k \in 0..n
    BY <1>12
  <2>2. BindNum(g[k - 1], k) \in S[k]
    BY <1>4, <2>1
  <2> QED
    BY <1>10, <2>1, <2>2
<1> HIDE DEF T
<1>13. n \in T
  <2>1. \A k \in 0..n : k \in T
    BY <1>11, <1>12, UpTo, Zenon
  <2> QED
    BY <2>1
<1>14. Numbered(f, g[n], n)
  BY <1>13 DEF T
<1> QED
  BY <1>1, <1>9, <1>14

\* RenamedAlike, of any function.
Alike(f) ==
  \A p, q \in Positions :
    /\ IsIf(p) /\ IsIf(q) => (fd.raw.data[p].num = fd.raw.data[q].num <=> f.raw[p].num = f.raw[q].num)
    /\ IsEp(p) /\ IsEp(q) =>
         (fd.raw.data[p].addr = fd.raw.data[q].addr <=> f.raw[p].addr = f.raw[q].addr)

\* A configuration gives no endpoint twice.
Distinct(auto) == \A i, j \in 1..fd.eps_count : auto[i] = auto[j] /\ auto[i] # 0 => i = j

(* Both walks together.                                                    *)
LEMMA BothWalks ==
  ASSUME FdIInv, fd.state = "ACTIVE", NEW auto \in Autos, Distinct(auto), NEW first \in Nat,
         NEW g, g.pc = "binding", Renamed(g, auto, first, Len(fd.raw.data))
  PROVE  BindNums(g) \in Fns /\ BindNums(g).pc = "binding" /\ Alike(BindNums(g))
<1>0. PICK n \in Nat : n = Len(fd.raw.data)
  <2>1. fd.raw.data \in Seq(Descs)
    BY DEF FdIInv, FdTypeOK, DescBlocks
  <2> QED
    BY <2>1
<1>1. Numbered(g, g, 0)
  <2>1. /\ g \in Fns /\ g.next = first /\ \A i \in 1..fd.interfaces_count : g.inums[i] = -1
        /\ \A p \in Positions : g.raw[p].type = fd.raw.data[p].type
                                /\ g.raw[p].num = fd.raw.data[p].num
    BY DEF Renamed
  <2>2. \A i \in 1..fd.interfaces_count : g.inums[i] < g.next /\ ~(g.inums[i] >= 0)
    BY <2>1
  <2>3. \A p \in Positions : ~(p <= 0)
    BY <1>0 DEF Positions
  <2> QED
    BY <2>1, <2>2, <2>3 DEF Numbered
<1>2. PICK v : v = BindNums(g)
  OBVIOUS
<1>3. Numbered(g, v, n)
  BY <1>0, <1>1, <1>2, BindNumsNumbers
<1>4. \A p \in Positions : p <= n
  BY <1>0 DEF Positions
<1>5. \A p \in Positions : IsEp(p) => /\ auto[Idx(p)] # 0
                                      /\ v.raw[p].addr = Given(auto, Idx(p))
                                      /\ Idx(p) \in 1..fd.eps_count
                                      /\ fd.addrmap[Idx(p)] = fd.raw.data[p].addr
  <2>1. \A p \in Positions : IsEp(p) => auto[Idx(p)] # 0
                                         /\ g.raw[p].addr = Given(auto, Idx(p))
    BY <1>0, <1>4 DEF Renamed
  <2>2. \A p \in Positions : v.raw[p].addr = g.raw[p].addr
    BY <1>3 DEF Numbered
  <2> QED
    BY <2>1, <2>2, Indices
<1>6. ASSUME NEW p \in Positions, NEW q \in Positions, IsEp(p), IsEp(q)
      PROVE  fd.raw.data[p].addr = fd.raw.data[q].addr <=> v.raw[p].addr = v.raw[q].addr
  <2>1. ASSUME fd.raw.data[p].addr = fd.raw.data[q].addr PROVE v.raw[p].addr = v.raw[q].addr
    <3>1. Idx(p) = Idx(q)
      BY <2>1 DEF Idx
    <3> QED
      BY <1>5, <1>6, <3>1
  <2>2. ASSUME v.raw[p].addr = v.raw[q].addr PROVE fd.raw.data[p].addr = fd.raw.data[q].addr
    <3>1. Given(auto, Idx(p)) = Given(auto, Idx(q))
      BY <1>5, <1>6, <2>2
    <3>2. CASE fd.virtual
      BY <1>5, <1>6, <3>1, <3>2 DEF Given
    <3>3. CASE ~fd.virtual
      <4>1. Idx(p) = Idx(q)
        BY <1>5, <1>6, <3>1, <3>3 DEF Given, Distinct
      <4> QED
        BY <1>5, <1>6, <4>1
    <3> QED
      BY <3>2, <3>3
  <2> QED
    BY <2>1, <2>2
<1>7. \A p \in Positions : IsIf(p) => /\ fd.raw.data[p].num + 1 \in 1..fd.interfaces_count
                                      /\ fd.raw.data[p].num \in Nat
                                      /\ v.inums[fd.raw.data[p].num + 1] >= 0
                                      /\ v.raw[p].num = v.inums[fd.raw.data[p].num + 1]
  <2>1. \A p \in Positions : IsIf(p) => v.inums[fd.raw.data[p].num + 1] >= 0
                                        /\ v.raw[p].num = v.inums[fd.raw.data[p].num + 1]
    BY <1>3, <1>4 DEF Numbered
  <2>2. \A p \in Positions : fd.raw.data[p].num \in Nat
    BY Indices DEF Descs
  <2> QED
    BY <2>1, <2>2, Indices
<1>8. ASSUME NEW p \in Positions, NEW q \in Positions, IsIf(p), IsIf(q)
      PROVE  fd.raw.data[p].num = fd.raw.data[q].num <=> v.raw[p].num = v.raw[q].num
  <2>1. \A i, j \in 1..fd.interfaces_count : v.inums[i] = v.inums[j] /\ v.inums[i] >= 0 => i = j
    BY <1>3 DEF Numbered
  <2>0. /\ fd.raw.data[p].num + 1 \in 1..fd.interfaces_count /\ fd.raw.data[p].num \in Nat
        /\ fd.raw.data[q].num + 1 \in 1..fd.interfaces_count /\ fd.raw.data[q].num \in Nat
    BY <1>7, <1>8, Zenon
  <2>2. PICK i \in 1..fd.interfaces_count, j \in 1..fd.interfaces_count :
          i = fd.raw.data[p].num + 1 /\ j = fd.raw.data[q].num + 1
    BY <2>0, Zenon
  <2>3. v.raw[p].num = v.inums[i] /\ v.raw[q].num = v.inums[j] /\ v.inums[i] >= 0
    BY <1>7, <1>8, <2>2
  <2>4. i = j <=> fd.raw.data[p].num = fd.raw.data[q].num
    <3>1. \A x, y \in Nat : x + 1 = y + 1 <=> x = y
      OBVIOUS
    <3> QED
      BY <2>0, <2>2, <3>1, Zenon
  <2> QED
    BY <2>1, <2>3, <2>4
<1>9. Alike(v)
  BY <1>6, <1>8 DEF Alike
<1>10. v \in Fns /\ v.pc = "binding"
  BY <1>3 DEF Numbered
<1> QED
  BY <1>2, <1>9, <1>10

(* One attempt of _ffs_func_bind, after others that may have failed.       *)
LEMMA AttemptRenames ==
  ASSUME FdIInv, fd.state = "ACTIVE", fn = NoFunction \/ fn \in Fns, NEW auto \in Autos,
         Distinct(auto), NEW first \in Nat, NEW ids, NEW v, v = BindAttempt(auto, first, ids)
  PROVE  v \in Fns /\ (v.pc = "bound" => Alike(v))
<1> DEFINE f == [fn EXCEPT !.pc = "binding", !.next = first, !.raw = fd.raw.data,
                      !.eps = [i \in 1..fd.eps_count |-> [descs |-> <<0, 0, 0>>, ep |-> 0]],
                      !.inums = [n \in 1..fd.interfaces_count |-> -1]]
           g1 == BindSpeed(f, 1, auto)
           g2 == BindSpeed(g1, 2, auto)
           g  == BindSpeed(g2, 3, auto)
           h  == IF ids THEN BindNums(g) ELSE [g EXCEPT !.pc = "failed"]
<1>0. FdTypeOK /\ BlockAgrees(fd, fd.raw) /\ fd.raw.data \in Seq(Descs)
  BY DEF FdIInv, FdTypeOK, DescBlocks
<1>1. v = IF h.pc = "binding" THEN [h EXCEPT !.pc = "bound"] ELSE h
  BY DEF BindAttempt
<1>2. PICK eps \in [1..fd.eps_count -> Slots] :
        /\ eps = [i \in 1..fd.eps_count |-> [descs |-> <<0, 0, 0>>, ep |-> 0]]
        /\ \A i \in 1..fd.eps_count : eps[i].descs[1] = 0
  <2>1. PICK t \in [Speeds -> Nat], z \in Nat : t = <<0, 0, 0>> /\ z = 0 /\ t[1] = 0
    <3>1. <<0, 0, 0>> \in [Speeds -> Nat] /\ <<0, 0, 0>>[1] = 0 /\ 0 \in Nat
      BY DEF Speeds
    <3> QED
      BY <3>1
  <2>2. PICK w \in Slots : w = [descs |-> t, ep |-> z]
    BY DEF Slots
  <2>3. w.descs[1] = 0
    BY <2>1, <2>2
  <2>4. [i \in 1..fd.eps_count |-> w] \in [1..fd.eps_count -> Slots]
    OBVIOUS
  <2>5. \A i \in 1..fd.eps_count : [j \in 1..fd.eps_count |-> w][i].descs[1] = 0
    BY <2>3
  <2> QED
    BY <2>1, <2>2, <2>4, <2>5
<1>3. PICK inums \in [1..fd.interfaces_count -> Int] :
        inums = [n \in 1..fd.interfaces_count |-> -1]
  <2>1. PICK z \in Int : z = -1
    OBVIOUS
  <2>2. [n \in 1..fd.interfaces_count |-> z] \in [1..fd.interfaces_count -> Int]
    OBVIOUS
  <2> QED
    BY <2>1, <2>2
<1>4. PICK raw \in [Positions -> Descs] : raw = fd.raw.data
  BY <1>0 DEF Positions
<1>5. PICK D, p, e, c, x, r :
        /\ D \in [Speeds -> Pointers]
        /\ fn = [pc |-> p, descs |-> D, eps |-> e, inums |-> c, next |-> x, raw |-> r]
  <2>1. CASE fn = NoFunction
    <3>1. PICK b \in BOOLEAN, t \in [1..MaxSlots -> Nat] :
            b = FALSE /\ t = [k \in 1..MaxSlots |-> 0]
      OBVIOUS
    <3>2. NoPointer = [set |-> b, at |-> t]
      BY <3>1 DEF NoPointer
    <3>3. NoPointer \in Pointers
      BY <3>2 DEF Pointers
    <3>4. [s \in Speeds |-> NoPointer] \in [Speeds -> Pointers]
      BY <3>3
    <3> QED
      BY <2>1, <3>4, Zenon DEF NoFunction
  <2>2. CASE fn \in Fns
    <3>1. fn = [pc |-> fn.pc, descs |-> fn.descs, eps |-> fn.eps, inums |-> fn.inums,
                next |-> fn.next, raw |-> fn.raw]
          /\ fn.descs \in [Speeds -> Pointers]
      BY <2>2 DEF Fns
    <3> QED
      BY <3>1, Zenon
  <2> QED
    BY <2>1, <2>2
<1>6. f = [pc |-> "binding", descs |-> D, eps |-> eps, inums |-> inums, next |-> first, raw |-> raw]
  <2>1. f = [fn EXCEPT !.pc = "binding", !.next = first, !.raw = raw, !.eps = eps, !.inums = inums]
    BY <1>2, <1>3, <1>4, Zenon
  <2>2. PICK st : st = "binding"
    OBVIOUS
  <2>3. f = [[pc |-> p, descs |-> D, eps |-> e, inums |-> c, next |-> x, raw |-> r]
               EXCEPT !.pc = st, !.next = first, !.raw = raw, !.eps = eps, !.inums = inums]
    BY <1>5, <2>1, <2>2, Zenon
  <2> HIDE DEF f
  <2>4. f = [pc |-> st, descs |-> D, eps |-> eps, inums |-> inums, next |-> first, raw |-> raw]
    BY ONLY <2>3
  <2> QED
    BY <2>2, <2>4
<1> HIDE DEF f, g1, g2, g, h
<1>7. f \in Fns /\ f.pc = "binding" /\ f.eps = eps /\ f.inums = inums /\ f.next = first
      /\ f.raw = raw
  BY <1>5, <1>6 DEF Fns
<1>8. Renamed(f, auto, first, 0)
  <2>1. \A i \in 1..fd.interfaces_count : f.inums[i] = -1
    BY <1>3, <1>7
  <2>2. \A i \in 1..fd.eps_count : f.eps[i].descs[1] = 0
    BY <1>2, <1>7
  <2>3. \A q \in Positions : ~(q <= 0) /\ f.raw[q] = fd.raw.data[q]
    BY <1>4, <1>7 DEF Positions
  <2> QED
    BY <1>7, <2>1, <2>2, <2>3 DEF Renamed
<1>9. /\ Start(1) = 0 /\ Start(1) + fd.raw.counts[1] = Start(2)
      /\ Start(2) + fd.raw.counts[2] = Start(3)
      /\ Start(3) + fd.raw.counts[3] = Len(fd.raw.data)
      /\ 1 \in Speeds /\ 2 \in Speeds /\ 3 \in Speeds
  <2>1. 1 \in Speeds /\ 2 \in Speeds /\ 3 \in Speeds
    BY DEF Speeds
  <2>2. fd.raw.counts[1] \in Nat
    BY <1>0, <2>1 DEF FdTypeOK, DescBlocks
  <2>3. Start(3) + fd.raw.counts[3] = End(fd.raw, 3)
    BY DEF Start, End
  <2> QED
    BY <1>0, <2>1, <2>2, <2>3 DEF Start, BlockAgrees
<1>10. Renamed(g1, auto, first, Start(2))
  BY <1>8, <1>9, BindSpeedRenames DEF g1
<1>11. Renamed(g2, auto, first, Start(3))
  BY <1>9, <1>10, BindSpeedRenames DEF g2
<1>12. Renamed(g, auto, first, Len(fd.raw.data)) /\ g \in Fns
  <2>1. Renamed(g, auto, first, Len(fd.raw.data))
    BY <1>9, <1>11, BindSpeedRenames DEF g
  <2> QED
    BY <2>1 DEF Renamed
<1>13. h \in Fns /\ (h.pc = "binding" => Alike(h))
  <2>1. CASE ~ids
    <3>1. h = [g EXCEPT !.pc = "failed"]
      BY <2>1 DEF h
    <3>2. h \in Fns /\ h.pc = "failed"
      BY <1>12, <3>1 DEF Fns
    <3> QED
      BY <3>2
  <2>2. CASE ids /\ g.pc # "binding"
    <3>1. h = g
      BY <2>2 DEF h, BindNums
    <3> QED
      BY <1>12, <2>2, <3>1
  <2>3. CASE ids /\ g.pc = "binding"
    <3>1. h = BindNums(g)
      BY <2>3 DEF h
    <3> QED
      BY <1>12, <2>3, <3>1, BothWalks
  <2> QED
    BY <2>1, <2>2, <2>3
<1>14. CASE h.pc = "binding"
  <2>1. v = [h EXCEPT !.pc = "bound"]
    BY <1>1, <1>14
  <2>2. v \in Fns /\ v.raw = h.raw
    BY <1>13, <2>1 DEF Fns
  <2>3. Alike(v)
    BY <1>13, <1>14, <2>2 DEF Alike
  <2> QED
    BY <2>2, <2>3
<1>15. CASE h.pc # "binding"
  <2>1. v = h
    BY <1>1, <1>15
  <2>2. h.pc # "bound"
    <3>1. CASE ~ids
      <4>1. h = [g EXCEPT !.pc = "failed"]
        BY <3>1 DEF h
      <4> QED
        BY <1>12, <4>1 DEF Fns
    <3>2. CASE ids /\ g.pc = "binding"
      <4>1. h = BindNums(g)
        BY <3>2 DEF h
      <4> QED
        BY <1>12, <1>15, <3>2, <4>1, BothWalks
    <3>3. CASE ids /\ g.pc # "binding"
      <4>1. h = g
        BY <3>3 DEF h, BindNums
      <4> QED
        BY <1>12, <4>1 DEF Renamed
    <3> QED
      BY <3>1, <3>2, <3>3
  <2> QED
    BY <1>13, <2>1, <2>2
<1> QED
  BY <1>14, <1>15

FnIInv == FdIInv /\ (\/ fn = NoFunction
                     \/ fd.state = "ACTIVE" /\ fn \in Fns /\ (fn.pc = "bound" => Alike(fn)))

(* What is bound stays alike: the descriptors are the daemon's no longer.  *)
LEMMA FnAlways == DsSpec => []FnIInv
<1>1. DsInit => FnIInv
  BY FdInit DEF DsInit, FnIInv
<1>2. ASSUME FnIInv, FdIInv', [DsNext]_dsVars PROVE FnIInv'
  <2>1. CASE UNCHANGED <<fd, fn>>
    <3>1. ASSUME fn \in Fns PROVE fn' \in Fns'
      BY <2>1, <3>1 DEF Fns, Positions
    <3>2. ASSUME Alike(fn) PROVE Alike(fn)'
      <4>1. fd' = fd /\ fn' = fn
        BY <2>1
      <4>2. /\ \A p : IsEp(p)' <=> IsEp(p)
            /\ \A p : IsIf(p)' <=> IsIf(p)
            /\ Positions' = Positions
        BY <4>1 DEF Positions, IsEp, IsIf
      <4>3. ASSUME NEW p \in Positions, NEW q \in Positions
            PROVE  /\ IsIf(p) /\ IsIf(q) =>
                        (fd'.raw.data[p].num = fd'.raw.data[q].num <=> fn'.raw[p].num = fn'.raw[q].num)
                   /\ IsEp(p) /\ IsEp(q) =>
                        (fd'.raw.data[p].addr = fd'.raw.data[q].addr
                           <=> fn'.raw[p].addr = fn'.raw[q].addr)
        BY <3>2, <4>1 DEF Alike
      <4>4. SUFFICES ASSUME NEW p \in Positions', NEW q \in Positions'
                     PROVE  /\ IsIf(p)' /\ IsIf(q)' =>
                               (fd'.raw.data[p].num = fd'.raw.data[q].num
                                  <=> fn'.raw[p].num = fn'.raw[q].num)
                            /\ IsEp(p)' /\ IsEp(q)' =>
                               (fd'.raw.data[p].addr = fd'.raw.data[q].addr
                                  <=> fn'.raw[p].addr = fn'.raw[q].addr)
        BY Zenon DEF Alike
      <4>5. p \in Positions /\ q \in Positions
        BY <4>2
      <4>6. (IsIf(p)' => IsIf(p)) /\ (IsIf(q)' => IsIf(q))
            /\ (IsEp(p)' => IsEp(p)) /\ (IsEp(q)' => IsEp(q))
        BY <4>2, Zenon
      <4> QED
        BY <4>3, <4>5, <4>6, Zenon
    <3>3. fd' = fd /\ fn' = fn
      BY <2>1
    <3>4. \/ fn = NoFunction
          \/ fd.state = "ACTIVE" /\ fn \in Fns /\ (fn.pc = "bound" => Alike(fn))
      BY <1>2, Zenon DEF FnIInv
    <3>5. CASE fn = NoFunction
      BY <1>2, <3>3, <3>5, Zenon DEF FnIInv
    <3>6. CASE fd.state = "ACTIVE" /\ fn \in Fns /\ (fn.pc = "bound" => Alike(fn))
      <4>1. fn' \in Fns' /\ fd'.state = "ACTIVE" /\ (fn'.pc = "bound" => fn.pc = "bound")
        BY <3>1, <3>3, <3>6, Zenon
      <4>2. fn'.pc = "bound" => Alike(fn)'
        BY <3>2, <3>6, <4>1, Zenon
      <4> QED
        BY <1>2, <4>1, <4>2, Zenon DEF FnIInv
    <3> QED
      BY <3>4, <3>5, <3>6, Zenon
  <2>2. CASE \E b \in Blocks : WriteDescs(b)
    BY <1>2, <2>2 DEF FnIInv, WriteDescs
  <2>3. CASE \E b \in StringBlocks : WriteStrings(b)
    BY <1>2, <2>3 DEF FnIInv, WriteStrings
  <2>4. CASE FuncBindDescs
    <3>1. fd.state = "ACTIVE" /\ UNCHANGED fd
      BY <2>4 DEF FuncBindDescs
    <3>2. PICK auto \in [1..fd.eps_count -> Phys \cup {0}], first \in 0..1, ids \in BOOLEAN :
            /\ \A i, j \in 1..fd.eps_count : auto[i] = auto[j] /\ auto[i] # 0 => i = j
            /\ fn' = BindAttempt(auto, first, ids)
      BY <2>4 DEF FuncBindDescs
    <3>3. auto \in Autos /\ Distinct(auto) /\ first \in Nat
      <4>1. Phys \cup {0} \subseteq Nat
        BY DescsAssumption
      <4> QED
        BY <3>2, <4>1 DEF Autos, Distinct
    <3>4. fn' \in Fns /\ (fn'.pc = "bound" => Alike(fn'))
      BY <1>2, <3>1, <3>2, <3>3, AttemptRenames DEF FnIInv
    <3>5. Fns' = Fns
      BY <3>1 DEF Fns, Positions
    <3>6. ASSUME fn'.pc = "bound" PROVE Alike(fn)'
      BY <3>1, <3>4, <3>6 DEF Alike, Positions, IsEp, IsIf
    <3> QED
      BY <1>2, <3>1, <3>4, <3>5, <3>6 DEF FnIInv
  <2>5. CASE FuncUnbindDescs
    <3>1. fn' = NoFunction
      BY <2>5 DEF FuncUnbindDescs
    <3>2. NoFunction' = NoFunction
      BY DEF NoFunction, NoPointer
    <3> QED
      BY <1>2, <3>1, <3>2 DEF FnIInv
  <2> QED
    BY <1>2, <2>1, <2>2, <2>3, <2>4, <2>5 DEF DsNext, dsVars
<1> QED
  BY <1>1, <1>2, FdAlways, PTL DEF DsSpec

(* The two rewritings of _ffs_func_bind, of the addresses speed by speed   *)
(* and of the interface numbers, rename the descriptors: for any           *)
(* descriptors accepted, any endpoints the gadget has, and after any       *)
(* attempts that failed.                                                   *)
THEOREM BindRenames == DsSpec => []RenamedAlike
<1>1. ASSUME FnIInv PROVE RenamedAlike
  <2>1. SUFFICES ASSUME fn.pc = "bound" PROVE RenamedAlike
    BY DEF RenamedAlike
  <2>2. fn # NoFunction
    <3>1. NoFunction.pc = "new"
      BY DEF NoFunction
    <3> QED
      BY <2>1, <3>1
  <2>3. FdIInv /\ fn \in Fns /\ Alike(fn)
    BY <1>1, <2>1, <2>2 DEF FnIInv
  <2>4. Len(fn.raw) = Len(fd.raw.data)
    <3>1. fn.raw \in [Positions -> Descs]
      BY <2>3 DEF Fns
    <3> QED
      BY <2>3, <3>1, RawLength
  <2>5. ASSUME NEW p \in 1..Len(fn.raw), NEW q \in 1..Len(fn.raw)
        PROVE  /\ fd.raw.data[p].type = "interface" /\ fd.raw.data[q].type = "interface" =>
                    (fd.raw.data[p].num = fd.raw.data[q].num <=> fn.raw[p].num = fn.raw[q].num)
               /\ fd.raw.data[p].type = "endpoint" /\ fd.raw.data[q].type = "endpoint" =>
                    (fd.raw.data[p].addr = fd.raw.data[q].addr <=> fn.raw[p].addr = fn.raw[q].addr)
    <3>1. p \in Positions /\ q \in Positions
      BY <2>4 DEF Positions
    <3> QED
      BY <2>3, <3>1, Zenon DEF Alike, IsEp, IsIf
  <2> QED
    BY <2>5, Zenon DEF RenamedAlike
<1> QED
  BY <1>1, FnAlways, PTL

-----------------------------------------------------------------------------
(* The OS descriptors: two walks over the same entities.                   *)

Parses == [ok : BOOLEAN, pos : Nat, at : Seq(Nat), prop_count : Nat, name_len : Nat,
           data_len : Nat]
Binds  == [ok : BOOLEAN, pos : Nat, at : Seq(Nat), count : Nat, name_len : Nat, data_len : Nat,
           table : SUBSET Nat]

OsBlock(b) ==
  /\ b.length \in Nat /\ b.count \in Nat
  /\ DOMAIN b.at \subseteq Nat /\ \A p \in DOMAIN b.at : OsEntity(b.at[p])

\* Where the checked walk has not failed the unchecked one is at the same byte,
\* has read the same entities, and wants no more than was counted.
Follows(p, q) ==
  p.ok => /\ q.ok /\ q.pos = p.pos /\ q.at = p.at /\ q.count <= p.prop_count
          /\ q.name_len <= p.name_len /\ q.data_len <= p.data_len
          /\ \A i \in q.table : i < Interfaces

(* What stands at a byte is an entity.                                     *)
LEMMA ReadIs == ASSUME NEW b, OsBlock(b), NEW pos PROVE OsEntity(Read(b, pos))
<1>1. OsEntity([kind |-> "other"])
  BY DEF OsEntity
<1> QED
  BY <1>1 DEF Read, OsBlock

(* Going on by the length of an entity, and failing, in either walk.       *)
LEMMA MoveParse ==
  ASSUME NEW p \in Parses, NEW n \in Nat
  PROVE  /\ Fail(p) \in Parses /\ ~Fail(p).ok
         /\ Move(p, n) \in Parses /\ Move(p, n).ok = p.ok /\ Move(p, n).pos = p.pos + n
         /\ Move(p, n).at = Append(p.at, p.pos) /\ Move(p, n).prop_count = p.prop_count
         /\ Move(p, n).name_len = p.name_len /\ Move(p, n).data_len = p.data_len
<1>1. PICK x \in Nat : x = p.pos + n
  BY DEF Parses
<1>2. PICK s \in Seq(Nat) : s = Append(p.at, p.pos)
  <2>1. p.at \in Seq(Nat) /\ p.pos \in Nat
    BY DEF Parses
  <2>2. Append(p.at, p.pos) \in Seq(Nat)
    BY <2>1
  <2> QED
    BY <2>2
<1>3. Move(p, n) = [p EXCEPT !.pos = x, !.at = s]
  BY <1>1, <1>2 DEF Move
<1>4. Fail(p) \in Parses /\ ~Fail(p).ok
  BY DEF Fail, Parses
<1>5. PICK m : m = [p EXCEPT !.pos = x, !.at = s]
  OBVIOUS
<1>6. m \in Parses /\ m.ok = p.ok /\ m.pos = x /\ m.at = s
  BY <1>5 DEF Parses
<1>7. m.prop_count = p.prop_count /\ m.name_len = p.name_len /\ m.data_len = p.data_len
  BY <1>5 DEF Parses
<1>8. Move(p, n) = m
  BY <1>3, <1>5
<1> QED
  BY <1>1, <1>2, <1>4, <1>6, <1>7, <1>8

(* The same of the walk of the bind.                                       *)
LEMMA MoveBind ==
  ASSUME NEW q \in Binds, NEW n \in Nat
  PROVE  /\ Fail(q) \in Binds /\ ~Fail(q).ok
         /\ Move(q, n) \in Binds /\ Move(q, n).ok = q.ok /\ Move(q, n).pos = q.pos + n
         /\ Move(q, n).at = Append(q.at, q.pos) /\ Move(q, n).count = q.count
         /\ Move(q, n).name_len = q.name_len /\ Move(q, n).data_len = q.data_len
         /\ Move(q, n).table = q.table
<1>1. PICK x \in Nat : x = q.pos + n
  BY DEF Binds
<1>2. PICK s \in Seq(Nat) : s = Append(q.at, q.pos)
  <2>1. q.at \in Seq(Nat) /\ q.pos \in Nat
    BY DEF Binds
  <2>2. Append(q.at, q.pos) \in Seq(Nat)
    BY <2>1
  <2> QED
    BY <2>2
<1>3. Move(q, n) = [q EXCEPT !.pos = x, !.at = s]
  BY <1>1, <1>2 DEF Move
<1>4. Fail(q) \in Binds /\ ~Fail(q).ok
  BY DEF Fail, Binds
<1>5. PICK m : m = [q EXCEPT !.pos = x, !.at = s]
  OBVIOUS
<1>6. m \in Binds /\ m.ok = q.ok /\ m.pos = x /\ m.at = s
  BY <1>5 DEF Binds
<1>7. m.count = q.count /\ m.name_len = q.name_len /\ m.data_len = q.data_len /\ m.table = q.table
  BY <1>5 DEF Binds
<1>8. Move(q, n) = m
  BY <1>3, <1>5
<1> QED
  BY <1>1, <1>2, <1>4, <1>6, <1>7, <1>8

\* A feature descriptor's header.
OsHeader(h) == h.kind = "header" /\ h.type \in {"compat", "prop"} /\ h.count \in Nat /\ h.iface \in Nat

(* One entity, as the write of the block checks it.                        *)
LEMMA ParseIs ==
  ASSUME NEW b, OsBlock(b), NEW h, OsHeader(h), NEW p \in Parses, NEW d, OsEntity(d), NEW v,
         v = Entity("parse", p, b, h, d)
  PROVE  /\ v \in Parses
         /\ v.ok => \/ /\ h.type = "compat" /\ d.kind = "compat" /\ d.iface < Interfaces
                       /\ v.pos = p.pos + CompatSize /\ v.at = Append(p.at, p.pos)
                       /\ v.prop_count = p.prop_count /\ v.name_len = p.name_len
                       /\ v.data_len = p.data_len /\ v.ok = p.ok
                    \/ /\ h.type = "prop" /\ d.kind = "prop" /\ h.iface < Interfaces
                       /\ Length(d) = PropFrame + d.name + d.data
                       /\ v.pos = p.pos + Length(d) /\ v.at = Append(p.at, p.pos)
                       /\ v.prop_count = p.prop_count + 1 /\ v.name_len = p.name_len + 2 * d.name
                       /\ v.data_len = p.data_len + d.data /\ v.ok = p.ok
<1>1. Fail(p) \in Parses /\ ~Fail(p).ok
  BY MoveParse
<1>2. CASE v = Fail(p)
  BY <1>1, <1>2
<1>3. CASE h.type = "compat" /\ v # Fail(p)
  <2>1. d.kind = "compat" /\ ~(d.iface >= Interfaces) /\ v = Move(p, CompatSize)
    BY <1>3 DEF Entity, ParseOsDesc, ParseCompat
  <2>2. d.iface \in Nat /\ d.iface < Interfaces /\ CompatSize \in Nat
    BY <2>1, OsAssumption DEF OsEntity, CompatSize
  <2>3. PICK n \in Nat : n = CompatSize
    BY DEF CompatSize
  <2>4. PICK m \in Parses :
          /\ m = Move(p, n) /\ m.ok = p.ok /\ m.pos = p.pos + n /\ m.at = Append(p.at, p.pos)
          /\ m.prop_count = p.prop_count /\ m.name_len = p.name_len /\ m.data_len = p.data_len
    BY MoveParse
  <2> QED
    BY <1>3, <2>1, <2>2, <2>3, <2>4
<1>4. CASE h.type = "prop" /\ v # Fail(p)
  <2>1. /\ ~(h.iface >= Interfaces) /\ d.kind = "prop" /\ Length(d) = PropFrame + d.name + d.data
        /\ v = [Move(p, Length(d)) EXCEPT !.prop_count = @ + 1, !.name_len = @ + 2 * d.name,
                                          !.data_len = @ + d.data]
    BY <1>4 DEF Entity, ParseOsDesc, ParseProp
  <2>2. d.size \in Nat /\ d.name \in Nat /\ d.data \in Nat
    BY <2>1 DEF OsEntity
  <2>3. h.iface < Interfaces
    BY <2>1, OsAssumption DEF OsHeader
  <2>4. PICK n \in Nat : n = Length(d)
    BY <2>2 DEF Length
  <2>5. PICK m \in Parses :
          /\ m = Move(p, n) /\ m.ok = p.ok /\ m.pos = p.pos + n /\ m.at = Append(p.at, p.pos)
          /\ m.prop_count = p.prop_count /\ m.name_len = p.name_len /\ m.data_len = p.data_len
    BY MoveParse
  <2>6. PICK x \in Nat, y \in Nat, z \in Nat :
          x = m.prop_count + 1 /\ y = m.name_len + 2 * d.name /\ z = m.data_len + d.data
    <3>0. m.prop_count \in Nat /\ m.name_len \in Nat /\ m.data_len \in Nat
      BY DEF Parses
    <3>1. m.prop_count + 1 \in Nat /\ m.name_len + 2 * d.name \in Nat /\ m.data_len + d.data \in Nat
      BY <2>2, <3>0
    <3> QED
      BY <3>1, Zenon
  <2>7. v = [m EXCEPT !.prop_count = x, !.name_len = y, !.data_len = z]
    BY <2>1, <2>4, <2>5, <2>6
  <2>8. v \in Parses /\ v.prop_count = x /\ v.name_len = y /\ v.data_len = z
        /\ v.ok = m.ok /\ v.pos = m.pos /\ v.at = m.at
    BY <2>7 DEF Parses
  <2> QED
    BY <1>4, <2>1, <2>3, <2>4, <2>5, <2>6, <2>8
<1> QED
  BY <1>2, <1>3, <1>4 DEF OsHeader

(* One entity, as the bind takes it.                                       *)
LEMMA BindIs ==
  ASSUME NEW h, OsHeader(h), NEW q \in Binds, NEW d, OsEntity(d), NEW b, NEW v,
         v = Entity("bind", q, b, h, d)
  PROVE  /\ v \in Binds
         /\ h.type = "compat" /\ d.kind = "compat" =>
              /\ v.pos = q.pos + CompatSize /\ v.at = Append(q.at, q.pos) /\ v.ok = q.ok
              /\ v.count = q.count /\ v.name_len = q.name_len /\ v.data_len = q.data_len
              /\ v.table = q.table \cup {d.iface}
         /\ h.type = "prop" /\ d.kind = "prop" =>
              /\ v.pos = q.pos + ((PropFrame + d.name + d.data) % 256)
              /\ v.at = Append(q.at, q.pos) /\ v.ok = q.ok
              /\ v.count = q.count + 1 /\ v.name_len = q.name_len + d.name
              /\ v.data_len = q.data_len + d.data /\ v.table = q.table \cup {h.iface}
<1>1. CASE h.type = "compat" /\ d.kind = "compat"
  <2>1. v = [Move(q, CompatSize) EXCEPT !.table = @ \cup {d.iface}]
    BY <1>1 DEF Entity, BindOsDesc
  <2>2. PICK n \in Nat : n = CompatSize
    BY DEF CompatSize
  <2>3. PICK m \in Binds :
          /\ m = Move(q, n) /\ m.ok = q.ok /\ m.pos = q.pos + n /\ m.at = Append(q.at, q.pos)
          /\ m.count = q.count /\ m.name_len = q.name_len /\ m.data_len = q.data_len
          /\ m.table = q.table
    BY MoveBind
  <2>4. PICK t \in SUBSET Nat : t = m.table \cup {d.iface}
    BY <1>1 DEF OsEntity, Binds
  <2>5. v = [m EXCEPT !.table = t]
    BY <2>1, <2>2, <2>3, <2>4
  <2>6. v \in Binds /\ v.table = t /\ v.ok = m.ok /\ v.pos = m.pos /\ v.at = m.at
        /\ v.count = m.count /\ v.name_len = m.name_len /\ v.data_len = m.data_len
    BY <2>5 DEF Binds
  <2> QED
    BY <1>1, <2>2, <2>3, <2>4, <2>6
<1>2. CASE h.type = "prop" /\ d.kind = "prop"
  <2>1. v = [Move(q, (PropFrame + d.name + d.data) % 256) EXCEPT
               !.count = @ + 1, !.name_len = @ + d.name, !.data_len = @ + d.data,
               !.table = @ \cup {h.iface}]
    BY <1>2 DEF Entity, BindOsDesc
  <2>2. d.size \in Nat /\ d.name \in Nat /\ d.data \in Nat /\ h.iface \in Nat
    BY <1>2 DEF OsEntity, OsHeader
  <2>3. PICK n \in Nat : n = (PropFrame + d.name + d.data) % 256
    BY <2>2 DEF PropFrame
  <2>4. PICK m \in Binds :
          /\ m = Move(q, n) /\ m.ok = q.ok /\ m.pos = q.pos + n /\ m.at = Append(q.at, q.pos)
          /\ m.count = q.count /\ m.name_len = q.name_len /\ m.data_len = q.data_len
          /\ m.table = q.table
    BY MoveBind
  <2>a. PICK t \in SUBSET Nat : t = m.table \cup {h.iface}
    BY <2>2 DEF Binds
  <2>5. PICK x \in Nat, y \in Nat, z \in Nat :
          x = m.count + 1 /\ y = m.name_len + d.name /\ z = m.data_len + d.data
    <3>0. m.count \in Nat /\ m.name_len \in Nat /\ m.data_len \in Nat
      BY DEF Binds
    <3>1. m.count + 1 \in Nat /\ m.name_len + d.name \in Nat /\ m.data_len + d.data \in Nat
      BY <2>2, <3>0
    <3> QED
      BY <3>1, Zenon
  <2>6. v = [m EXCEPT !.count = x, !.name_len = y, !.data_len = z, !.table = t]
    <3>0. m = Move(q, (PropFrame + d.name + d.data) % 256)
      BY ONLY <2>3, <2>4, Zenon
    <3>1. v = [m EXCEPT !.count = @ + 1, !.name_len = @ + d.name, !.data_len = @ + d.data,
                        !.table = @ \cup {h.iface}]
      BY ONLY <2>1, <3>0, ZenonT(60)
    <3>2. v = [m EXCEPT !.count = m.count + 1, !.name_len = m.name_len + d.name,
                        !.data_len = m.data_len + d.data, !.table = m.table \cup {h.iface}]
      BY ONLY <3>1
    <3> QED
      BY ONLY <2>5, <2>a, <3>2, SMT
  <2>7. v \in Binds /\ v.table = t /\ v.ok = m.ok /\ v.pos = m.pos /\ v.at = m.at
        /\ v.count = x /\ v.name_len = y /\ v.data_len = z
    BY <2>6 DEF Binds
  <2>8. /\ v.pos = q.pos + ((PropFrame + d.name + d.data) % 256)
        /\ v.at = Append(q.at, q.pos) /\ v.ok = q.ok
    <3>1. v.pos = q.pos + n /\ v.at = Append(q.at, q.pos) /\ v.ok = q.ok
      BY <2>4, <2>7
    <3> QED
      BY <2>3, <3>1, Zenon
  <2>9. /\ v.count = q.count + 1 /\ v.name_len = q.name_len + d.name
        /\ v.data_len = q.data_len + d.data /\ v.table = q.table \cup {h.iface}
    BY <2>4, <2>5, <2>7, <2>a, Zenon
  <2>10. ~(h.type = "compat" /\ d.kind = "compat")
    BY <1>2
  <2> QED
    BY <2>7, <2>8, <2>9, <2>10, Zenon
<1>3. CASE ~(h.type = "compat" /\ d.kind = "compat") /\ ~(h.type = "prop" /\ d.kind = "prop")
  <2>1. v = Fail(q)
    BY <1>3 DEF Entity, BindOsDesc
  <2> QED
    BY <1>3, <2>1, MoveBind
<1> QED
  BY <1>1, <1>2, <1>3

(* Where the write of the block found an entity the bind takes the same.   *)
LEMMA EntityFollows ==
  ASSUME NEW b, OsBlock(b), NEW h, OsHeader(h), NEW d, OsEntity(d),
         NEW p \in Parses, NEW q \in Binds, p.ok, Follows(p, q)
  PROVE  Follows(Entity("parse", p, b, h, d), Entity("bind", q, b, h, d))
<1>1. PICK v, w : v = Entity("parse", p, b, h, d) /\ w = Entity("bind", q, b, h, d)
  OBVIOUS
<1>2. SUFFICES ASSUME v.ok PROVE Follows(v, w)
  BY <1>1 DEF Follows
<1>3. /\ q.ok /\ q.pos = p.pos /\ q.at = p.at /\ q.count <= p.prop_count
      /\ q.name_len <= p.name_len /\ q.data_len <= p.data_len
      /\ \A i \in q.table : i < Interfaces
  BY DEF Follows
<1>4. /\ p.prop_count \in Nat /\ p.name_len \in Nat /\ p.data_len \in Nat /\ p.pos \in Nat
      /\ q.count \in Nat /\ q.name_len \in Nat /\ q.data_len \in Nat
  BY DEF Parses, Binds
<1>5. CASE h.type = "compat"
  <2>1. /\ d.kind = "compat" /\ d.iface < Interfaces
        /\ v.pos = p.pos + CompatSize /\ v.at = Append(p.at, p.pos)
        /\ v.prop_count = p.prop_count /\ v.name_len = p.name_len /\ v.data_len = p.data_len
    BY <1>1, <1>2, <1>5, ParseIs
  <2>2. /\ w.pos = q.pos + CompatSize /\ w.at = Append(q.at, q.pos) /\ w.ok = q.ok
        /\ w.count = q.count /\ w.name_len = q.name_len /\ w.data_len = q.data_len
        /\ w.table = q.table \cup {d.iface}
    BY <1>1, <1>5, <2>1, BindIs
  <2> QED
    BY <1>3, <2>1, <2>2 DEF Follows
<1>6. CASE h.type = "prop"
  <2>1. /\ d.kind = "prop" /\ h.iface < Interfaces
        /\ Length(d) = PropFrame + d.name + d.data
        /\ v.pos = p.pos + Length(d) /\ v.at = Append(p.at, p.pos)
        /\ v.prop_count = p.prop_count + 1 /\ v.name_len = p.name_len + 2 * d.name
        /\ v.data_len = p.data_len + d.data
    BY <1>1, <1>2, <1>6, ParseIs
  <2>2. /\ w.pos = q.pos + ((PropFrame + d.name + d.data) % 256)
        /\ w.at = Append(q.at, q.pos) /\ w.ok = q.ok
        /\ w.count = q.count + 1 /\ w.name_len = q.name_len + d.name
        /\ w.data_len = q.data_len + d.data /\ w.table = q.table \cup {h.iface}
    BY <1>1, <1>6, <2>1, BindIs
  <2>3. d.size \in Nat /\ d.name \in Nat /\ d.data \in Nat
    BY <2>1 DEF OsEntity
  <2>4. (PropFrame + d.name + d.data) % 256 = Length(d)
    <3>1. Length(d) = d.size % 256
      BY DEF Length
    <3>2. PICK n \in 0..255 : n = d.size % 256
      BY <2>3
    <3>3. n % 256 = n
      BY ONLY n \in 0..255
    <3>4. PropFrame + d.name + d.data = n
      BY <2>1, <3>1, <3>2, Zenon
    <3> QED
      BY <3>1, <3>2, <3>3, <3>4, Zenon
  <2>5. w.pos = v.pos /\ w.at = v.at
    <3>1. w.pos = p.pos + Length(d)
      BY <1>3, <2>2, <2>4, Zenon
    <3>2. v.pos = p.pos + Length(d) /\ v.at = Append(p.at, p.pos)
      BY <2>1
    <3>3. w.at = Append(p.at, p.pos)
      BY <1>3, <2>2, Zenon
    <3> QED
      BY <3>1, <3>2, <3>3, Zenon
  <2>6. w.count <= v.prop_count /\ w.name_len <= v.name_len /\ w.data_len <= v.data_len
    <3>1. \A m, n, j \in Nat : n <= m => n + j <= m + j /\ n + j <= m + 2 * j
      OBVIOUS
    <3>2. /\ q.count + 1 <= p.prop_count + 1 /\ q.name_len + d.name <= p.name_len + 2 * d.name
          /\ q.data_len + d.data <= p.data_len + d.data
      BY <1>3, <1>4, <2>3, <3>1
    <3> QED
      BY <2>1, <2>2, <3>2, Zenon
  <2>7. w.ok /\ \A i \in w.table : i < Interfaces
    BY <1>3, <2>1, <2>2
  <2> QED
    BY <2>5, <2>6, <2>7 DEF Follows
<1> QED
  BY <1>5, <1>6 DEF OsHeader

\* One step of ffs_do_single_os_desc, and its walk.
NextEntity(walker, v, b, h) == IF v.ok THEN Entity(walker, v, b, h, Read(b, v.pos)) ELSE v

EntityWalk(g, w, b, h, walker, W) ==
  /\ g[0] = w /\ \A k \in 0..h.count : g[k] \in W
  /\ \A k \in 1..h.count : g[k] = NextEntity(walker, g[k - 1], b, h)
  /\ SingleOsDesc(w, b, h, walker) = g[h.count]

(* The walk over the entities of one header, as a sequence of steps.       *)
LEMMA EntityWalks ==
  ASSUME NEW b, NEW h, OsHeader(h), NEW walker, NEW W, NEW w \in W,
         \A v \in W : NextEntity(walker, v, b, h) \in W
  PROVE  \E g : EntityWalk(g, w, b, h, walker, W)
<1>0. PICK n \in Nat : n = h.count
  BY DEF OsHeader
<1> DEFINE F == [q \in (1..n) \X W |-> NextEntity(walker, q[2], b, h)]
           Is(g) == g = [k \in 0..h.count |->
                           IF k = 0 THEN w
                           ELSE IF g[k - 1].ok
                                THEN Entity(walker, g[k - 1], b, h, Read(b, g[k - 1].pos))
                                ELSE g[k - 1]]
<1>1. F \in [(1..n) \X W -> W]
  OBVIOUS
<1>2. PICK f \in [0..n -> W] : Walk(f, n, w, F)
  <2> HIDE DEF F
  <2> QED
    BY <1>1, WalkWithin
<1>3. \E g : Is(g)
  <2>1. ASSUME NEW k \in 0..n
        PROVE  f[k] = IF k = 0 THEN w
                      ELSE IF f[k - 1].ok
                           THEN Entity(walker, f[k - 1], b, h, Read(b, f[k - 1].pos))
                           ELSE f[k - 1]
    <3>1. CASE k = 0
      BY <1>2, <3>1 DEF Walk
    <3>2. CASE k \in 1..n
      <4>1. f[k] = F[<<k, f[k - 1]>>] /\ f[k - 1] \in W
        <5> HIDE DEF F
        <5>1. k \in 0..n /\ k # 0 /\ k - 1 \in 0..n
          BY <3>2
        <5> QED
          BY <1>2, <5>1 DEF Walk
      <4>2. F[<<k, f[k - 1]>>] = NextEntity(walker, f[k - 1], b, h)
        BY <3>2, <4>1
      <4> QED
        BY <3>2, <4>1, <4>2 DEF NextEntity
    <3> QED
      BY <3>1, <3>2
  <2>2. Is(f)
    BY <1>0, <2>1
  <2> HIDE DEF Is
  <2> QED
    BY <2>2
<1> DEFINE g == CHOOSE g : Is(g)
<1>4. Is(g)
  <2> HIDE DEF Is
  <2> QED
    BY <1>3, Zenon
<1>5. SingleOsDesc(w, b, h, walker) = g[h.count]
  BY DEF SingleOsDesc
<1> HIDE DEF g
<1>6. g[0] = w /\ \A k \in 1..n : g[k] = NextEntity(walker, g[k - 1], b, h)
  <2>1. g[0] = w
    BY <1>0, <1>4
  <2>2. ASSUME NEW k \in 1..n PROVE g[k] = NextEntity(walker, g[k - 1], b, h)
    <3>1. k \in 0..h.count /\ k # 0
      BY <1>0
    <3> QED
      BY <1>4, <3>1 DEF NextEntity
  <2> QED
    BY <2>1, <2>2
<1> DEFINE T == {k \in 0..n : g[k] \in W}
<1>7. 0 \in T
  BY <1>6
<1>8. \A k \in 1..n : k - 1 \in T => k \in T
  BY <1>6
<1> HIDE DEF T
<1>9. \A k \in 0..n : k \in T
  BY <1>7, <1>8, UpTo, Zenon
<1>10. \A k \in 0..n : g[k] \in W
  BY <1>9 DEF T
<1>11. EntityWalk(g, w, b, h, walker, W)
  BY <1>0, <1>5, <1>6, <1>10 DEF EntityWalk
<1> QED
  BY <1>11

(* Under one header the bind follows.                                      *)
LEMMA HeaderFollows ==
  ASSUME NEW b, OsBlock(b), NEW h, OsHeader(h), NEW p \in Parses, NEW q \in Binds, Follows(p, q)
  PROVE  /\ SingleOsDesc(p, b, h, "parse") \in Parses /\ SingleOsDesc(q, b, h, "bind") \in Binds
         /\ Follows(SingleOsDesc(p, b, h, "parse"), SingleOsDesc(q, b, h, "bind"))
<1>0. PICK n \in Nat : n = h.count
  BY DEF OsHeader
<1>1. \A v \in Parses : NextEntity("parse", v, b, h) \in Parses
  BY ReadIs, ParseIs DEF NextEntity
<1>2. \A v \in Binds : NextEntity("bind", v, b, h) \in Binds
  BY ReadIs, BindIs DEF NextEntity
<1>3. PICK f : EntityWalk(f, p, b, h, "parse", Parses)
  BY <1>1, EntityWalks
<1>4. PICK g : EntityWalk(g, q, b, h, "bind", Binds)
  BY <1>2, EntityWalks
<1> DEFINE T == {k \in 0..n : Follows(f[k], g[k])}
<1>5. 0 \in T
  BY <1>3, <1>4 DEF EntityWalk
<1>6. ASSUME NEW k \in 1..n, k - 1 \in T PROVE k \in T
  <2>1. PICK x \in Parses, y \in Binds : x = f[k - 1] /\ y = g[k - 1] /\ Follows(x, y)
    BY <1>0, <1>3, <1>4, <1>6 DEF EntityWalk
  <2>2. f[k] = NextEntity("parse", x, b, h) /\ g[k] = NextEntity("bind", y, b, h)
    BY <1>0, <1>3, <1>4, <2>1 DEF EntityWalk
  <2>3. CASE x.ok
    <3>1. y.ok /\ y.pos = x.pos
      BY <2>1, <2>3 DEF Follows
    <3>2. PICK d : d = Read(b, x.pos) /\ OsEntity(d)
      BY ReadIs
    <3>3. Follows(Entity("parse", x, b, h, d), Entity("bind", y, b, h, d))
      BY <2>1, <2>3, <3>2, EntityFollows
    <3>4. f[k] = Entity("parse", x, b, h, d) /\ g[k] = Entity("bind", y, b, h, d)
      BY <2>2, <2>3, <3>1, <3>2 DEF NextEntity
    <3> QED
      BY <3>3, <3>4
  <2>4. CASE ~x.ok
    <3>1. f[k] = x
      BY <2>2, <2>4 DEF NextEntity
    <3>2. Follows(f[k], g[k])
      BY <2>4, <3>1 DEF Follows
    <3> QED
      BY <3>2
  <2> QED
    BY <2>3, <2>4
<1> HIDE DEF T
<1>7. n \in T
  <2>1. \A k \in 0..n : k \in T
    BY <1>5, <1>6, UpTo, Zenon
  <2> QED
    BY <2>1
<1>8. Follows(f[n], g[n]) /\ f[n] \in Parses /\ g[n] \in Binds
  BY <1>0, <1>3, <1>4, <1>7 DEF T, EntityWalk
<1> QED
  BY <1>0, <1>3, <1>4, <1>8 DEF EntityWalk

\* One step of ffs_do_os_descs, and its walk.
NextHeader(walker, v, b) ==
  IF ~v.ok \/ b.length - v.pos < HeaderSize \/ Read(b, v.pos).kind # "header" THEN Fail(v)
  ELSE SingleOsDesc(Move(v, HeaderSize), b, Read(b, v.pos), walker)

HeaderWalk(g, w, b, walker, W) ==
  /\ g[0] = w /\ \A k \in 0..b.count : g[k] \in W
  /\ \A k \in 1..b.count : g[k] = NextHeader(walker, g[k - 1], b)
  /\ DoOsDescs(w, b, walker) = g[b.count]

(* The walk over the headers of a block, as a sequence of steps.           *)
LEMMA HeaderWalks ==
  ASSUME NEW b, OsBlock(b), NEW walker, NEW W, NEW w \in W,
         \A v \in W : NextHeader(walker, v, b) \in W
  PROVE  \E g : HeaderWalk(g, w, b, walker, W)
<1>0. PICK n \in Nat : n = b.count
  BY DEF OsBlock
<1> DEFINE F == [q \in (1..n) \X W |-> NextHeader(walker, q[2], b)]
           Is(g) == g = [k \in 0..b.count |->
                           IF k = 0 THEN w
                           ELSE IF ~g[k - 1].ok \/ b.length - g[k - 1].pos < HeaderSize
                                   \/ Read(b, g[k - 1].pos).kind # "header"
                                THEN Fail(g[k - 1])
                                ELSE SingleOsDesc(Move(g[k - 1], HeaderSize), b,
                                                  Read(b, g[k - 1].pos), walker)]
<1>1. F \in [(1..n) \X W -> W]
  OBVIOUS
<1>2. PICK f \in [0..n -> W] : Walk(f, n, w, F)
  <2> HIDE DEF F
  <2> QED
    BY <1>1, WalkWithin
<1>3. \E g : Is(g)
  <2>1. ASSUME NEW k \in 0..n
        PROVE  f[k] = IF k = 0 THEN w
                      ELSE IF ~f[k - 1].ok \/ b.length - f[k - 1].pos < HeaderSize
                              \/ Read(b, f[k - 1].pos).kind # "header"
                           THEN Fail(f[k - 1])
                           ELSE SingleOsDesc(Move(f[k - 1], HeaderSize), b,
                                             Read(b, f[k - 1].pos), walker)
    <3>1. CASE k = 0
      BY <1>2, <3>1 DEF Walk
    <3>2. CASE k \in 1..n
      <4>1. f[k] = F[<<k, f[k - 1]>>] /\ f[k - 1] \in W
        <5> HIDE DEF F
        <5>1. k \in 0..n /\ k # 0 /\ k - 1 \in 0..n
          BY <3>2
        <5> QED
          BY <1>2, <5>1 DEF Walk
      <4>2. F[<<k, f[k - 1]>>] = NextHeader(walker, f[k - 1], b)
        BY <3>2, <4>1
      <4> QED
        BY <3>2, <4>1, <4>2 DEF NextHeader
    <3> QED
      BY <3>1, <3>2
  <2>2. Is(f)
    BY <1>0, <2>1
  <2> HIDE DEF Is
  <2> QED
    BY <2>2
<1> DEFINE g == CHOOSE g : Is(g)
<1>4. Is(g)
  <2> HIDE DEF Is
  <2> QED
    BY <1>3, Zenon
<1>5. DoOsDescs(w, b, walker) = g[b.count]
  BY DEF DoOsDescs
<1> HIDE DEF g
<1>6. g[0] = w /\ \A k \in 1..n : g[k] = NextHeader(walker, g[k - 1], b)
  <2>1. g[0] = w
    BY <1>0, <1>4
  <2>2. ASSUME NEW k \in 1..n PROVE g[k] = NextHeader(walker, g[k - 1], b)
    <3>1. k \in 0..b.count /\ k # 0
      BY <1>0
    <3> QED
      BY <1>4, <3>1 DEF NextHeader
  <2> QED
    BY <2>1, <2>2
<1> DEFINE T == {k \in 0..n : g[k] \in W}
<1>7. 0 \in T
  BY <1>6
<1>8. \A k \in 1..n : k - 1 \in T => k \in T
  BY <1>6
<1> HIDE DEF T
<1>9. \A k \in 0..n : k \in T
  BY <1>7, <1>8, UpTo, Zenon
<1>10. \A k \in 0..n : g[k] \in W
  BY <1>9 DEF T
<1>11. HeaderWalk(g, w, b, walker, W)
  BY <1>0, <1>5, <1>6, <1>10 DEF HeaderWalk
<1> QED
  BY <1>11

(* One header, with its entities, of each walk.                            *)
LEMMA NextHeaderIs ==
  ASSUME NEW b, OsBlock(b)
  PROVE  /\ \A p \in Parses : NextHeader("parse", p, b) \in Parses
         /\ \A q \in Binds : NextHeader("bind", q, b) \in Binds
         /\ \A p \in Parses, q \in Binds :
              Follows(p, q) => Follows(NextHeader("parse", p, b), NextHeader("bind", q, b))
<1>0. PICK n \in Nat : n = HeaderSize
  BY DEF HeaderSize
<1>1. ASSUME NEW pos, Read(b, pos).kind = "header" PROVE OsHeader(Read(b, pos))
  BY <1>1, ReadIs DEF OsEntity, OsHeader
<1>2. \A p \in Parses : Fail(p) \in Parses /\ ~Fail(p).ok /\ Move(p, n) \in Parses
  BY MoveParse
<1>3. \A q \in Binds : Fail(q) \in Binds /\ Move(q, n) \in Binds
  BY MoveBind
<1>4. ASSUME NEW p \in Parses PROVE NextHeader("parse", p, b) \in Parses
  <2>1. CASE NextHeader("parse", p, b) = Fail(p)
    BY <1>2, <2>1
  <2>2. CASE NextHeader("parse", p, b) # Fail(p)
    <3>1. PICK h : h = Read(b, p.pos) /\ OsHeader(h)
      BY <1>1, <2>2 DEF NextHeader
    <3>2. NextHeader("parse", p, b) = SingleOsDesc(Move(p, n), b, h, "parse")
      BY <1>0, <2>2, <3>1 DEF NextHeader
    <3>3. \A v \in Parses : NextEntity("parse", v, b, h) \in Parses
      BY <3>1, ReadIs, ParseIs DEF NextEntity
    <3>4. PICK g : EntityWalk(g, Move(p, n), b, h, "parse", Parses)
      BY <1>2, <3>1, <3>3, EntityWalks
    <3>5. h.count \in 0..h.count
      BY <3>1 DEF OsHeader
    <3> QED
      BY <3>2, <3>4, <3>5 DEF EntityWalk
  <2> QED
    BY <2>1, <2>2
<1>5. ASSUME NEW q \in Binds PROVE NextHeader("bind", q, b) \in Binds
  <2>1. CASE NextHeader("bind", q, b) = Fail(q)
    BY <1>3, <2>1
  <2>2. CASE NextHeader("bind", q, b) # Fail(q)
    <3>1. PICK h : h = Read(b, q.pos) /\ OsHeader(h)
      BY <1>1, <2>2 DEF NextHeader
    <3>2. NextHeader("bind", q, b) = SingleOsDesc(Move(q, n), b, h, "bind")
      BY <1>0, <2>2, <3>1 DEF NextHeader
    <3>3. \A v \in Binds : NextEntity("bind", v, b, h) \in Binds
      BY <3>1, ReadIs, BindIs DEF NextEntity
    <3>4. PICK g : EntityWalk(g, Move(q, n), b, h, "bind", Binds)
      BY <1>3, <3>1, <3>3, EntityWalks
    <3>5. h.count \in 0..h.count
      BY <3>1 DEF OsHeader
    <3> QED
      BY <3>2, <3>4, <3>5 DEF EntityWalk
  <2> QED
    BY <2>1, <2>2
<1>6. ASSUME NEW p \in Parses, NEW q \in Binds, Follows(p, q)
      PROVE  Follows(NextHeader("parse", p, b), NextHeader("bind", q, b))
  <2>1. CASE NextHeader("parse", p, b) = Fail(p)
    BY <1>2, <2>1 DEF Follows
  <2>2. CASE NextHeader("parse", p, b) # Fail(p)
    <3>1. /\ p.ok /\ ~(b.length - p.pos < HeaderSize) /\ Read(b, p.pos).kind = "header"
          /\ NextHeader("parse", p, b) = SingleOsDesc(Move(p, n), b, Read(b, p.pos), "parse")
      BY <1>0, <2>2 DEF NextHeader
    <3>2. q.ok /\ q.pos = p.pos
      BY <1>6, <3>1 DEF Follows
    <3>3. NextHeader("bind", q, b) = SingleOsDesc(Move(q, n), b, Read(b, p.pos), "bind")
      BY <1>0, <3>1, <3>2 DEF NextHeader
    <3>4. PICK h : h = Read(b, p.pos) /\ OsHeader(h)
      BY <1>1, <3>1
    <3>5. PICK x \in Parses :
            /\ x = Move(p, n) /\ x.ok = p.ok /\ x.pos = p.pos + n /\ x.at = Append(p.at, p.pos)
            /\ x.prop_count = p.prop_count /\ x.name_len = p.name_len /\ x.data_len = p.data_len
      BY MoveParse
    <3>6. PICK y \in Binds :
            /\ y = Move(q, n) /\ y.ok = q.ok /\ y.pos = q.pos + n /\ y.at = Append(q.at, q.pos)
            /\ y.count = q.count /\ y.name_len = q.name_len /\ y.data_len = q.data_len
            /\ y.table = q.table
      BY MoveBind
    <3>7. Follows(x, y)
      BY <1>6, <3>5, <3>6, Zenon DEF Follows
    <3>8. Follows(SingleOsDesc(x, b, h, "parse"), SingleOsDesc(y, b, h, "bind"))
      BY <3>4, <3>7, HeaderFollows
    <3> QED
      BY <3>1, <3>3, <3>4, <3>5, <3>6, <3>8
  <2> QED
    BY <2>1, <2>2
<1> QED
  BY <1>4, <1>5, <1>6

(* The whole block.                                                        *)
LEMMA BlockFollows ==
  ASSUME NEW b, OsBlock(b), NEW p \in Parses, NEW q \in Binds, Follows(p, q)
  PROVE  /\ DoOsDescs(p, b, "parse") \in Parses /\ DoOsDescs(q, b, "bind") \in Binds
         /\ Follows(DoOsDescs(p, b, "parse"), DoOsDescs(q, b, "bind"))
<1>0. PICK n \in Nat : n = b.count
  BY DEF OsBlock
<1>1. /\ \A v \in Parses : NextHeader("parse", v, b) \in Parses
      /\ \A v \in Binds : NextHeader("bind", v, b) \in Binds
      /\ \A x \in Parses, y \in Binds :
           Follows(x, y) => Follows(NextHeader("parse", x, b), NextHeader("bind", y, b))
  BY NextHeaderIs
<1>3. PICK f : HeaderWalk(f, p, b, "parse", Parses)
  BY <1>1, HeaderWalks
<1>4. PICK g : HeaderWalk(g, q, b, "bind", Binds)
  BY <1>1, HeaderWalks
<1> DEFINE T == {k \in 0..n : Follows(f[k], g[k])}
<1>5. 0 \in T
  BY <1>3, <1>4 DEF HeaderWalk
<1>6. ASSUME NEW k \in 1..n, k - 1 \in T PROVE k \in T
  <2>1. PICK x \in Parses, y \in Binds : x = f[k - 1] /\ y = g[k - 1] /\ Follows(x, y)
    BY <1>0, <1>3, <1>4, <1>6 DEF HeaderWalk
  <2>2. f[k] = NextHeader("parse", x, b) /\ g[k] = NextHeader("bind", y, b)
    BY <1>0, <1>3, <1>4, <2>1 DEF HeaderWalk
  <2>3. Follows(f[k], g[k])
    BY <1>1, <2>1, <2>2
  <2> QED
    BY <2>3
<1> HIDE DEF T
<1>7. n \in T
  <2>1. \A k \in 0..n : k \in T
    BY <1>5, <1>6, UpTo, Zenon
  <2> QED
    BY <2>1
<1>8. Follows(f[n], g[n]) /\ f[n] \in Parses /\ g[n] \in Binds
  BY <1>0, <1>3, <1>4, <1>7 DEF T, HeaderWalk
<1> QED
  BY <1>0, <1>3, <1>4, <1>8 DEF HeaderWalk

ParseFrom == [ok |-> TRUE, pos |-> 0, at |-> <<>>, prop_count |-> os.prop_count,
              name_len |-> os.name_len, data_len |-> os.data_len]
BindFrom  == [ok |-> TRUE, pos |-> 0, at |-> <<>>, count |-> 0, name_len |-> 0, data_len |-> 0,
              table |-> {}]

OsTypeOK ==
  os \in [block : OsBlocks \cup {NoOsBlock}, accepted : BOOLEAN, at : Seq(Nat),
          prop_count : Nat, name_len : Nat, data_len : Nat]

\* The walk of the bind over the accepted block, before it is made.
Sound(q) ==
  /\ q.ok /\ q.at = os.at /\ q.count <= os.prop_count
  /\ q.name_len <= os.name_len /\ q.data_len <= os.data_len
  /\ \A i \in q.table : i < Interfaces

OsIInv ==
  /\ OsTypeOK
  /\ os.accepted => Sound(DoOsDescs(BindFrom, os.block, "bind"))
  /\ ~os.accepted => taken.pc = "new"
  /\ taken.pc = "new" => taken = NotTaken
  /\ BindFollowsParse

(* Both walks start in step.                                               *)
LEMMA StartFollows ==
  ASSUME OsTypeOK
  PROVE  ParseFrom \in Parses /\ BindFrom \in Binds /\ Follows(ParseFrom, BindFrom)
<1>1. PICK t, z, e, n : t = TRUE /\ z = 0 /\ e = <<>> /\ n = {}
  OBVIOUS
<1>2. t \in BOOLEAN /\ z \in Nat /\ e \in Seq(Nat) /\ n \in SUBSET Nat
  <2>1. 0 \in Nat /\ <<>> \in Seq(Nat) /\ {} \in SUBSET Nat
    OBVIOUS
  <2>2. t \in BOOLEAN
    BY <1>1
  <2> QED
    BY <1>1, <2>1, <2>2, Zenon
<1>3. PICK c \in Nat, m \in Nat, l \in Nat : c = os.prop_count /\ m = os.name_len /\ l = os.data_len
  BY DEF OsTypeOK
<1>4. PICK p : p = [ok |-> t, pos |-> z, at |-> e, prop_count |-> c, name_len |-> m, data_len |-> l]
  OBVIOUS
<1>5. PICK q : q = [ok |-> t, pos |-> z, at |-> e, count |-> z, name_len |-> z, data_len |-> z,
                    table |-> n]
  OBVIOUS
<1>6. ParseFrom = p /\ BindFrom = q
  BY <1>1, <1>3, <1>4, <1>5, Zenon DEF ParseFrom, BindFrom
<1>7. p \in Parses
  BY <1>2, <1>4 DEF Parses
<1>8. q \in Binds
  BY <1>2, <1>5 DEF Binds
<1>9. Follows(p, q)
  <2>1. t /\ z <= c /\ z <= m /\ z <= l /\ \A i \in n : i < Interfaces
    <3>1. z <= c /\ z <= m /\ z <= l
      BY <1>1
    <3> QED
      BY <1>1, <3>1, Zenon
  <2>2. /\ q.ok = t /\ q.pos = z /\ q.at = e /\ q.count = z /\ q.name_len = z /\ q.data_len = z
        /\ q.table = n
    BY <1>5
  <2>3. p.ok = t /\ p.pos = z /\ p.at = e /\ p.prop_count = c /\ p.name_len = m /\ p.data_len = l
    BY <1>4
  <2> QED
    BY <2>1, <2>2, <2>3, Zenon DEF Follows
<1> QED
  BY <1>6, <1>7, <1>8, <1>9

(* A write of a block: accepted, it can be bound; refused, it still counts.*)
LEMMA OsWrite ==
  ASSUME OsIInv, NEW b \in OsBlocks, WriteOsDescs(b) PROVE OsIInv'
<1>1. OsTypeOK /\ ~os.accepted /\ taken.pc = "new" /\ UNCHANGED taken
  BY DEF OsIInv, WriteOsDescs
<1>2. OsBlock(b)
  BY OsAssumption DEF OsBlock
<1>3. PICK p, q : p = DoOsDescs(ParseFrom, b, "parse") /\ q = DoOsDescs(BindFrom, b, "bind")
  OBVIOUS
<1>4. p \in Parses /\ q \in Binds /\ Follows(p, q)
  BY <1>1, <1>2, <1>3, StartFollows, BlockFollows
<1>5. PICK ok \in BOOLEAN : ok = (p.ok /\ p.pos = b.length)
  OBVIOUS
<1>6. PICK block \in OsBlocks \cup {NoOsBlock}, at \in Seq(Nat) :
        block = (IF ok THEN b ELSE os.block) /\ at = (IF ok THEN p.at ELSE os.at)
  <2>1. os.block \in OsBlocks \cup {NoOsBlock} /\ os.at \in Seq(Nat)
    BY <1>1 DEF OsTypeOK
  <2>2. p.at \in Seq(Nat)
    BY <1>4 DEF Parses
  <2> QED
    BY <2>1, <2>2
<1>7. os' = [os EXCEPT !.prop_count = p.prop_count, !.name_len = p.name_len,
                       !.data_len = p.data_len, !.accepted = ok, !.block = block, !.at = at]
  BY <1>3, <1>5, <1>6 DEF WriteOsDescs, ParseFrom
<1>8. p.prop_count \in Nat /\ p.name_len \in Nat /\ p.data_len \in Nat
  BY <1>4 DEF Parses
<1>9. /\ OsTypeOK' /\ os'.prop_count = p.prop_count /\ os'.name_len = p.name_len
      /\ os'.data_len = p.data_len /\ os'.accepted = ok /\ os'.block = block /\ os'.at = at
  <2>1. NoOsBlock' = NoOsBlock
    BY DEF NoOsBlock
  <2> QED
    BY <1>1, <1>7, <1>8, <2>1 DEF OsTypeOK
<1>10. ASSUME ok PROVE Sound(DoOsDescs(BindFrom, os.block, "bind"))'
  <2>1. p.ok /\ os'.block = b /\ os'.at = p.at
    BY <1>5, <1>6, <1>9, <1>10
  <2>2. (DoOsDescs(BindFrom, os.block, "bind"))' = q
    BY <1>3, <2>1 DEF BindFrom
  <2>3. /\ q.ok /\ q.at = p.at /\ q.count <= p.prop_count
        /\ q.name_len <= p.name_len /\ q.data_len <= p.data_len
        /\ \A i \in q.table : i < Interfaces
    BY <1>4, <2>1 DEF Follows
  <2> QED
    BY <1>9, <2>1, <2>2, <2>3 DEF Sound
<1>11. taken'.pc = "new"
  BY <1>1
<1>12. BindFollowsParse' /\ (taken.pc = "new" => taken = NotTaken)'
  BY <1>1, <1>11 DEF BindFollowsParse, OsIInv, NotTaken
<1> QED
  BY <1>9, <1>10, <1>11, <1>12 DEF OsIInv

(* The second walk over the OS descriptors goes where the first one went,  *)
(* and takes no more than was counted, for any blocks: though the first    *)
(* checks the size of a property cut to a byte, and the second adds it up. *)
THEOREM BindTakesWhatWasParsed == OsSpec => []BindFollowsParse
<1>1. OsInit => OsIInv
  <2>1. SUFFICES ASSUME OsInit PROVE OsIInv
    OBVIOUS
  <2>2. PICK b \in OsBlocks \cup {NoOsBlock}, f \in BOOLEAN, s \in Seq(Nat), z \in Nat :
          b = NoOsBlock /\ f = FALSE /\ s = <<>> /\ z = 0
    <3>1. FALSE \in BOOLEAN /\ <<>> \in Seq(Nat) /\ 0 \in Nat
      OBVIOUS
    <3> QED
      BY <3>1, Zenon
  <2>3. os = [block |-> b, accepted |-> f, at |-> s, prop_count |-> z, name_len |-> z, data_len |-> z]
    BY <2>1, <2>2, Zenon DEF OsInit
  <2>4. OsTypeOK /\ os.accepted = f
    BY <2>3 DEF OsTypeOK
  <2>5. taken.pc = "new"
    BY <2>1 DEF OsInit, NotTaken
  <2> QED
    BY <2>1, <2>2, <2>4, <2>5 DEF OsInit, OsIInv, BindFollowsParse
<1>2. ASSUME OsIInv, [OsNext]_osVars PROVE OsIInv'
  <2>0. ASSUME UNCHANGED os
        PROVE  OsTypeOK' /\ (os.accepted => Sound(DoOsDescs(BindFrom, os.block, "bind")))'
    <3>1. OsTypeOK'
      BY <1>2, <2>0 DEF OsIInv, OsTypeOK, NoOsBlock
    <3>2. (os.accepted => Sound(DoOsDescs(BindFrom, os.block, "bind")))'
      BY <1>2, <2>0 DEF OsIInv, Sound, BindFrom
    <3> QED
      BY <3>1, <3>2
  <2>1. CASE UNCHANGED osVars
    BY <1>2, <2>0, <2>1 DEF OsIInv, BindFollowsParse, NotTaken, osVars
  <2>2. CASE \E b \in OsBlocks : WriteOsDescs(b)
    BY <1>2, <2>2, OsWrite
  <2>3. CASE BindOsDescs
    <3>1. os.accepted /\ taken.pc = "new" /\ UNCHANGED os
      BY <2>3 DEF BindOsDescs
    <3>2. PICK q : q = DoOsDescs(BindFrom, os.block, "bind")
      OBVIOUS
    <3>3. Sound(q)
      BY <1>2, <3>1, <3>2 DEF OsIInv
    <3>4. taken'.pc # "new" /\ BindFollowsParse'
      <4>1. CASE taken' = [taken EXCEPT !.pc = "unused"]
        <5>1. taken'.pc = "unused"
          BY <1>2, <3>1, <4>1 DEF OsIInv, NotTaken
        <5> QED
          BY <5>1 DEF BindFollowsParse
      <4>2. CASE taken' = [pc |-> IF q.ok THEN "filled" ELSE "astray", at |-> q.at,
                           count |-> q.count, name_len |-> q.name_len, data_len |-> q.data_len,
                           table |-> q.table]
        <5>1. /\ taken'.pc = "filled" /\ taken'.at = q.at /\ taken'.count = q.count
              /\ taken'.name_len = q.name_len /\ taken'.data_len = q.data_len
              /\ taken'.table = q.table
          BY <3>3, <4>2 DEF Sound
        <5> QED
          BY <3>1, <3>3, <5>1 DEF Sound, BindFollowsParse
      <4> QED
        BY <2>3, <3>2, <4>1, <4>2 DEF BindOsDescs, BindFrom
    <3> QED
      BY <2>0, <3>1, <3>4 DEF OsIInv
  <2>4. CASE UnbindOsDescs
    <3>1. taken' = NotTaken /\ UNCHANGED os
      BY <2>4 DEF UnbindOsDescs
    <3>2. taken'.pc = "new" /\ NotTaken' = NotTaken
      BY <3>1 DEF NotTaken
    <3>3. BindFollowsParse'
      BY <3>2 DEF BindFollowsParse
    <3> QED
      BY <2>0, <3>1, <3>2, <3>3 DEF OsIInv
  <2> QED
    BY <1>2, <2>1, <2>2, <2>3, <2>4 DEF OsNext
<1>3. OsIInv => BindFollowsParse
  BY DEF OsIInv
<1> QED
  BY <1>1, <1>2, <1>3, PTL DEF OsSpec
==============================================================================
