------------------------------- MODULE Allocator -------------------------------
(***************************************************************************)
(* What the OSAL allocator promises its callers: memory of the size and    *)
(* the alignment that was asked for, which nobody else holds, until it is  *)
(* given back.  The Overhead in front of the memory of one caller is not   *)
(* the memory of another either: what is kept there survives.              *)
(***************************************************************************)
EXTENDS Integers

CONSTANTS Top,       \* memory is 1 .. Top
          Overhead,  \* what is kept in front of each caller's memory
          Sizes, Aligns
VARIABLE held  \* what callers hold: [buf, size, align]

AllocInit == held = {}

Beside(u, v) == u.buf + u.size <= v.buf - Overhead \/ v.buf + v.size <= u.buf - Overhead

Obtain ==
  \E buf \in (1 + Overhead) .. Top, size \in Sizes, align \in Aligns :
    LET u == [buf |-> buf, size |-> size, align |-> align]
    IN /\ buf % align = 0 /\ buf + size <= Top + 1
       /\ \A v \in held : Beside(u, v)
       /\ held' = held \cup {u}

Return == \E u \in held : held' = held \ {u}

AllocSpec == AllocInit /\ [][Obtain \/ Return]_held
================================================================================
