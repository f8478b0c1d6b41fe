------------------------------ MODULE HeapOps ------------------------------
(***************************************************************************)
(* What one call of minheap_push and of minheap_pop (minheap/minheap.h)    *)
(* does to the array and the length, written without the loops: MinHeap    *)
(* runs the loops one iteration at a time and is checked against these     *)
(* operators.  A heap is a record of the array and its length.             *)
(***************************************************************************)
EXTENDS Integers, FiniteSets

CONSTANT WaitCap    \* WAIT_QUEUE_CAP, the CAP of MINHEAP_TEMPLATE

ASSUME WaitCapAssumption == WaitCap \in Nat \ {0}

Cells == 0 .. WaitCap - 1

Heaps == [data : [Cells -> Nat], len : 0 .. WaitCap]

(* minheap_init zeroes the array and the length. *)
EmptyHeap == [data |-> [c \in Cells |-> 0], len |-> 0]

ParentCell(c) == (c - 1) \div 2

(* The cells from c up to the root. *)
PathUp[c \in Cells] ==
  IF c = 0 THEN {0} ELSE {c} \union PathUp[ParentCell(c)]

(***************************************************************************)
(* minheap_push of a heap that has room.  The new value moves up past the  *)
(* larger values on the path from the first free cell to the root.  When   *)
(* it passes none of them the loop body never runs, and outside of it only *)
(* the push onto an empty heap stores the value: the length grows and the  *)
(* cell keeps what it held before.                                         *)
(***************************************************************************)
Risen(h, v) ==
  {c \in Cells \intersect PathUp[h.len] :
     \A a \in PathUp[h.len] : c <= a /\ a < h.len => v < h.data[a]}

HeapPush(h, v) ==
  LET Moved(c) == IF c \notin Risen(h, v) THEN h.data[c]
                  ELSE IF ParentCell(c) \in Risen(h, v) THEN h.data[ParentCell(c)]
                  ELSE v
  IN [data |-> IF Risen(h, v) = {h.len} /\ h.len > 0 THEN h.data
               ELSE [c \in Cells |-> Moved(c)],
      len  |-> h.len + 1]

(***************************************************************************)
(* minheap_pop of a heap that is not empty: the last value replaces the    *)
(* root and sinks past the smaller child while that child is smaller.      *)
(***************************************************************************)
SmallerChild(h, c) ==
  LET l == 2 * c + 1
      r == 2 * c + 2
  IN IF r < h.len - 1 /\ h.data[r] < h.data[l] THEN r ELSE l

Sunk(h) ==
  {c \in 0 .. h.len - 2 :
     \A a \in PathUp[c] \ {0} : /\ a = SmallerChild(h, ParentCell(a))
                                /\ h.data[a] < h.data[h.len - 1]}

HeapPop(h) ==
  LET Moved(c) == IF c \notin Sunk(h) THEN h.data[c]
                  ELSE IF SmallerChild(h, c) \in Sunk(h)
                  THEN h.data[SmallerChild(h, c)]
                  ELSE h.data[h.len - 1]
  IN [data |-> [c \in Cells |-> Moved(c)], len |-> h.len - 1]

HeapTop(h) == h.data[0]
=============================================================================
