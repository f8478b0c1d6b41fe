------------------------------ MODULE MinHeap ------------------------------
(***************************************************************************)
(* The wait queue of minheap/minheap.h with the loops of minheap_push and  *)
(* minheap_pop run one iteration per step.                                 *)
(***************************************************************************)
EXTENDS HeapOps

CONSTANT Elements       \* the values pushed (interrupt lines)

ASSUME ElementsAssumption == Elements \subseteq Nat

VARIABLES data, len,    \* the template's fields
          pc,           \* "idle", in the loop of a push ("rise"), of a pop ("sink")
          pos,          \* new_data_pos in a push, _idx in a pop
          up,           \* parent_pos
          value,        \* new_data in a push, the value sinking in a pop
          target        \* what HeapOps says of the call in progress

vars == <<data, len, pc, pos, up, value, target>>

Stored == Elements \union {0}

Heap == [data |-> data, len |-> len]

Init == /\ data = EmptyHeap.data
        /\ len = EmptyHeap.len
        /\ pc = "idle"
        /\ pos = 0
        /\ up = 0
        /\ value = 0
        /\ target = EmptyHeap

(***************************************************************************)
(* minheap_push.  A push of a full heap changes nothing.                   *)
(***************************************************************************)
Push(v) ==
  /\ pc = "idle"
  /\ len < WaitCap
  /\ len' = len + 1
  /\ target' = HeapPush(Heap, v)
  /\ value' = v
  /\ pos' = len
  /\ IF len = 0
       THEN /\ data' = [data EXCEPT ![len] = v]
            /\ UNCHANGED <<pc, up>>
       ELSE /\ pc' = "rise"
            /\ up' = ParentCell(len)
            /\ UNCHANGED data

(* An iteration that leaves the two values where they are. *)
RiseUnswapped ==
  /\ pc = "rise"
  /\ value < data[up]
  /\ pos' = up
  /\ up' = IF up = 0 THEN 0 ELSE ParentCell(up)
  /\ UNCHANGED <<data, len, pc, value, target>>

(* An iteration that goes on from the cell it started at. *)
RiseFromStart ==
  /\ pc = "rise"
  /\ value < data[up]
  /\ data' = [data EXCEPT ![up] = value, ![pos] = data[up]]
  /\ up' = IF up = 0 THEN 0 ELSE ParentCell(up)
  /\ UNCHANGED <<len, pc, pos, value, target>>

(* One iteration: the new value and its parent change places.  The value   *)
(* is read back from the cell it was just written to.                      *)
Rise ==
  /\ pc = "rise"
  /\ value < data[up]
  /\ data' = [data EXCEPT ![up] = value, ![pos] = data[up]]
  /\ pos' = up
  /\ up' = IF up = 0 THEN 0 ELSE ParentCell(up)
  /\ UNCHANGED <<len, pc, value, target>>

RiseEnd ==
  /\ pc = "rise"
  /\ value >= data[up]
  /\ pc' = "idle"
  /\ UNCHANGED <<data, len, pos, up, value, target>>

(***************************************************************************)
(* minheap_pop.  A pop of an empty heap changes nothing.                   *)
(***************************************************************************)
Pop ==
  /\ pc = "idle"
  /\ len > 0
  /\ len' = len - 1
  /\ target' = HeapPop(Heap)
  /\ data' = [data EXCEPT ![0] = data[len - 1]]
  /\ pos' = 0
  /\ value' = data[len - 1]
  /\ pc' = IF len = 1 THEN "idle" ELSE "sink"
  /\ UNCHANGED up

(* A choice between the cell and its children that forgets the length. *)
SmallestUnbounded ==
  LET l == 2 * pos + 1
      r == 2 * pos + 2
      m == IF l < WaitCap /\ data[l] < data[pos] THEN l ELSE pos
  IN IF r < WaitCap /\ data[r] < data[m] THEN r ELSE m

(* _smallest_idx: the cell, or a child below len that is smaller.          *)
Smallest ==
  LET l == 2 * pos + 1
      r == 2 * pos + 2
      m == IF l < len /\ data[l] < data[pos] THEN l ELSE pos
  IN IF r < len /\ data[r] < data[m] THEN r ELSE m

Sink ==
  /\ pc = "sink"
  /\ Smallest # pos
  /\ data' = [data EXCEPT ![pos] = data[Smallest], ![Smallest] = data[pos]]
  /\ pos' = Smallest
  /\ UNCHANGED <<len, pc, up, value, target>>

SinkEnd ==
  /\ pc = "sink"
  /\ Smallest = pos
  /\ pc' = "idle"
  /\ UNCHANGED <<data, len, pos, up, value, target>>

Next == (\E v \in Elements : Push(v)) \/ Rise \/ RiseEnd \/ Pop \/ Sink \/ SinkEnd

(* A call that has begun runs to its end: the caller is one thread.        *)
Spec == Init /\ [][Next]_vars /\ WF_vars(Rise \/ RiseEnd \/ Sink \/ SinkEnd)

-----------------------------------------------------------------------------
(* The array, its length and the indices the loops use stay in range: the  *)
(* two assertions of minheap_push hold and no cell outside the array is    *)
(* touched.                                                                *)
TypeOK == /\ data \in [Cells -> Stored]
          /\ len \in 0 .. WaitCap
          /\ pc \in {"idle", "rise", "sink"}
          /\ pos \in Cells
          /\ up \in Cells
          /\ value \in Stored
          /\ pc = "sink" => pos < len

(* When a call has returned, the array holds what HeapOps says: the two    *)
(* loops compute HeapPush and HeapPop for every reachable heap.            *)
LoopsMatchOps == pc = "idle" => Heap = target

(* Every call ends.                                                        *)
CallsEnd == pc # "idle" ~> pc = "idle"
=============================================================================
