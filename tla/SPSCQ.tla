------------------------------- MODULE SPSCQ -------------------------------
(***************************************************************************)
(* The lock-free single-producer single-consumer ring of spscq/spscq.h.    *)
(* It carries the interrupt requests from the thread that calls            *)
(* vidispatcher_trigger_interrupt (the producer) to the dispatcher thread  *)
(* (the consumer).  Each access to memory both threads can see is a step   *)
(* of its own: the load of the other side's index, the access to the slot  *)
(* and the store of the own index.  A thread's relaxed load of its own     *)
(* index returns its last store, so it needs no step; the acquire loads    *)
(* and release stores of the other index are sequentially consistent here, *)
(* which they are for an index only one thread stores.                     *)
(***************************************************************************)
EXTENDS Naturals, Sequences

CONSTANTS Values,    \* the elements (interrupt lines)
          Cap        \* CAPACITY of TEMPLATE_SPSCQ

\* SPSCQ_ASSERT_CAP: masking with Cap - 1 is "modulo Cap" for these Cap.
ASSUME CapAssumption == Cap \in Nat \ {0} /\ \E k \in 0 .. Cap : Cap = 2^k

Slots == 0 .. Cap - 1

VARIABLES data,     \* the slots; spscq_init leaves their content alone
          read,     \* index of the next slot to pop, stored by the consumer
          write,    \* index of the next slot to fill, stored by the producer
          ppc,      \* where the producer is in spscq_push
          pval,     \* DATA of the current push
          pushOk,   \* *OUT_RES of the last push
          cpc,      \* where the consumer is in spscq_pop
          popped,   \* *OUT_PTR
          popOk     \* *OUT_RES of the last pop

producerVars == <<write, ppc, pval, pushOk>>
consumerVars == <<read, cpc, popped, popOk>>
vars == <<data, producerVars, consumerVars>>

Init == /\ data \in [Slots -> Values]
        /\ read = 0
        /\ write = 0
        /\ ppc = "idle"
        /\ pval \in Values
        /\ pushOk = FALSE
        /\ cpc = "idle"
        /\ popped \in Values
        /\ popOk = FALSE

(* An increment that forgets the mask. *)
AfterUnmasked(i) == i + 1

(* (i + 1) & (CAPACITY - 1) *)
After(i) == (i + 1) % Cap

(***************************************************************************)
(* spscq_push.                                                             *)
(***************************************************************************)
PushCall(v) == /\ ppc = "idle"
               /\ pval' = v
               /\ ppc' = "check"
               /\ UNCHANGED <<data, write, pushOk, consumerVars>>

(* The acquire load of read decides whether there is room. *)
PushFull == /\ ppc = "check"
            /\ read = After(write)
            /\ pushOk' = FALSE
            /\ ppc' = "idle"
            /\ UNCHANGED <<data, write, pval, consumerVars>>

(* A push that does not look whether there is room. *)
PushRoomUnchecked == /\ ppc = "check"
                     /\ ppc' = "fill"
                     /\ UNCHANGED <<data, write, pval, pushOk, consumerVars>>

PushRoom == /\ ppc = "check"
            /\ read # After(write)
            /\ ppc' = "fill"
            /\ UNCHANGED <<data, write, pval, pushOk, consumerVars>>

PushFill == /\ ppc = "fill"
            /\ data' = [data EXCEPT ![write] = pval]
            /\ ppc' = "publish"
            /\ UNCHANGED <<write, pval, pushOk, consumerVars>>

(* The release store of write makes the slot visible to the consumer. *)
PushPublish == /\ ppc = "publish"
               /\ write' = After(write)
               /\ pushOk' = TRUE
               /\ ppc' = "idle"
               /\ UNCHANGED <<data, pval, consumerVars>>

(***************************************************************************)
(* spscq_pop.                                                              *)
(***************************************************************************)
(* The acquire load of write decides whether there is an element. *)
PopEmpty == /\ cpc = "idle"
            /\ read = write
            /\ popOk' = FALSE
            /\ UNCHANGED <<data, read, cpc, popped, producerVars>>

PopSome == /\ cpc = "idle"
           /\ read # write
           /\ cpc' = "take"
           /\ UNCHANGED <<data, read, popped, popOk, producerVars>>

(* A pop that gives the slot back before it has read it. *)
PopTakeReleased == /\ cpc = "take"
                   /\ read' = After(read)
                   /\ popped' = data[After(read)]
                   /\ cpc' = "release"
                   /\ UNCHANGED <<data, popOk, producerVars>>

PopTake == /\ cpc = "take"
           /\ popped' = data[read]
           /\ cpc' = "release"
           /\ UNCHANGED <<data, read, popOk, producerVars>>

(* The release store of read gives the slot back to the producer. *)
PopRelease == /\ cpc = "release"
              /\ read' = After(read)
              /\ popOk' = TRUE
              /\ cpc' = "idle"
              /\ UNCHANGED <<data, popped, producerVars>>

Producer == \/ \E v \in Values : PushCall(v)
            \/ PushFull
            \/ PushRoom
            \/ PushFill
            \/ PushPublish

Consumer == PopEmpty \/ PopSome \/ PopTake \/ PopRelease

Next == Producer \/ Consumer

Spec == Init /\ [][Next]_vars

-----------------------------------------------------------------------------
(***************************************************************************)
(* Properties.                                                             *)
(***************************************************************************)
TypeOK == /\ data \in [Slots -> Values]
          /\ read \in Slots
          /\ write \in Slots
          /\ ppc \in {"idle", "check", "fill", "publish"}
          /\ pval \in Values
          /\ pushOk \in BOOLEAN
          /\ cpc \in {"idle", "take", "release"}
          /\ popped \in Values
          /\ popOk \in BOOLEAN

(* The two plain (non-atomic) accesses of spscq_push and spscq_pop to the  *)
(* slots never touch the same slot at the same time: whatever the indices  *)
(* do in between, the slot being filled is not the slot being read.        *)
NoDataRace == ppc = "fill" /\ cpc = "take" => write # read

(* What lets the two threads get by with two indices: the consumer can     *)
(* only make room, so the room the producer saw is still there when it     *)
(* fills and publishes the slot; the producer can only add elements, so    *)
(* the element the consumer saw is still there when it takes and releases  *)
(* it; and what each of them moves is what the slot holds.                 *)
HandOver == /\ ppc \in {"fill", "publish"} => read # After(write)
            /\ ppc = "publish" => data[write] = pval
            /\ cpc \in {"take", "release"} => read # write
            /\ cpc = "release" => popped = data[read]

(* How many slots hold published elements. *)
Count == IF write >= read THEN write - read ELSE write + Cap - read

(* The slot of the k-th oldest published element. *)
SlotOf(k) == (read + k - 1) % Cap

(* The published elements, oldest first. *)
Content == [k \in 1 .. Count |-> data[SlotOf(k)]]

(* Every step of the ring is a step of a bounded first-in first-out queue  *)
(* with room for one element less than it has slots, or changes nothing    *)
(* the queue shows: no element is lost, duplicated, torn or reordered      *)
(* however the two threads interleave, a push fails only on a full queue   *)
(* and a pop only on an empty one.                                         *)
Fifo == INSTANCE BoundedFifo WITH Room <- Cap - 1, queue <- Content

ImplementsFifo == Fifo!Spec

=============================================================================
