----------------------------- MODULE BoundedFifo -----------------------------
(***************************************************************************)
(* What the ready queue (spscq/spscq.h) promises to the two threads that   *)
(* share it: a first-in first-out queue of at most Room elements, with     *)
(* each call taking effect in one indivisible step.  A push of a full      *)
(* queue and a pop of an empty one fail and leave the queue alone.         *)
(***************************************************************************)
EXTENDS Naturals, Sequences

CONSTANTS Values,   \* the elements that can be queued
          Room      \* how many elements fit

VARIABLES queue,    \* the elements pushed and not popped yet, oldest first
          pushOk,   \* OUT_RES of the last completed push
          popOk,    \* OUT_RES of the last completed pop
          popped    \* OUT_PTR of the last pop

vars == <<queue, pushOk, popOk, popped>>

Init == /\ queue = <<>>
        /\ pushOk = FALSE
        /\ popOk = FALSE
        /\ popped \in Values

(* A push that finds room appends its element. *)
Push(v) == /\ Len(queue) < Room
           /\ queue' = Append(queue, v)
           /\ pushOk' = TRUE
           /\ UNCHANGED <<popOk, popped>>

(* A push fails only when the queue is full. *)
PushFull == /\ Len(queue) = Room
            /\ pushOk' = FALSE
            /\ UNCHANGED <<queue, popOk, popped>>

(* The oldest element may reach the caller's buffer before it leaves the   *)
(* queue; the buffer counts only once the pop has succeeded.               *)
Fetch == /\ queue # <<>>
         /\ popped' = Head(queue)
         /\ UNCHANGED <<queue, pushOk, popOk>>

(* A pop that succeeds hands over the oldest element. *)
Pop == /\ queue # <<>>
       /\ popped' = Head(queue)
       /\ queue' = Tail(queue)
       /\ popOk' = TRUE
       /\ UNCHANGED pushOk

(* A pop fails only when the queue is empty. *)
PopEmpty == /\ queue = <<>>
            /\ popOk' = FALSE
            /\ UNCHANGED <<queue, pushOk, popped>>

Next == \/ \E v \in Values : Push(v)
        \/ PushFull
        \/ Fetch
        \/ Pop
        \/ PopEmpty

Spec == Init /\ [][Next]_vars

=============================================================================
