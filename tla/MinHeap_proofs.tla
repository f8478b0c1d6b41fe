-------------------------- MODULE MinHeap_proofs --------------------------
(***************************************************************************)
(* Proofs about MinHeap, for every capacity of the wait queue and every    *)
(* set of values: the indices the loops use stay inside the array, and a   *)
(* loop that has ended leaves the array HeapOps says.                      *)
(***************************************************************************)
EXTENDS MinHeap, WellFoundedInduction, TLAPS

(* The constant's type in one fact for the leaves. *)
LEMMA Capacity == WaitCap \in Nat \ {0} /\ Cells = 0 .. WaitCap - 1
BY WaitCapAssumption DEF Cells

(* A set of naturals that is not empty has a least member. *)
LEMMA Least ==
  ASSUME NEW T \in SUBSET Nat, T # {}
  PROVE  \E x \in T : \A y \in T : x <= y
<1>1. \E x \in T : \A y \in T : <<y, x>> \notin OpToRel(<, Nat)
  BY WFMin, NatLessThanWellFounded, Zenon
<1>2. \A x, y \in Nat : y < x => <<y, x>> \in OpToRel(<, Nat)
  BY Zenon DEF OpToRel
<1>3. \E x \in T : \A y \in T : ~(y < x)
  BY <1>1, <1>2, Zenon
<1>4. QED BY <1>3

(* So a set of cells that holds a cell whenever it holds all the lower     *)
(* ones holds every cell.                                                  *)
LEMMA CellByCell ==
  ASSUME NEW T,
         \A n \in Cells : (\A m \in Cells : m < n => m \in T) => n \in T
  PROVE  Cells \subseteq T
<1> DEFINE Rest == Cells \ T
<1> SUFFICES ASSUME Rest # {} PROVE FALSE
  OBVIOUS
<1>1. Rest \in SUBSET Nat
  BY Capacity
<1>2. PICK x \in Rest : \A y \in Rest : x <= y
  BY <1>1, Least
<1>3. \A m \in Cells : m < x => m \in T
  BY <1>2, Capacity
<1>4. QED BY <1>2, <1>3

-----------------------------------------------------------------------------
(* The path from a cell to the root.                                       *)

(* Halving takes a cell that is not the root to a lower one. *)
LEMMA ParentLower ==
  ASSUME NEW c \in Cells, c # 0
  PROVE  ParentCell(c) \in Cells /\ ParentCell(c) < c
BY Capacity DEF ParentCell

(* A family of sets that PathUp's equation holds of, up to the cell n. *)
PathsTo(n, g) ==
  /\ DOMAIN g = 0 .. n
  /\ \A c \in 0 .. n : g[c] = IF c = 0 THEN {0} ELSE {c} \union g[ParentCell(c)]

(* There is such a family for every n, so the definition is of a function. *)
LEMMA PathsExist == \A n \in Cells : \E g : PathsTo(n, g)
<1> DEFINE T == {n \in Cells : \E g : PathsTo(n, g)}
<1>1. ASSUME NEW n \in Cells, \A m \in Cells : m < n => m \in T
      PROVE  \E g : PathsTo(n, g)
  <2>1. CASE n = 0
    <3>1. PathsTo(0, [c \in 0 .. 0 |-> {0}])
      BY DEF PathsTo
    <3>2. QED BY <2>1, <3>1
  <2>2. CASE n # 0
    <3>1. n - 1 \in T
      BY <1>1, <2>2, Capacity
    <3>2. PICK g : PathsTo(n - 1, g)
      BY <3>1
    <3> DEFINE f == [c \in 0 .. n |-> IF c = n THEN {n} \union g[ParentCell(n)]
                                      ELSE g[c]]
    <3>3. \A c \in 0 .. n : c # 0 => ParentCell(c) \in 0 .. n - 1
      BY <2>2, Capacity DEF ParentCell
    <3>4. \A c \in 0 .. n - 1 : f[c] = g[c]
      BY <2>2, Capacity
    <3>5. f[n] = {n} \union g[ParentCell(n)] /\ DOMAIN f = 0 .. n
      BY <2>2, Capacity
    <3> HIDE DEF f
    <3>6. ASSUME NEW c \in 0 .. n
          PROVE  f[c] = IF c = 0 THEN {0} ELSE {c} \union f[ParentCell(c)]
      <4>1. CASE c = n
        BY <2>2, <3>3, <3>4, <3>5, <4>1
      <4>2. CASE c # n
        <5>1. c \in 0 .. n - 1
          BY <4>2, Capacity
        <5>2. g[c] = IF c = 0 THEN {0} ELSE {c} \union g[ParentCell(c)]
          BY <3>2, <5>1 DEF PathsTo
        <5>3. QED BY <3>3, <3>4, <5>1, <5>2
      <4>3. QED BY <4>1, <4>2
    <3>7. PathsTo(n, f)
      BY <3>5, <3>6 DEF PathsTo
    <3>8. QED BY <3>7
  <2>3. QED BY <2>1, <2>2
<1>2. Cells \subseteq T
  <2> HIDE DEF T
  <2>1. \A n \in Cells : (\A m \in Cells : m < n => m \in T) => n \in T
    BY <1>1 DEF T
  <2>2. QED BY <2>1, CellByCell
<1>3. QED BY <1>2

(* The path from a cell is the cell and its parent's path. *)
LEMMA PathUpEquation ==
  /\ PathUp[0] = {0}
  /\ \A c \in Cells : c # 0 => PathUp[c] = {c} \union PathUp[ParentCell(c)]
<1>1. PICK g : PathsTo(WaitCap - 1, g)
  BY PathsExist, Capacity
<1>2. DOMAIN g = Cells
  BY <1>1, Capacity DEF PathsTo
<1> DEFINE f == [c \in Cells |-> g[c]]
<1>3. \A c \in Cells : f[c] = IF c = 0 THEN {0} ELSE {c} \union f[ParentCell(c)]
  BY <1>1, Capacity, ParentLower DEF PathsTo
<1>4. f = [c \in Cells |-> IF c = 0 THEN {0} ELSE {c} \union f[ParentCell(c)]]
  <2>1. f = [c \in Cells |-> f[c]]
    OBVIOUS
  <2> HIDE DEF f
  <2>2. QED BY <1>3, <2>1, Zenon
<1> HIDE DEF f
<1>5. PathUp = [c \in Cells |-> IF c = 0 THEN {0}
                               ELSE {c} \union PathUp[ParentCell(c)]]
  BY <1>4, Zenon DEF PathUp
<1>6. \A c \in Cells : PathUp[c] = IF c = 0 THEN {0}
                                  ELSE {c} \union PathUp[ParentCell(c)]
  BY <1>5, Zenon
<1>7. 0 \in Cells
  BY Capacity
<1>8. QED BY <1>6, <1>7, Zenon

(* The path from n lies between the root and n, and holds both. *)
LEMMA PathBounds ==
  \A n \in Cells : PathUp[n] \subseteq 0 .. n /\ n \in PathUp[n] /\ 0 \in PathUp[n]
<1> DEFINE T == {n \in Cells : /\ PathUp[n] \subseteq 0 .. n
                               /\ n \in PathUp[n] /\ 0 \in PathUp[n]}
<1>1. ASSUME NEW n \in Cells, \A m \in Cells : m < n => m \in T
      PROVE  n \in T
  <2>1. CASE n = 0
    BY <2>1, PathUpEquation, Capacity
  <2>2. CASE n # 0
    <3>1. ParentCell(n) \in Cells /\ ParentCell(n) < n
      BY <2>2, ParentLower
    <3>2. /\ PathUp[ParentCell(n)] \subseteq 0 .. ParentCell(n)
          /\ 0 \in PathUp[ParentCell(n)]
      BY <1>1, <3>1
    <3>3. PathUp[n] = {n} \union PathUp[ParentCell(n)]
      BY <2>2, PathUpEquation
    <3>4. 0 .. ParentCell(n) \subseteq 0 .. n /\ n \in 0 .. n
      BY <3>1, Capacity
    <3>5. QED BY <3>2, <3>3, <3>4
  <2>3. QED BY <2>1, <2>2
<1> HIDE DEF T
<1>2. Cells \subseteq T
  BY <1>1, CellByCell
<1>3. QED BY <1>2 DEF T

(* Every other member of a path follows its parent: there is no member     *)
(* between the two.                                                        *)
LEMMA PathSteps ==
  \A n \in Cells : \A p \in PathUp[n] \ {0} :
    /\ ParentCell(p) \in PathUp[n]
    /\ \A a \in PathUp[n] : a < p => a <= ParentCell(p)
<1> DEFINE T == {n \in Cells : \A p \in PathUp[n] \ {0} :
                   /\ ParentCell(p) \in PathUp[n]
                   /\ \A a \in PathUp[n] : a < p => a <= ParentCell(p)}
<1>1. ASSUME NEW n \in Cells, \A m \in Cells : m < n => m \in T
      PROVE  n \in T
  <2>1. CASE n = 0
    BY <2>1, PathUpEquation
  <2>2. CASE n # 0
    <3> DEFINE q == ParentCell(n)
    <3>1. q \in Cells /\ q < n
      BY <2>2, ParentLower
    <3>2. PathUp[n] = {n} \union PathUp[q]
      BY <2>2, PathUpEquation
    <3>3. PathUp[q] \subseteq 0 .. q /\ q \in PathUp[q]
      BY <3>1, PathBounds
    <3>4. \A p \in PathUp[q] \ {0} :
            /\ ParentCell(p) \in PathUp[q]
            /\ \A a \in PathUp[q] : a < p => a <= ParentCell(p)
      BY <1>1, <3>1
    <3>5. ASSUME NEW p \in PathUp[n] \ {0}
          PROVE  /\ ParentCell(p) \in PathUp[n]
                 /\ \A a \in PathUp[n] : a < p => a <= ParentCell(p)
      <4>1. CASE p = n
        <5>1. ParentCell(p) \in PathUp[n]
          BY <3>2, <3>3, <4>1
        <5>2. ASSUME NEW a \in PathUp[n], a < n PROVE a <= q
          <6>1. a \in 0 .. q
            BY <3>2, <3>3, <5>2, Capacity
          <6>2. QED BY <3>1, <6>1, Capacity
        <5> HIDE DEF q
        <5>3. QED BY <4>1, <5>1, <5>2 DEF q
      <4>2. CASE p # n
        <5>1. p \in PathUp[q] \ {0} /\ p \in 0 .. q
          BY <3>2, <3>3, <4>2
        <5>2. ASSUME NEW a \in PathUp[n], a < p PROVE a <= ParentCell(p)
          <6>1. a # n
            BY <3>1, <5>1, <5>2, Capacity
          <6>2. QED BY <3>2, <3>4, <5>1, <5>2, <6>1
        <5>3. QED BY <3>2, <3>4, <5>1, <5>2
      <4>3. QED BY <4>1, <4>2
    <3>6. QED BY <3>5
  <2>3. QED BY <2>1, <2>2
<1> HIDE DEF T
<1>2. Cells \subseteq T
  BY <1>1, CellByCell
<1>3. QED BY <1>2 DEF T

(* The path from a member of a path is part of it. *)
LEMMA PathWithin == \A n \in Cells : \A c \in PathUp[n] : PathUp[c] \subseteq PathUp[n]
<1> DEFINE T == {n \in Cells : \A c \in PathUp[n] : PathUp[c] \subseteq PathUp[n]}
<1>1. ASSUME NEW n \in Cells, \A m \in Cells : m < n => m \in T
      PROVE  n \in T
  <2>1. CASE n = 0
    BY <2>1, PathUpEquation
  <2>2. CASE n # 0
    <3>1. ParentCell(n) \in Cells /\ ParentCell(n) < n
      BY <2>2, ParentLower
    <3>2. PathUp[n] = {n} \union PathUp[ParentCell(n)]
      BY <2>2, PathUpEquation
    <3>3. \A c \in PathUp[ParentCell(n)] : PathUp[c] \subseteq PathUp[ParentCell(n)]
      BY <1>1, <3>1
    <3>4. QED BY <3>2, <3>3
  <2>3. QED BY <2>1, <2>2
<1> HIDE DEF T
<1>2. Cells \subseteq T
  BY <1>1, CellByCell
<1>3. QED BY <1>2 DEF T

(* Every member of a path but the one it starts from has a child on it. *)
LEMMA PathChild ==
  \A n \in Cells : \A q \in PathUp[n] :
    q # n => \E s \in PathUp[n] \ {0} : ParentCell(s) = q
<1> DEFINE T == {n \in Cells : \A q \in PathUp[n] :
                   q # n => \E s \in PathUp[n] \ {0} : ParentCell(s) = q}
<1>1. ASSUME NEW n \in Cells, \A m \in Cells : m < n => m \in T
      PROVE  n \in T
  <2>1. CASE n = 0
    BY <2>1, PathUpEquation
  <2>2. CASE n # 0
    <3>1. ParentCell(n) \in Cells /\ ParentCell(n) < n
      BY <2>2, ParentLower
    <3>2. PathUp[n] = {n} \union PathUp[ParentCell(n)]
      BY <2>2, PathUpEquation
    <3>3. \A q \in PathUp[ParentCell(n)] : q # ParentCell(n) =>
            \E s \in PathUp[ParentCell(n)] \ {0} : ParentCell(s) = q
      BY <1>1, <3>1
    <3>4. ASSUME NEW q \in PathUp[n], q # n
          PROVE  \E s \in PathUp[n] \ {0} : ParentCell(s) = q
      <4>1. CASE q = ParentCell(n)
        BY <2>2, <3>2, <4>1
      <4>2. CASE q # ParentCell(n)
        BY <3>2, <3>3, <3>4, <4>2
      <4>3. QED BY <4>1, <4>2
    <3>5. QED BY <3>4
  <2>3. QED BY <2>1, <2>2
<1> HIDE DEF T
<1>2. Cells \subseteq T
  BY <1>1, CellByCell
<1>3. QED BY <1>2 DEF T




-----------------------------------------------------------------------------
(* The type invariant.                                                     *)

LEMMA InitType == Init => TypeOK
BY Capacity DEF Init, TypeOK, EmptyHeap, Stored

LEMMA PushKeepsType ==
  ASSUME TypeOK, NEW v \in Elements, Push(v) PROVE TypeOK'
<1>1. len \in Cells /\ len' \in 0 .. WaitCap /\ value' \in Stored /\ pos' \in Cells
  BY Capacity DEF TypeOK, Push, Stored
<1>2. pc' \in {"idle", "rise"}
  BY DEF TypeOK, Push
<1>3. data' \in [Cells -> Stored]
  BY <1>1 DEF TypeOK, Push, Stored
<1>4. up' \in Cells
  BY <1>1, ParentLower DEF TypeOK, Push
<1>5. QED BY <1>1, <1>2, <1>3, <1>4 DEF TypeOK

LEMMA RiseKeepsType == ASSUME TypeOK, Rise PROVE TypeOK'
<1>1. up' \in Cells
  BY ParentLower, Capacity DEF TypeOK, Rise
<1>2. data' \in [Cells -> Stored]
  BY DEF TypeOK, Rise
<1>3. QED BY <1>1, <1>2 DEF TypeOK, Rise

LEMMA PopKeepsType == ASSUME TypeOK, Pop PROVE TypeOK'
<1>1. len - 1 \in Cells /\ 0 \in Cells /\ len' = len - 1 /\ len' \in 0 .. WaitCap
  BY Capacity DEF TypeOK, Pop
<1>2. data' \in [Cells -> Stored] /\ value' \in Stored
  BY <1>1 DEF TypeOK, Pop
<1>3. pc' = "sink" => pos' < len'
  BY <1>1, Capacity DEF TypeOK, Pop
<1>4. QED BY <1>1, <1>2, <1>3 DEF TypeOK, Pop

(* The cell a sinking value moves to is in use. *)
LEMMA SmallestInUse ==
  ASSUME TypeOK, pc = "sink" PROVE Smallest \in Cells /\ Smallest < len
BY Capacity DEF TypeOK, Smallest

LEMMA SinkKeepsType == ASSUME TypeOK, Sink PROVE TypeOK'
<1>1. Smallest \in Cells /\ Smallest < len
  BY SmallestInUse DEF Sink
<1>2. data' \in [Cells -> Stored]
  BY <1>1 DEF TypeOK, Sink
<1>3. QED BY <1>1, <1>2 DEF TypeOK, Sink

LEMMA NextKeepsType == ASSUME TypeOK, [Next]_vars PROVE TypeOK'
<1>1. ASSUME NEW v \in Elements, Push(v) PROVE TypeOK'
  BY <1>1, PushKeepsType
<1>2. CASE Rise
  BY <1>2, RiseKeepsType
<1>3. CASE RiseEnd
  BY <1>3 DEF TypeOK, RiseEnd
<1>4. CASE Pop
  BY <1>4, PopKeepsType
<1>5. CASE Sink
  BY <1>5, SinkKeepsType
<1>6. CASE SinkEnd
  BY <1>6 DEF TypeOK, SinkEnd
<1>7. CASE UNCHANGED vars
  BY <1>7 DEF TypeOK, vars
<1>8. QED BY <1>1, <1>2, <1>3, <1>4, <1>5, <1>6, <1>7 DEF Next

(* No call touches a cell outside the array: the assertions of             *)
(* minheap_push hold, and the child a pop goes on to is below the length.  *)
THEOREM TypeCorrect == Spec => []TypeOK
<1>1. QED BY InitType, NextKeepsType, PTL DEF Spec

-----------------------------------------------------------------------------
(* The loop of a push.                                                     *)

StoredHeaps == [data : [Cells -> Stored], len : 0 .. WaitCap]

(* The array of the heap h in a push of v that has reached the cell p:     *)
(* the path below p has moved down by one.                                 *)
Raised(h, p, v) ==
  IF p = h.len THEN h.data
  ELSE [c \in Cells |-> IF c \in PathUp[h.len] /\ p < c THEN h.data[ParentCell(c)]
                        ELSE IF c = p THEN v ELSE h.data[c]]

(* A push onto the heap h is in its loop. *)
Rising(h) ==
  /\ target = HeapPush(h, value)
  /\ h.len > 0
  /\ len = h.len + 1
  /\ pos \in PathUp[h.len]
  /\ up = IF pos = 0 THEN 0 ELSE ParentCell(pos)
  /\ \A a \in PathUp[h.len] : pos <= a /\ a < h.len => value < h.data[a]
  /\ data = Raised(h, pos, value)

(* What an iteration of the loop does to the array. *)
LEMMA RaisedStep ==
  ASSUME NEW h \in StoredHeaps, NEW v \in Stored, h.len \in Cells,
         NEW p \in PathUp[h.len], p # 0
  PROVE  [Raised(h, p, v) EXCEPT ![ParentCell(p)] = v, ![p] = h.data[ParentCell(p)]]
           = Raised(h, ParentCell(p), v)
<1> DEFINE q == ParentCell(p)
           left == [Raised(h, p, v) EXCEPT ![q] = v, ![p] = h.data[q]]
           right == Raised(h, q, v)
<1>1. h.data \in [Cells -> Stored] /\ h.len \in 0 .. WaitCap
  BY DEF StoredHeaps
<1>2. PathUp[h.len] \subseteq 0 .. h.len /\ p \in 0 .. h.len /\ p \in Cells
  BY PathBounds, Capacity
<1>3. q \in Cells /\ q < p
  BY <1>2, ParentLower
<1>4. \A a \in PathUp[h.len] : q < a => a = p \/ p < a
  BY <1>2, <1>3, PathSteps, Capacity
<1>5. q # h.len /\ right = [c \in Cells |->
        IF c \in PathUp[h.len] /\ q < c THEN h.data[ParentCell(c)]
        ELSE IF c = q THEN v ELSE h.data[c]]
  BY <1>2, <1>3, Capacity DEF Raised
<1>6. \A c \in Cells : Raised(h, p, v)[c] =
        IF c \in PathUp[h.len] /\ p < c THEN h.data[ParentCell(c)]
        ELSE IF c = p /\ p # h.len THEN v ELSE h.data[c]
  BY <1>1, <1>2, Capacity DEF Raised
<1>7. Raised(h, p, v) = [c \in Cells |-> Raised(h, p, v)[c]]
  BY <1>1 DEF Raised
<1>8. left = [c \in Cells |-> IF c = p THEN h.data[q]
                              ELSE IF c = q THEN v ELSE Raised(h, p, v)[c]]
  BY <1>3, <1>7
<1>9. ASSUME NEW c \in Cells PROVE left[c] = right[c]
  <2>1. CASE c = p
    BY <1>3, <1>5, <1>8, <2>1
  <2>2. CASE c = q
    BY <1>3, <1>5, <1>8, <2>2, Capacity
  <2>3. CASE c # p /\ c # q /\ c \in PathUp[h.len] /\ q < c
    BY <1>4, <1>5, <1>6, <1>8, <2>3
  <2>4. CASE c # p /\ c # q /\ ~(c \in PathUp[h.len] /\ q < c)
    <3>1. ~(c \in PathUp[h.len] /\ p < c)
      BY <1>2, <1>3, <2>4, Capacity
    <3>2. QED BY <1>5, <1>6, <1>8, <2>4, <3>1
  <2>5. QED BY <2>1, <2>2, <2>3, <2>4
<1>10. left = [c \in Cells |-> left[c]] /\ right = [c \in Cells |-> right[c]]
  BY <1>5, <1>8
<1> HIDE DEF left, right
<1>11. left = right
  BY <1>9, <1>10, Zenon
<1>12. QED BY <1>11 DEF left, right

(* A push that has stopped at the cell p has raised the path below p. *)
LEMMA RisenPath ==
  ASSUME NEW h \in StoredHeaps, NEW v \in Stored, h.len \in Cells,
         NEW p \in PathUp[h.len],
         \A a \in PathUp[h.len] : p <= a /\ a < h.len => v < h.data[a],
         p # 0 => h.data[ParentCell(p)] <= v
  PROVE  Risen(h, v) = {c \in PathUp[h.len] : p <= c}
<1>1. h.data \in [Cells -> Nat] /\ v \in Nat
  <2>1. Stored \subseteq Nat
    BY ElementsAssumption DEF Stored
  <2>2. h.data \in [Cells -> Stored]
    BY DEF StoredHeaps
  <2> HIDE DEF Stored
  <2>3. QED BY <2>1, <2>2
<1>2. PathUp[h.len] \subseteq 0 .. h.len /\ PathUp[h.len] \subseteq Cells
  BY PathBounds, Capacity
<1>3. ASSUME NEW c \in PathUp[h.len], p <= c PROVE c \in Risen(h, v)
  <2>1. \A a \in PathUp[h.len] : c <= a => p <= a
    BY <1>2, <1>3
  <2>2. QED BY <1>2, <2>1 DEF Risen
<1>4. ASSUME NEW c \in Risen(h, v) PROVE c \in PathUp[h.len] /\ p <= c
  <2>1. c \in PathUp[h.len]
    BY DEF Risen
  <2>2. SUFFICES ASSUME c < p PROVE FALSE
    BY <1>2, <2>1
  <2>3. p # 0 /\ p \in Cells /\ p <= h.len
    BY <1>2, <2>1, <2>2
  <2>4. ParentCell(p) \in PathUp[h.len] /\ c <= ParentCell(p)
    BY <2>1, <2>2, <2>3, PathSteps
  <2>5. ParentCell(p) < h.len /\ ParentCell(p) \in Cells
    BY <1>2, <2>3, ParentLower, Capacity
  <2>6. v < h.data[ParentCell(p)]
    BY <2>4, <2>5 DEF Risen
  <2>7. QED BY <1>1, <2>3, <2>5, <2>6
<1>5. QED BY <1>3, <1>4

(* What it leaves is what HeapPush says. *)
LEMMA RaisedIsPushed ==
  ASSUME NEW h \in StoredHeaps, NEW v \in Stored, h.len \in Cells, h.len > 0,
         NEW p \in PathUp[h.len],
         Risen(h, v) = {c \in PathUp[h.len] : p <= c}
  PROVE  HeapPush(h, v) = [data |-> Raised(h, p, v), len |-> h.len + 1]
<1> DEFINE Moved(c) == IF c \notin Risen(h, v) THEN h.data[c]
                       ELSE IF ParentCell(c) \in Risen(h, v)
                       THEN h.data[ParentCell(c)]
                       ELSE v
<1>1. HeapPush(h, v) =
        [data |-> IF Risen(h, v) = {h.len} /\ h.len > 0 THEN h.data
                  ELSE [c \in Cells |-> Moved(c)],
         len  |-> h.len + 1]
  BY DEF HeapPush
<1>2. PathUp[h.len] \subseteq 0 .. h.len /\ PathUp[h.len] \subseteq Cells
      /\ h.len \in PathUp[h.len]
  BY PathBounds, Capacity
<1>3. Risen(h, v) = {h.len} <=> p = h.len
  <2>1. p \in Risen(h, v) /\ h.len \in Risen(h, v)
    BY <1>2
  <2>2. ASSUME p = h.len PROVE Risen(h, v) = {h.len}
    <3>1. \A c \in PathUp[h.len] : h.len <= c => c = h.len
      BY <1>2
    <3>2. QED BY <1>2, <2>1, <2>2, <3>1
  <2>3. QED BY <2>1, <2>2
<1>4. CASE p = h.len
  BY <1>1, <1>3, <1>4 DEF Raised
<1>5. CASE p # h.len
  <2>1. ASSUME NEW c \in Cells
        PROVE  Moved(c) = IF c \in PathUp[h.len] /\ p < c THEN h.data[ParentCell(c)]
                          ELSE IF c = p THEN v ELSE h.data[c]
    <3>1. CASE c \in PathUp[h.len] /\ p < c
      <4>1. c # 0
        BY <1>2, <3>1
      <4>2. ParentCell(c) \in PathUp[h.len] /\ p <= ParentCell(c)
        BY <3>1, <4>1, PathSteps
      <4>3. c \in Risen(h, v) /\ ParentCell(c) \in Risen(h, v)
        BY <1>2, <3>1, <4>2
      <4>4. QED BY <3>1, <4>3
    <3>2. CASE c = p
      <4>1. c \in Risen(h, v) /\ ~(p < c)
        BY <1>2, <3>2
      <4>2. ParentCell(c) < p
        BY <1>2, <3>2, Capacity DEF ParentCell
      <4>3. ParentCell(c) \notin Risen(h, v)
        BY <1>2, <4>2
      <4>4. QED BY <3>2, <4>1, <4>3
    <3>3. CASE c # p /\ ~(c \in PathUp[h.len] /\ p < c)
      <4>1. c \notin Risen(h, v)
        BY <1>2, <3>3
      <4>2. QED BY <3>3, <4>1
    <3>4. QED BY <3>1, <3>2, <3>3
  <2> HIDE DEF Moved
  <2>2. [c \in Cells |-> Moved(c)] = Raised(h, p, v)
    BY <1>5, <2>1 DEF Raised
  <2>3. QED BY <1>1, <1>3, <1>5, <2>2
<1>6. QED BY <1>4, <1>5

-----------------------------------------------------------------------------
(* The loop of a pop.                                                      *)

(* The array of the heap h in a pop whose value, the last of the heap, has *)
(* reached the cell p: the path above p has moved up by one.               *)
Lowered(h, p) ==
  [c \in Cells |-> IF c = p THEN h.data[h.len - 1]
                   ELSE IF c \in PathUp[p] THEN h.data[SmallerChild(h, c)]
                   ELSE h.data[c]]

(* A pop of the heap h is in its loop. *)
Sinking(h) ==
  /\ target = HeapPop(h)
  /\ len = h.len - 1
  /\ value = h.data[h.len - 1]
  /\ pos \in Sunk(h)
  /\ data = Lowered(h, pos)

(* A member of Sunk has the cells above it in Sunk. *)
LEMMA SunkPath ==
  ASSUME NEW h \in StoredHeaps, NEW c \in Sunk(h)
  PROVE  c \in Cells /\ PathUp[c] \subseteq Sunk(h)
<1>1. c \in 0 .. h.len - 2 /\ h.len \in 0 .. WaitCap
  BY DEF Sunk, StoredHeaps
<1>2. c \in Cells
  BY <1>1, Capacity
<1>3. PathUp[c] \subseteq 0 .. c
  BY <1>2, PathBounds
<1>4. ASSUME NEW a \in PathUp[c] PROVE a \in Sunk(h)
  <2>1. a \in 0 .. h.len - 2
    BY <1>1, <1>3
  <2>2. PathUp[a] \subseteq PathUp[c]
    BY <1>2, PathWithin
  <2>3. \A b \in PathUp[c] \ {0} : /\ b = SmallerChild(h, ParentCell(b))
                                   /\ h.data[b] < h.data[h.len - 1]
    BY DEF Sunk
  <2>4. QED BY <2>1, <2>2, <2>3 DEF Sunk
<1>5. QED BY <1>2, <1>4

(* In the loop of a pop the next cell is the smaller child, when the value *)
(* there is smaller than the one that sinks, and the cell itself when not. *)
LEMMA NextCell ==
  ASSUME TypeOK, pc = "sink", NEW h \in StoredHeaps, Sinking(h)
  PROVE  /\ SmallerChild(h, pos) \in {2 * pos + 1, 2 * pos + 2}
         /\ Smallest # pos => /\ Smallest = SmallerChild(h, pos)
                              /\ h.data[Smallest] < value
         /\ Smallest = pos /\ SmallerChild(h, pos) < len
              => ~(h.data[SmallerChild(h, pos)] < value)
<1>1. /\ pos \in Cells /\ pos < len /\ len \in 0 .. WaitCap /\ len = h.len - 1
      /\ h.len \in 0 .. WaitCap
  BY DEF TypeOK, Sinking, StoredHeaps
<1>2. h.data \in [Cells -> Nat]
  <2>1. Stored \subseteq Nat
    BY ElementsAssumption DEF Stored
  <2>2. h.data \in [Cells -> Stored]
    BY DEF StoredHeaps
  <2> HIDE DEF Stored
  <2>3. QED BY <2>1, <2>2
<1>3. PathUp[pos] \subseteq 0 .. pos
  BY <1>1, PathBounds
<1>4. \A c \in Cells : pos < c => data[c] = h.data[c]
  BY <1>1, <1>3, Capacity DEF Sinking, Lowered
<1>5. data[pos] = value /\ value = h.data[h.len - 1] /\ h.len - 1 \in Cells
  BY <1>1, Capacity DEF Sinking, Lowered
<1> DEFINE l == 2 * pos + 1
           r == 2 * pos + 2
<1>6. /\ l < len => l \in Cells /\ data[l] = h.data[l]
      /\ r < len => r \in Cells /\ data[r] = h.data[r]
  BY <1>1, <1>4, Capacity
<1>7. SmallerChild(h, pos) = IF r < len /\ h.data[r] < h.data[l] THEN r ELSE l
  BY <1>1 DEF SmallerChild
<1>8. Smallest = LET m == IF l < len /\ data[l] < data[pos] THEN l ELSE pos
                 IN IF r < len /\ data[r] < data[m] THEN r ELSE m
  BY DEF Smallest
<1>9. l # pos /\ r # pos /\ l # r /\ (r < len => l < len)
  BY <1>1, Capacity
<1> HIDE DEF l, r
<1>10. CASE l < len
  <2>1. h.data[l] \in Nat /\ h.data[pos] \in Nat /\ value \in Nat
    BY <1>1, <1>2, <1>5, <1>6, <1>10
  <2>2. CASE r < len
    <3>1. h.data[r] \in Nat
      BY <1>2, <1>6, <2>2
    <3>2. QED BY <1>5, <1>6, <1>7, <1>8, <1>9, <1>10, <2>1, <2>2, <3>1 DEF l, r
  <2>3. CASE ~(r < len)
    BY <1>5, <1>6, <1>7, <1>8, <1>9, <1>10, <2>1, <2>3 DEF l, r
  <2>4. QED BY <2>2, <2>3
<1>11. CASE ~(l < len)
  BY <1>7, <1>8, <1>9, <1>11 DEF l, r
<1>12. QED BY <1>10, <1>11

(* A child's parent is the cell it is a child of. *)
LEMMA ChildsParent ==
  ASSUME NEW c \in Cells, NEW s \in {2 * c + 1, 2 * c + 2}
  PROVE  s # 0 /\ c < s /\ ParentCell(s) = c
BY Capacity DEF ParentCell

(* An iteration of the loop takes the value one cell down. *)
LEMMA SinkStep ==
  ASSUME TypeOK, Sink, NEW h \in StoredHeaps, Sinking(h)
  PROVE  Sinking(h)'
<1> DEFINE s == Smallest
<1>1. s = SmallerChild(h, pos) /\ h.data[s] < value /\ s \in {2 * pos + 1, 2 * pos + 2}
  BY NextCell DEF Sink
<1>2. s \in Cells /\ s < len
  BY SmallestInUse DEF Sink
<1>3. pos \in Cells /\ pos < s /\ s # 0 /\ ParentCell(s) = pos
  BY <1>1, ChildsParent DEF TypeOK
<1>4. PathUp[s] = {s} \union PathUp[pos] /\ PathUp[pos] \subseteq 0 .. pos
  BY <1>2, <1>3, PathUpEquation, PathBounds
<1>5. len = h.len - 1 /\ h.len \in 0 .. WaitCap /\ value = h.data[h.len - 1]
  BY DEF Sinking, StoredHeaps
<1> DEFINE Passed(a) == /\ a = SmallerChild(h, ParentCell(a))
                        /\ h.data[a] < h.data[h.len - 1]
<1>6. s \in Sunk(h)
  <2>1. \A a \in PathUp[pos] \ {0} : Passed(a)
    BY DEF Sinking, Sunk
  <2>2. Passed(s)
    BY <1>1, <1>3, <1>5
  <2> HIDE DEF Passed
  <2>3. \A a \in PathUp[s] \ {0} : Passed(a)
    BY <1>4, <2>1, <2>2
  <2>4. s \in 0 .. h.len - 2
    BY <1>2, <1>5, Capacity
  <2>5. QED BY <2>3, <2>4 DEF Sunk, Passed
<1>7. data = Lowered(h, pos) /\ pos' = s
  BY DEF Sinking, Sink
<1>8. data[pos] = value /\ data[s] = h.data[s]
  BY <1>2, <1>3, <1>4, <1>5, <1>7, Capacity DEF Lowered
<1>9. data' = [data EXCEPT ![pos] = h.data[s], ![s] = value]
  BY <1>8 DEF Sink
<1>10. data' = Lowered(h, s)
  <2> DEFINE right == Lowered(h, s)
  <2>1. data' = [c \in Cells |-> IF c = s THEN value
                                 ELSE IF c = pos THEN h.data[s] ELSE data[c]]
    BY <1>3, <1>7, <1>9 DEF Lowered
  <2>2. right = [c \in Cells |-> IF c = s THEN value
                   ELSE IF c \in PathUp[s] THEN h.data[SmallerChild(h, c)]
                   ELSE h.data[c]]
    BY <1>5 DEF Lowered
  <2>3. pos \in PathUp[pos]
    BY <1>3, PathBounds
  <2>4. \A c \in Cells : c # pos =>
          data[c] = IF c \in PathUp[pos] THEN h.data[SmallerChild(h, c)]
                    ELSE h.data[c]
    BY <1>7 DEF Lowered
  <2>5. \A c \in Cells : data'[c] = right[c]
    <3> HIDE DEF s, right
    <3>1. QED BY <1>1, <1>4, <2>1, <2>2, <2>3, <2>4
  <2>6. data' = [c \in Cells |-> data'[c]] /\ right = [c \in Cells |-> right[c]]
    BY <2>1, <2>2
  <2> HIDE DEF right
  <2>7. QED BY <2>5, <2>6, Zenon DEF right
<1>11. target' = target /\ len' = len /\ value' = value
  BY DEF Sink
<1> HIDE DEF s
<1>12. QED BY <1>6, <1>7, <1>10, <1>11 DEF Sinking

(* A pop that ends at a cell has sunk its value along that cell's path. *)
LEMMA SunkIsPath ==
  ASSUME TypeOK, SinkEnd, NEW h \in StoredHeaps, Sinking(h)
  PROVE  Sunk(h) = PathUp[pos]
<1>1. pos \in Sunk(h) /\ pos \in Cells /\ len = h.len - 1 /\ value = h.data[h.len - 1]
  BY DEF Sinking, TypeOK
<1>2. PathUp[pos] \subseteq Sunk(h)
  BY <1>1, SunkPath
<1> DEFINE T == {c \in Cells : c \in Sunk(h) => c \in PathUp[pos]}
<1>3. ASSUME NEW n \in Cells, \A m \in Cells : m < n => m \in T
      PROVE  n \in T
  <2>1. CASE n = 0
    BY <1>1, <2>1, PathBounds
  <2>2. CASE n # 0
    <3> SUFFICES ASSUME n \in Sunk(h) PROVE n \in PathUp[pos]
      OBVIOUS
    <3>1. ParentCell(n) \in Cells /\ ParentCell(n) < n
      BY <2>2, ParentLower
    <3>2. n \in PathUp[n] /\ ParentCell(n) \in PathUp[n]
      BY <2>2, <3>1, PathBounds, PathUpEquation
    <3>3. ParentCell(n) \in Sunk(h)
      BY <3>2, SunkPath
    <3>4. ParentCell(n) \in PathUp[pos]
      BY <1>3, <3>1, <3>3
    <3>5. n = SmallerChild(h, ParentCell(n)) /\ h.data[n] < h.data[h.len - 1]
          /\ n \in 0 .. h.len - 2
      BY <2>2, <3>2 DEF Sunk
    <3>6. CASE ParentCell(n) = pos
      <4>1. n < len /\ h.data[n] < value /\ n = SmallerChild(h, pos)
        BY <1>1, <3>5, <3>6, Capacity DEF StoredHeaps
      <4>2. Smallest = pos /\ pc = "sink"
        BY DEF SinkEnd
      <4>3. QED BY <4>1, <4>2, NextCell
    <3>7. CASE ParentCell(n) # pos
      <4>1. PICK s \in PathUp[pos] \ {0} : ParentCell(s) = ParentCell(n)
        BY <1>1, <3>4, <3>7, PathChild
      <4>2. s = SmallerChild(h, ParentCell(s))
        BY <1>1, <4>1 DEF Sunk
      <4>3. QED BY <3>5, <4>1, <4>2
    <3>8. QED BY <3>6, <3>7
  <2>3. QED BY <2>1, <2>2
<1> HIDE DEF T
<1>4. Cells \subseteq T
  BY <1>3, CellByCell
<1>5. Sunk(h) \subseteq Cells
  BY SunkPath
<1>6. QED BY <1>2, <1>4, <1>5 DEF T

(* What it leaves is what HeapPop says. *)
LEMMA LoweredIsPopped ==
  ASSUME NEW h \in StoredHeaps, NEW p \in Cells, Sunk(h) = PathUp[p]
  PROVE  HeapPop(h) = [data |-> Lowered(h, p), len |-> h.len - 1]
<1> DEFINE Moved(c) == IF c \notin Sunk(h) THEN h.data[c]
                       ELSE IF SmallerChild(h, c) \in Sunk(h)
                       THEN h.data[SmallerChild(h, c)]
                       ELSE h.data[h.len - 1]
<1>1. HeapPop(h) = [data |-> [c \in Cells |-> Moved(c)], len |-> h.len - 1]
  BY DEF HeapPop
<1>2. PathUp[p] \subseteq 0 .. p /\ p \in PathUp[p]
  BY PathBounds
<1>3. \A s \in PathUp[p] \ {0} : s = SmallerChild(h, ParentCell(s))
  BY <1>2 DEF Sunk
<1>4. ASSUME NEW c \in Cells
      PROVE  Moved(c) = IF c = p THEN h.data[h.len - 1]
                        ELSE IF c \in PathUp[p] THEN h.data[SmallerChild(h, c)]
                        ELSE h.data[c]
  <2>1. CASE c = p
    <3>1. SmallerChild(h, p) \in {2 * p + 1, 2 * p + 2}
      BY DEF SmallerChild
    <3>2. p < SmallerChild(h, p)
      BY <3>1, ChildsParent
    <3>3. SmallerChild(h, p) \notin PathUp[p]
      BY <1>2, <3>2, Capacity
    <3>4. QED BY <1>2, <2>1, <3>3
  <2>2. CASE c # p /\ c \in PathUp[p]
    <3>1. PICK s \in PathUp[p] \ {0} : ParentCell(s) = c
      BY <2>2, PathChild
    <3>2. SmallerChild(h, c) \in Sunk(h)
      BY <1>3, <3>1
    <3>3. QED BY <2>2, <3>2
  <2>3. CASE c # p /\ c \notin PathUp[p]
    BY <2>3
  <2>4. QED BY <2>1, <2>2, <2>3
<1> HIDE DEF Moved
<1>5. [c \in Cells |-> Moved(c)] = Lowered(h, p)
  BY <1>4 DEF Lowered
<1>6. QED BY <1>1, <1>5

-----------------------------------------------------------------------------
(* The loops compute the operators.                                        *)

(* Where each call in progress is: the heap it was called on, and how far  *)
(* along its path the value has come.                                      *)
LoopInv == /\ LoopsMatchOps
           /\ pc = "rise" => \E h \in StoredHeaps : Rising(h)
           /\ pc = "sink" => \E h \in StoredHeaps : Sinking(h)

LEMMA HeapStored == TypeOK => Heap \in StoredHeaps
BY DEF TypeOK, StoredHeaps, Heap

LEMMA InitLoops == Init => LoopInv
BY DEF Init, LoopInv, LoopsMatchOps, Heap, EmptyHeap

(* A call of minheap_push enters its loop at the first free cell, or       *)
(* returns at once from an empty heap.                                     *)
LEMMA PushLoops ==
  ASSUME TypeOK, NEW v \in Elements, Push(v) PROVE LoopInv'
<1>1. PICK h \in StoredHeaps : h = Heap
  BY HeapStored
<1>2. h.len = len /\ h.data = data
  BY <1>1 DEF Heap
<1>3. len \in Cells /\ v \in Stored
  BY Capacity DEF TypeOK, Push, Stored
<1>4. pos' = len /\ len' = len + 1 /\ value' = v /\ target' = HeapPush(h, v)
  BY <1>1 DEF Push
<1>5. PathUp[len] \subseteq 0 .. len /\ len \in PathUp[len]
  BY <1>3, PathBounds
<1>6. CASE len = 0
  <2>1. \A c \in Cells : ParentCell(c) < c
    BY Capacity DEF ParentCell
  <2>2. pc' = "idle" /\ data' = [data EXCEPT ![0] = v]
    BY <1>6 DEF Push
  <2>3. PathUp[0] = {0} /\ 0 \in Cells
    BY PathUpEquation, Capacity
  <2>4. Risen(h, v) = {0}
    BY <1>2, <1>6, <2>3 DEF Risen
  <2>5. ParentCell(0) # 0
    BY <2>1, <2>3, Capacity
  <2> DEFINE Moved(c) == IF c \notin Risen(h, v) THEN h.data[c]
                         ELSE IF ParentCell(c) \in Risen(h, v)
                         THEN h.data[ParentCell(c)]
                         ELSE v
  <2>6. target' = [data |-> [c \in Cells |-> Moved(c)], len |-> 1]
    BY <1>2, <1>4, <1>6 DEF HeapPush
  <2>7. \A c \in Cells : Moved(c) = IF c = 0 THEN v ELSE data[c]
    BY <1>2, <2>4, <2>5
  <2> HIDE DEF Moved
  <2>8. data' = [c \in Cells |-> IF c = 0 THEN v ELSE data[c]]
    BY <2>2 DEF TypeOK
  <2>9. data' = [c \in Cells |-> Moved(c)]
    BY <2>7, <2>8
  <2>10. Heap' = target'
    BY <1>4, <1>6, <2>6, <2>9 DEF Heap
  <2>11. QED BY <2>2, <2>10 DEF LoopInv, LoopsMatchOps
<1>7. CASE len # 0
  <2>1. pc' = "rise" /\ up' = ParentCell(len) /\ data' = data
    BY <1>7 DEF Push
  <2>2. \A a \in PathUp[h.len] : len <= a /\ a < h.len => v < h.data[a]
    BY <1>2, <1>3, <1>5, Capacity
  <2>3. data' = Raised(h, len, v)
    BY <1>2, <2>1 DEF Raised
  <2>4. h.len > 0
    BY <1>2, <1>3, <1>7, Capacity
  <2>5. Rising(h)'
    BY <1>2, <1>4, <1>5, <1>7, <2>1, <2>2, <2>3, <2>4 DEF Rising
  <2>6. QED BY <2>1, <2>5 DEF LoopInv, LoopsMatchOps
<1>8. QED BY <1>6, <1>7

(* What an iteration of a push reads: the parent's value is the heap's.    *)
LEMMA RisingReads ==
  ASSUME TypeOK, pc = "rise", NEW h \in StoredHeaps, Rising(h)
  PROVE  /\ h.len \in Cells /\ pos \in Cells /\ pos <= h.len
         /\ pos # 0 => data[up] = h.data[up] /\ up < pos /\ up \in Cells
         /\ pos = 0 => data[up] = value
<1>1. h.len \in Cells /\ data = Raised(h, pos, value) /\ pos \in PathUp[h.len]
  BY Capacity DEF Rising, TypeOK, StoredHeaps
<1>2. PathUp[h.len] \subseteq 0 .. h.len
  BY <1>1, PathBounds
<1>3. pos \in Cells /\ pos <= h.len /\ h.len > 0 /\ 0 \in Cells
  BY <1>1, <1>2, Capacity DEF TypeOK, Rising
<1>4. ASSUME pos # 0 PROVE data[up] = h.data[up] /\ up < pos /\ up \in Cells
  <2>1. up = ParentCell(pos) /\ up < pos /\ up \in Cells
    BY <1>3, <1>4, ParentLower DEF Rising
  <2>2. up # pos /\ ~(pos < up)
    BY <1>3, <2>1, Capacity
  <2>3. QED BY <1>1, <2>1, <2>2 DEF Raised
<1>5. ASSUME pos = 0 PROVE data[up] = value
  <2>1. up = 0 /\ pos # h.len /\ ~(pos < 0)
    BY <1>3, <1>5 DEF Rising
  <2>2. QED BY <1>1, <1>3, <1>5, <2>1 DEF Raised
<1>6. QED BY <1>1, <1>3, <1>4, <1>5

(* A value that may be compared with one of the heap's is a natural. *)
LEMMA StoredNaturals == Stored \subseteq Nat
BY ElementsAssumption DEF Stored

LEMMA RiseLoops ==
  ASSUME TypeOK, LoopInv, Rise PROVE LoopInv'
<1>1. PICK h \in StoredHeaps : Rising(h)
  BY DEF LoopInv, Rise
<1>2. pc = "rise" /\ pc' = "rise" /\ value < data[up]
  BY DEF Rise, TypeOK
<1>3. value \in Nat /\ data[up] \in Nat
  BY StoredNaturals DEF TypeOK
<1>4. pos # 0
  BY <1>1, <1>2, <1>3, RisingReads
<1>5. /\ h.len \in Cells /\ pos \in Cells /\ up \in Cells /\ up < pos
      /\ pos <= h.len /\ data[up] = h.data[up] /\ up = ParentCell(pos)
  BY <1>1, <1>2, <1>4, RisingReads DEF Rising
<1>6. pos \in PathUp[h.len] /\ data = Raised(h, pos, value)
  BY <1>1 DEF Rising
<1>7. data' = Raised(h, up, value)
  BY <1>2, <1>4, <1>5, <1>6, RaisedStep DEF Rise, TypeOK
<1>8. up \in PathUp[h.len] /\ \A a \in PathUp[h.len] : a < pos => a <= up
  BY <1>4, <1>5, <1>6, PathSteps
<1>9. ASSUME NEW a \in PathUp[h.len], up <= a, a < h.len PROVE value < h.data[a]
  <2>1. a \in 0 .. h.len
    BY <1>5, PathBounds
  <2>2. CASE pos <= a
    BY <1>1, <1>9, <2>2 DEF Rising
  <2>3. CASE a < pos
    <3>1. a = up
      BY <1>5, <1>8, <1>9, <2>1, <2>3, Capacity
    <3>2. QED BY <1>2, <1>5, <3>1
  <2>4. QED BY <1>5, <2>1, <2>2, <2>3, Capacity
<1>10. pos' = up /\ up' = (IF up = 0 THEN 0 ELSE ParentCell(up))
       /\ value' = value /\ len' = len /\ target' = target
  BY DEF Rise
<1>11. Rising(h)'
  BY <1>1, <1>7, <1>8, <1>9, <1>10 DEF Rising
<1>12. QED BY <1>2, <1>11 DEF LoopInv, LoopsMatchOps

LEMMA RiseEndLoops ==
  ASSUME TypeOK, LoopInv, RiseEnd PROVE LoopInv'
<1>1. PICK h \in StoredHeaps : Rising(h)
  BY DEF LoopInv, RiseEnd
<1>2. pc = "rise" /\ pc' = "idle" /\ data[up] <= value
      /\ UNCHANGED <<data, len, target>>
  <2>1. value \in Nat /\ data[up] \in Nat
    BY StoredNaturals DEF TypeOK
  <2>2. QED BY <2>1 DEF RiseEnd
<1>3. h.len \in Cells /\ (pos # 0 => data[up] = h.data[up])
  BY <1>1, <1>2, RisingReads
<1>4. /\ pos \in PathUp[h.len] /\ h.len > 0 /\ value \in Stored
      /\ \A a \in PathUp[h.len] : pos <= a /\ a < h.len => value < h.data[a]
      /\ pos # 0 => up = ParentCell(pos)
      /\ data = Raised(h, pos, value) /\ len = h.len + 1
      /\ target = HeapPush(h, value)
  BY <1>1 DEF Rising, TypeOK
<1>5. Risen(h, value) = {c \in PathUp[h.len] : pos <= c}
  BY <1>2, <1>3, <1>4, RisenPath
<1>6. target = [data |-> data, len |-> len]
  BY <1>3, <1>4, <1>5, RaisedIsPushed
<1>7. QED BY <1>2, <1>6 DEF LoopInv, LoopsMatchOps, Heap

(* A call of minheap_pop enters its loop at the root, or returns at once   *)
(* with an empty heap.                                                     *)
LEMMA PopLoops ==
  ASSUME TypeOK, Pop PROVE LoopInv'
<1>1. PICK h \in StoredHeaps : h = Heap
  BY HeapStored
<1>2. h.len = len /\ h.data = data
  BY <1>1 DEF Heap
<1>3. /\ len' = len - 1 /\ target' = HeapPop(h) /\ pos' = 0
      /\ value' = data[len - 1]
      /\ data' = [data EXCEPT ![0] = data[len - 1]]
      /\ pc' = IF len = 1 THEN "idle" ELSE "sink"
  BY <1>1 DEF Pop
<1>4. len \in 1 .. WaitCap /\ 0 \in Cells
  BY Capacity DEF TypeOK, Pop
<1>5. CASE len = 1
  <2>1. Sunk(h) = {}
    BY <1>2, <1>5 DEF Sunk
  <2>2. HeapPop(h) = [data |-> [c \in Cells |-> h.data[c]], len |-> 0]
    BY <1>2, <1>5, <2>1 DEF HeapPop
  <2>3. data' = data /\ data = [c \in Cells |-> data[c]]
    BY <1>3, <1>5 DEF TypeOK
  <2>4. QED
    BY <1>2, <1>3, <1>5, <2>2, <2>3 DEF LoopInv, LoopsMatchOps, Heap
<1>6. CASE len # 1
  <2>1. PathUp[0] = {0}
    BY PathUpEquation
  <2>2. 0 \in 0 .. h.len - 2
    BY <1>2, <1>4, <1>6
  <2>3. 0 \in Sunk(h)
    BY <2>1, <2>2 DEF Sunk
  <2>4. data' = Lowered(h, 0)
    BY <1>2, <1>3, <2>1 DEF Lowered, TypeOK
  <2>5. Sinking(h)'
    BY <1>2, <1>3, <2>3, <2>4 DEF Sinking
  <2>6. QED BY <1>3, <1>6, <2>5 DEF LoopInv, LoopsMatchOps
<1>7. QED BY <1>5, <1>6

LEMMA SinkLoops ==
  ASSUME TypeOK, LoopInv, Sink PROVE LoopInv'
<1>1. PICK h \in StoredHeaps : Sinking(h)
  BY DEF LoopInv, Sink
<1>2. Sinking(h)'
  BY <1>1, SinkStep
<1>3. pc' = "sink"
  BY DEF Sink
<1>4. QED BY <1>2, <1>3 DEF LoopInv, LoopsMatchOps

LEMMA SinkEndLoops ==
  ASSUME TypeOK, LoopInv, SinkEnd PROVE LoopInv'
<1>1. PICK h \in StoredHeaps : Sinking(h)
  BY DEF LoopInv, SinkEnd
<1>2. Sunk(h) = PathUp[pos] /\ pos \in Cells
  BY <1>1, SunkIsPath DEF TypeOK
<1>3. target = [data |-> data, len |-> len]
  BY <1>1, <1>2, LoweredIsPopped DEF Sinking
<1>4. QED BY <1>3 DEF SinkEnd, LoopInv, LoopsMatchOps, Heap

LEMMA NextKeepsLoops == ASSUME TypeOK, LoopInv, [Next]_vars PROVE LoopInv'
<1>1. ASSUME NEW v \in Elements, Push(v) PROVE LoopInv'
  BY <1>1, PushLoops
<1>2. CASE Rise
  BY <1>2, RiseLoops
<1>3. CASE RiseEnd
  BY <1>3, RiseEndLoops
<1>4. CASE Pop
  BY <1>4, PopLoops
<1>5. CASE Sink
  BY <1>5, SinkLoops
<1>6. CASE SinkEnd
  BY <1>6, SinkEndLoops
<1>7. CASE UNCHANGED vars
  BY <1>7 DEF vars, LoopInv, LoopsMatchOps, Heap, Rising, Sinking
<1>8. QED BY <1>1, <1>2, <1>3, <1>4, <1>5, <1>6, <1>7 DEF Next

(* When a push or a pop has returned, the array is what HeapOps says of    *)
(* the call: the operators the controller's model uses are what the loops  *)
(* of minheap.h compute, for every capacity and every sequence of calls.   *)
THEOREM LoopsCompute == Spec => []LoopsMatchOps
<1>1. LoopInv => LoopsMatchOps
  BY DEF LoopInv
<1>2. QED BY <1>1, TypeCorrect, InitLoops, NextKeepsLoops, PTL DEF Spec
=============================================================================
