---------------------------- MODULE SPSCQ_proofs ----------------------------
(***************************************************************************)
(* What SPSCQ promises for every element type and every capacity.          *)
(***************************************************************************)
EXTENDS SPSCQ, SequenceTheorems, TLAPS

(* The capacity is a positive number; that it is a power of two only       *)
(* justifies reading the mask as a remainder.                              *)
LEMMA CapType == Cap \in Nat /\ Cap > 0
  BY CapAssumption DEF CapAssumption

(* The next index is the following one, or 0 after the last.               *)
LEMMA AfterIndex ==
  ASSUME NEW i \in Slots
  PROVE  After(i) \in Slots /\ After(i) = (IF i + 1 = Cap THEN 0 ELSE i + 1)
  BY CapType DEF After, Slots

LEMMA AfterInjective ==
  ASSUME NEW i \in Slots, NEW j \in Slots, i # j
  PROVE  After(i) # After(j)
<1>1. /\ After(i) = (IF i + 1 = Cap THEN 0 ELSE i + 1)
      /\ After(j) = (IF j + 1 = Cap THEN 0 ELSE j + 1)
  BY AfterIndex
<1>2. i \in 0 .. Cap - 1 /\ j \in 0 .. Cap - 1
  BY DEF Slots
<1> QED
  BY <1>1, <1>2, CapType

(* Type correctness of the ring, for every Values and Cap.                 *)
THEOREM TypeCorrect == Spec => []TypeOK
<1>1. Init => TypeOK
  <2>1. 0 \in Slots
    BY CapType DEF Slots
  <2> QED
    BY <2>1 DEF Init, TypeOK
<1>2. TypeOK /\ [Next]_vars => TypeOK'
  <2> SUFFICES ASSUME TypeOK, [Next]_vars PROVE TypeOK'
    OBVIOUS
  <2> USE DEF TypeOK
  <2>1. CASE Producer
    BY <2>1, AfterIndex DEF Producer, PushCall, PushFull, PushRoom, PushFill,
       PushPublish, consumerVars
  <2>2. CASE Consumer
    BY <2>2, AfterIndex DEF Consumer, PopEmpty, PopSome, PopTake, PopRelease,
       producerVars
  <2>3. CASE UNCHANGED vars
    BY <2>3 DEF vars, producerVars, consumerVars
  <2> QED
    BY <2>1, <2>2, <2>3 DEF Next
<1> QED
  BY <1>1, <1>2, PTL DEF Spec

Inv == TypeOK /\ HandOver

(* The inductive invariant: types, and what each thread knows when it is   *)
(* in the middle of an operation.                                          *)
THEOREM HandOverCorrect == Spec => []HandOver
<1>1. Init => Inv
  <2>1. 0 \in Slots
    BY CapType DEF Slots
  <2> QED
    BY <2>1 DEF Init, Inv, TypeOK, HandOver
<1>2. TypeOK /\ TypeOK' /\ HandOver /\ [Next]_vars => HandOver'
  <2> SUFFICES ASSUME TypeOK, TypeOK', HandOver, [Next]_vars PROVE HandOver'
    OBVIOUS
  <2> USE DEF TypeOK, HandOver
  <2>1. ASSUME NEW v \in Values, PushCall(v) PROVE HandOver'
    BY <2>1 DEF PushCall, consumerVars
  <2>2. CASE PushFull
    BY <2>2 DEF PushFull, consumerVars
  <2>3. CASE PushRoom
    BY <2>3 DEF PushRoom, consumerVars, After
  <2>4. CASE PushFill
    BY <2>4 DEF PushFill, consumerVars, After
  <2>5. CASE PushPublish
    BY <2>5 DEF PushPublish, consumerVars
  <2>6. CASE PopEmpty
    BY <2>6 DEF PopEmpty, producerVars, After
  <2>7. CASE PopSome
    BY <2>7 DEF PopSome, producerVars, After
  <2>8. CASE PopTake
    BY <2>8 DEF PopTake, producerVars, After
  <2>9. CASE PopRelease
    <3>1. read # write
      BY <2>9 DEF PopRelease
    <3>2. After(read) # After(write)
      BY <3>1, AfterInjective
    <3> QED
      BY <2>9, <3>2 DEF PopRelease, producerVars, After
  <2>10. CASE UNCHANGED vars
    BY <2>10 DEF vars, producerVars, consumerVars, After
  <2> QED
    BY <2>1, <2>2, <2>3, <2>4, <2>5, <2>6, <2>7, <2>8, <2>9, <2>10
    DEF Next, Producer, Consumer
<1> QED
  BY <1>1, <1>2, TypeCorrect, PTL DEF Spec, Inv

(* No torn element: the plain writes and reads of the slots never meet.    *)
THEOREM RaceFree == Spec => []NoDataRace
<1>1. HandOver => NoDataRace
  BY DEF HandOver, NoDataRace
<1> QED
  BY <1>1, HandOverCorrect, PTL

(***************************************************************************)
(* The ring implements a bounded first-in first-out queue.                 *)
(***************************************************************************)
(* The slot of the k-th oldest element, without the remainder.             *)
LEMMA RemainderIndex ==
  ASSUME NEW r \in Slots, NEW k \in 1 .. Cap
  PROVE  /\ (r + k - 1) % Cap \in Slots
         /\ (r + k - 1) % Cap = (IF r + k - 1 < Cap THEN r + k - 1
                                                   ELSE r + k - 1 - Cap)
<1>1. r \in Nat /\ r < Cap /\ k \in Nat /\ 1 <= k /\ k <= Cap
  BY CapType DEF Slots
<1> DEFINE n == r + k - 1
<1>2. n \in Nat /\ n < 2 * Cap
  BY <1>1, CapType
<1>3. n % Cap = IF n < Cap THEN n ELSE n - Cap
  <2> HIDE DEF n
  <2>1. CASE n < Cap
    BY <1>2, <2>1, CapType
  <2>2. CASE ~ (n < Cap)
    <3>1. n - Cap \in 0 .. Cap - 1
      BY <1>2, <2>2, CapType
    <3> QED
      BY <1>2, <2>2, <3>1, CapType
  <2> QED
    BY <2>1, <2>2
<1> QED
  BY <1>1, <1>2, <1>3, CapType DEF Slots

LEMMA SlotOfIndex ==
  ASSUME read \in Slots, NEW k \in 1 .. Cap
  PROVE  /\ SlotOf(k) \in Slots
         /\ SlotOf(k) = (IF read + k - 1 < Cap THEN read + k - 1
                                               ELSE read + k - 1 - Cap)
  BY RemainderIndex DEF SlotOf

LEMMA CountRange ==
  ASSUME TypeOK
  PROVE  /\ Count \in 0 .. Cap - 1
         /\ Count = 0 <=> read = write
         /\ Count = Cap - 1 <=> read = After(write)
<1>1. write \in Slots /\ read \in Slots
  BY DEF TypeOK
<1>2. After(write) = IF write + 1 = Cap THEN 0 ELSE write + 1
  BY <1>1, AfterIndex
<1> QED
  BY <1>1, <1>2, CapType DEF Count, Slots

(* The published elements are a sequence of Values.                        *)
LEMMA ContentType ==
  ASSUME TypeOK
  PROVE  /\ Content \in Seq(Values)
         /\ Len(Content) = Count
         /\ \A k \in 1 .. Count : Content[k] = data[SlotOf(k)]
<1>1. Count \in Nat /\ Count < Cap
  BY CountRange, CapType
<1>2. ASSUME NEW k \in 1 .. Count PROVE data[SlotOf(k)] \in Values
  <2>1. k \in 1 .. Cap
    BY <1>1, CapType
  <2>2. SlotOf(k) \in Slots
    BY <2>1, SlotOfIndex DEF TypeOK
  <2> QED
    BY <2>2 DEF TypeOK
<1> QED
  BY <1>1, <1>2 DEF Content

(* Filling a slot leaves the published elements alone.                     *)
LEMMA FillKeepsContent ==
  ASSUME Inv, PushFill
  PROVE  Content' = Content
<1>1. TypeOK /\ read' = read /\ write' = write
  BY DEF Inv, PushFill, consumerVars
<1>2. Count' = Count /\ Count \in 0 .. Cap - 1
  BY <1>1, CountRange DEF Count
<1>3. ASSUME NEW k \in 1 .. Count PROVE data'[SlotOf(k)'] = data[SlotOf(k)]
  <2>1. SlotOf(k)' = SlotOf(k)
    BY <1>1 DEF SlotOf
  <2>2. SlotOf(k) \in Slots /\ SlotOf(k) # write
    <3>1. k \in 1 .. Cap
      BY <1>2, CapType
    <3>2. read \in Slots /\ write \in Slots
      BY <1>1 DEF TypeOK
    <3> QED
      BY <1>2, <3>1, <3>2, SlotOfIndex, CapType DEF Slots, Count
  <2> QED
    BY <1>1, <2>1, <2>2 DEF PushFill, TypeOK
<1> QED
  BY <1>2, <1>3 DEF Content

(* Publishing appends the element in the slot at write.                    *)
LEMMA PublishAppends ==
  ASSUME Inv, PushPublish
  PROVE  Content' = Append(Content, pval) /\ Len(Content) < Cap - 1
<1>1. /\ TypeOK /\ read' = read /\ write' = After(write) /\ data' = data
      /\ read # After(write) /\ data[write] = pval
  BY DEF Inv, HandOver, PushPublish, consumerVars
<1>2. /\ read \in Slots /\ write \in Slots /\ pval \in Values
      /\ After(write) = IF write + 1 = Cap THEN 0 ELSE write + 1
  BY <1>1, AfterIndex DEF TypeOK
<1>3. Count \in 0 .. Cap - 1 /\ Count # Cap - 1
  BY <1>1, CountRange
<1>4. Count' = Count + 1
  BY <1>1, <1>2, <1>3, CapType DEF Count, Slots
<1>5. \A k : SlotOf(k)' = SlotOf(k)
  BY <1>1 DEF SlotOf
<1>6. SlotOf(Count + 1) = write
  <2>1. Count + 1 \in 1 .. Cap
    BY <1>3, CapType
  <2> QED
    BY <1>2, <2>1, <1>3, SlotOfIndex, CapType DEF Count, Slots
<1>7. /\ Content \in Seq(Values) /\ Len(Content) = Count
      /\ \A k \in 1 .. Count : Content[k] = data[SlotOf(k)]
  BY <1>1, ContentType
<1>8. Content' = [k \in 1 .. Count + 1 |-> data[SlotOf(k)]]
  BY <1>1, <1>4, <1>5 DEF Content
<1>9. Append(Content, pval) = [k \in 1 .. Count + 1 |-> data[SlotOf(k)]]
  <2>1. Append(Content, pval)
          = [k \in 1 .. Count + 1 |-> IF k = Count + 1 THEN pval ELSE Content[k]]
    <3>1. /\ Append(Content, pval) \in Seq(Values)
          /\ Len(Append(Content, pval)) = Count + 1
          /\ \A k \in 1 .. Count : Append(Content, pval)[k] = Content[k]
          /\ Append(Content, pval)[Count + 1] = pval
      BY <1>2, <1>7, AppendProperties
    <3>2. Append(Content, pval)
            = [k \in 1 .. Count + 1 |-> Append(Content, pval)[k]]
      BY <3>1, LenProperties
    <3>3. ASSUME NEW k \in 1 .. Count + 1
          PROVE  Append(Content, pval)[k]
                   = IF k = Count + 1 THEN pval ELSE Content[k]
      BY <1>3, <3>1, CapType
    <3> QED
      BY <3>2, <3>3
  <2>2. ASSUME NEW k \in 1 .. Count + 1
        PROVE  (IF k = Count + 1 THEN pval ELSE Content[k]) = data[SlotOf(k)]
    BY <1>1, <1>3, <1>6, <1>7, CapType
  <2> QED
    BY <2>1, <2>2
<1> QED
  BY <1>3, <1>7, <1>8, <1>9, CapType

(* The oldest element is in the slot at read.                              *)
LEMMA OldestElement ==
  ASSUME TypeOK, read # write
  PROVE  Content # <<>> /\ Head(Content) = data[read]
<1>1. Count \in 0 .. Cap - 1 /\ Count # 0
  BY CountRange
<1>2. SlotOf(1) = read
  <2>1. 1 \in 1 .. Cap
    BY CapType
  <2> QED
    BY <2>1, SlotOfIndex, CapType DEF Slots, TypeOK
<1>3. /\ Content \in Seq(Values) /\ Len(Content) = Count
      /\ \A k \in 1 .. Count : Content[k] = data[SlotOf(k)]
  BY ContentType
<1>4. Content # <<>> /\ Head(Content) = data[SlotOf(1)]
  BY <1>1, <1>3, CapType
<1> QED
  BY <1>2, <1>4

(* Releasing a slot removes the oldest element.                            *)
LEMMA ReleaseRemoves ==
  ASSUME Inv, PopRelease
  PROVE  /\ Content # <<>>
         /\ Content' = Tail(Content)
         /\ popped = Head(Content)
<1>1. /\ TypeOK /\ write' = write /\ read' = After(read) /\ data' = data
      /\ read # write /\ popped = data[read]
  BY DEF Inv, HandOver, PopRelease, producerVars
<1>2. /\ read \in Slots /\ write \in Slots
      /\ After(read) = IF read + 1 = Cap THEN 0 ELSE read + 1
      /\ After(read) \in Slots
  BY <1>1, AfterIndex DEF TypeOK
<1>3. Count \in 0 .. Cap - 1 /\ Count # 0
  BY <1>1, CountRange
<1>4. Count' = Count - 1
  BY <1>1, <1>2, <1>3, CapType DEF Count, Slots
<1>5. /\ Content \in Seq(Values) /\ Len(Content) = Count
      /\ \A k \in 1 .. Count : Content[k] = data[SlotOf(k)]
  BY <1>1, ContentType
<1>6. Content # <<>> /\ Head(Content) = data[read]
  BY <1>1, OldestElement
<1>7. ASSUME NEW k \in 1 .. Count - 1 PROVE SlotOf(k)' = SlotOf(k + 1)
  <2>1. /\ SlotOf(k) = (read + k - 1) % Cap
        /\ SlotOf(k)' = (read' + k - 1) % Cap
        /\ SlotOf(k + 1) = (read + (k + 1) - 1) % Cap
    BY DEF SlotOf
  <2>2. k + 1 \in 1 .. Cap /\ k \in 1 .. Cap /\ k \in Nat
    BY <1>3, CapType
  <2>3. SlotOf(k + 1) = (IF read + (k + 1) - 1 < Cap THEN read + (k + 1) - 1
                                            ELSE read + (k + 1) - 1 - Cap)
    BY <1>2, <2>2, SlotOfIndex
  <2>4. (read' + k - 1) % Cap = (IF read' + k - 1 < Cap THEN read' + k - 1
                                            ELSE read' + k - 1 - Cap)
    <3>1. read' \in Slots
      BY <1>1, <1>2
    <3> QED
      BY <2>2, <3>1, RemainderIndex
  <2> QED
    BY <1>1, <1>2, <1>3, <2>1, <2>2, <2>3, <2>4, CapType DEF Slots
<1>8. Content' = [k \in 1 .. Count - 1 |-> data[SlotOf(k + 1)]]
  BY <1>1, <1>4, <1>7 DEF Content
<1>9. Tail(Content) = [k \in 1 .. Count - 1 |-> Content[k + 1]]
  <2>1. Content # <<>>
    BY <1>6
  <2>2. /\ Tail(Content) \in Seq(Values)
        /\ Len(Tail(Content)) = Count - 1
        /\ \A k \in 1 .. Count - 1 : Tail(Content)[k] = Content[k + 1]
    BY <1>5, <2>1, HeadTailProperties
  <2>3. Tail(Content) = [k \in 1 .. Count - 1 |-> Tail(Content)[k]]
    BY <2>2, LenProperties
  <2> QED
    BY <2>2, <2>3
<1>10. ASSUME NEW k \in 1 .. Count - 1 PROVE Content[k + 1] = data[SlotOf(k + 1)]
  BY <1>3, <1>5, CapType
<1> QED
  BY <1>1, <1>6, <1>8, <1>9, <1>10

(* Every behaviour of the ring is a behaviour of the queue, whatever the   *)
(* element type and the capacity.                                          *)
THEOREM Refinement == Spec => ImplementsFifo
<1>1. Init => Fifo!Init
  <2> SUFFICES ASSUME Init PROVE Fifo!Init
    OBVIOUS
  <2>1. Count = 0
    BY CapType DEF Init, Count
  <2>2. Content = <<>>
    BY <2>1 DEF Content
  <2> QED
    BY <2>2 DEF Init, Fifo!Init
<1>2. Inv /\ [Next]_vars => [Fifo!Next]_Fifo!vars
  <2> SUFFICES ASSUME Inv, [Next]_vars PROVE [Fifo!Next]_Fifo!vars
    OBVIOUS
  <2>0. TypeOK /\ HandOver
    BY DEF Inv
  <2>a. ASSUME data' = data, read' = read, write' = write
        PROVE  Content' = Content
    BY <2>a DEF Content, Count, SlotOf
  <2> USE DEF Fifo!vars
  <2>1. ASSUME NEW v \in Values, PushCall(v) PROVE UNCHANGED Fifo!vars
    BY <2>1, <2>a DEF PushCall, consumerVars
  <2>2. CASE PushFull
    <3>1. Len(Content) = Cap - 1
      BY <2>0, <2>2, CountRange, ContentType DEF PushFull
    <3>2. Fifo!PushFull
      BY <2>2, <2>a, <3>1 DEF PushFull, consumerVars, Fifo!PushFull
    <3> QED
      BY <3>2 DEF Fifo!Next
  <2>3. CASE PushRoom
    BY <2>3, <2>a DEF PushRoom, consumerVars
  <2>4. CASE PushFill
    BY <2>4, FillKeepsContent DEF PushFill, consumerVars
  <2>5. CASE PushPublish
    <3>1. Fifo!Push(pval)
      BY <2>5, PublishAppends DEF PushPublish, consumerVars, Fifo!Push
    <3> QED
      BY <2>0, <3>1 DEF Fifo!Next, TypeOK
  <2>6. CASE PopEmpty
    <3>1. Content = <<>>
      BY <2>0, <2>6, CountRange, ContentType DEF PopEmpty
    <3>2. Fifo!PopEmpty
      BY <2>6, <2>a, <3>1 DEF PopEmpty, producerVars, Fifo!PopEmpty
    <3> QED
      BY <3>2 DEF Fifo!Next
  <2>7. CASE PopSome
    BY <2>7, <2>a DEF PopSome, producerVars
  <2>8. CASE PopTake
    <3>1. Content # <<>> /\ Head(Content) = data[read]
      BY <2>0, <2>8, OldestElement DEF HandOver, PopTake
    <3>2. Fifo!Fetch
      BY <2>8, <2>a, <3>1 DEF PopTake, producerVars, Fifo!Fetch
    <3> QED
      BY <3>2 DEF Fifo!Next
  <2>9. CASE PopRelease
    <3>1. Fifo!Pop
      BY <2>9, ReleaseRemoves DEF PopRelease, producerVars, Fifo!Pop
    <3> QED
      BY <3>1 DEF Fifo!Next
  <2>10. CASE UNCHANGED vars
    BY <2>10, <2>a DEF vars, producerVars, consumerVars
  <2> QED
    BY <2>1, <2>2, <2>3, <2>4, <2>5, <2>6, <2>7, <2>8, <2>9, <2>10
    DEF Next, Producer, Consumer
<1> QED
  BY <1>1, <1>2, TypeCorrect, HandOverCorrect, PTL
  DEF Spec, Inv, ImplementsFifo, Fifo!Spec
=============================================================================
