------------------------------ MODULE Span_proofs ------------------------------
(***************************************************************************)
(* Proofs about Span, for every chunk size, every set of blocks and every  *)
(* length.  The inductive invariant adds to the properties how far a       *)
(* growth has got, that the chunks made are allocated, and that the chunk  *)
(* of every index handed out exists.                                       *)
(***************************************************************************)
EXTENDS Span, TLAPS

Progress ==
  /\ root = NULL => cap = 0
  /\ pc = "realloc" => cap <= Chunk(want)
  /\ pc = "malloc" => cap <= c /\ c <= NewCap /\ moved \in Blocks
  /\ pc # "destroyed" => \A k \in Made : chunks[k] \in live

HeldHaveChunks == \A i \in DOMAIN held : Chunk(i) < cap

IInv == /\ TypeOK /\ Progress /\ EndInside
        /\ pc # "destroyed" => Apart /\ HeldHaveChunks
        /\ HeldStay
        /\ NoLeak

-----------------------------------------------------------------------------
(* Division by the chunk size gives chunk numbers that grow with indices. *)
LEMMA ChunkType == ASSUME NEW i \in Nat PROVE Chunk(i) \in Nat
BY SpanAssumption DEF Chunk

LEMMA ChunkMonotone ==
  ASSUME NEW i \in Nat, NEW j \in Nat, i <= j
  PROVE  Chunk(i) <= Chunk(j)
<1>1. PICK q \in Nat, r \in Nat : i = ChunkSize * q + r /\ r < ChunkSize /\ q = Chunk(i)
  BY SpanAssumption DEF Chunk
<1>2. PICK p \in Nat, s \in Nat : j = ChunkSize * p + s /\ s < ChunkSize /\ p = Chunk(j)
  BY SpanAssumption DEF Chunk
<1>3. SUFFICES ASSUME p < q PROVE FALSE
  BY <1>1, <1>2
<1>4. ChunkSize * (p + 1) <= ChunkSize * q
  BY <1>3, SpanAssumption
<1>5. ChunkSize * (p + 1) = ChunkSize * p + ChunkSize
  BY SpanAssumption
<1>6. ChunkSize * p \in Nat /\ ChunkSize * q \in Nat
  BY SpanAssumption
<1>7. QED BY <1>1, <1>2, <1>4, <1>5, <1>6, SpanAssumption

(* No length that is asked for needs a chunk the root array cannot have. *)
LEMMA ChunkInside == ASSUME NEW i \in 0 .. MaxLen PROVE Chunk(i) \in 0 .. Chunk(MaxLen)
BY ChunkType, ChunkMonotone, SpanAssumption

LEMMA HeldChunkType ==
  ASSUME TypeOK, NEW i \in DOMAIN held PROVE Chunk(i) \in Nat
<1>1. i \in Nat
  BY SpanAssumption DEF TypeOK
<1>2. QED BY <1>1, ChunkType

LEMMA InitIInv == Init => IInv
<1> SUFFICES ASSUME Init PROVE IInv
  OBVIOUS
<1>1. Chunk(MaxLen) \in Nat
  BY ChunkType, SpanAssumption
<1>2. TypeOK
  BY <1>1, SpanAssumption DEF Init, TypeOK, Entries
<1>3. Progress /\ EndInside /\ Apart /\ HeldHaveChunks /\ HeldStay /\ NoLeak
  BY DEF Init, Progress, EndInside, Apart, HeldHaveChunks, HeldStay, NoLeak, Root, Made
<1>4. QED BY <1>2, <1>3 DEF IInv

-----------------------------------------------------------------------------
(* One lemma per action. *)
LEMMA ResizeStep ==
  ASSUME IInv, NEW n \in 0 .. MaxLen, Resize(n) \/ ResizeGrow(n)
  PROVE  IInv'
<1> USE DEF IInv, TypeOK, Progress, EndInside, Apart, HeldHaveChunks, HeldStay,
            NoLeak, Root, Made, Address
<1>1. Chunk(n) \in 0 .. Chunk(MaxLen)
  BY ChunkInside
<1>2. CASE Resize(n)
  BY <1>1, <1>2 DEF Resize, resizeVars
<1>3. CASE ResizeGrow(n)
  BY <1>1, <1>3 DEF ResizeGrow
<1>4. QED BY <1>2, <1>3

LEMMA ReallocStep == ASSUME IInv, Realloc PROVE IInv'
<1> USE DEF IInv, Realloc, Moves
<1>1. /\ NewCap \in 1 .. Chunk(MaxLen) + 1 /\ NewCap' = NewCap /\ cap < NewCap
      /\ Chunk(MaxLen) \in Nat
  BY ChunkInside, ChunkType, SpanAssumption DEF TypeOK, NewCap, Progress
<1>2. moved' \in Blocks /\ Root' = moved' /\ Root = root /\ Made' = Made /\ Made = 0 .. cap - 1
  BY DEF TypeOK, Root, Made
<1>3. \A k \in Made : k \in Entries /\ chunks'[k] = chunks[k]
  BY <1>1, <1>2 DEF TypeOK, Entries
<1>4. \A k \in Made : chunks[k] \in live /\ chunks[k] # moved' /\ chunks[k] # root
  BY <1>2 DEF Progress, Apart
<1>5. TypeOK'
  BY <1>1, <1>2, <1>3 DEF TypeOK
<1>6. Progress'
  BY <1>1, <1>2, <1>3, <1>4 DEF Progress, TypeOK
<1>7. EndInside' /\ HeldHaveChunks'
  BY DEF EndInside, HeldHaveChunks
<1>8. Apart'
  BY <1>2, <1>3, <1>4 DEF Apart
<1>9. HeldStay'
  <2> SUFFICES ASSUME NEW i \in DOMAIN held
               PROVE  held[i] = Address(i)' /\ held[i][1] \in live'
    BY DEF HeldStay
  <2>1. Chunk(i) \in Made
    BY <1>2, HeldChunkType, pc # "destroyed" DEF HeldHaveChunks, TypeOK
  <2>2. Address(i)' = Address(i)
    BY <1>3, <2>1 DEF Address
  <2>3. held[i][1] = chunks[Chunk(i)]
    BY DEF HeldStay, Address
  <2>4. QED BY <1>4, <2>1, <2>2, <2>3 DEF HeldStay
<1>10. NoLeak'
  BY <1>2, <1>3, <1>4, SpanAssumption DEF NoLeak, TypeOK
<1>11. QED BY <1>5, <1>6, <1>7, <1>8, <1>9, <1>10

LEMMA MallocStep == ASSUME IInv, Malloc PROVE IInv'
<1> USE DEF IInv
<1>1. /\ NewCap \in 1 .. Chunk(MaxLen) + 1 /\ NewCap' = NewCap
      /\ Chunk(MaxLen) \in Nat
      /\ c \in Entries /\ cap <= c /\ c' = c + 1 /\ c < NewCap
  <2>1. Chunk(want) \in 0 .. Chunk(MaxLen) /\ Chunk(MaxLen) \in Nat
    BY ChunkInside, ChunkType, SpanAssumption DEF TypeOK
  <2>2. NewCap \in 1 .. Chunk(MaxLen) + 1 /\ NewCap' = NewCap
    BY <2>1 DEF NewCap, Malloc
  <2>3. c \in 0 .. Chunk(MaxLen) + 1 /\ c < NewCap /\ c' = c + 1 /\ cap <= c
    BY DEF TypeOK, Malloc, Progress
  <2>4. QED BY <2>1, <2>2, <2>3 DEF Entries
<1>2. PICK b \in Blocks \ live : /\ chunks' = [chunks EXCEPT ![c] = b]
                                 /\ live' = live \union {b}
  BY DEF Malloc
<1>3. Root = moved /\ Root' = moved /\ Made = 0 .. c - 1 /\ Made' = 0 .. c /\ moved \in live
  <2>1. pc = "malloc" /\ pc' = "malloc" /\ moved' = moved /\ moved \in Blocks
    BY DEF Malloc, Progress
  <2>2. Made = 0 .. c - 1 /\ Made' = 0 .. c
    BY <1>1, <2>1 DEF Made, Entries
  <2>3. moved \in live
    BY <2>1, SpanAssumption DEF NoLeak, Root
  <2>4. QED BY <2>1, <2>2, <2>3 DEF Root
<1>4. /\ \A k \in Made : chunks'[k] = chunks[k] /\ chunks[k] \in live
      /\ chunks'[c] = b
      /\ Made' = Made \union {c} /\ c \notin Made
  <2>1. \A k \in Made : chunks[k] \in live
    BY DEF Malloc, Progress
  <2>2. /\ Made' = Made \union {c} /\ c \notin Made
        /\ \A k \in Made : k \in Entries /\ k # c
    BY <1>1, <1>3 DEF Entries
  <2>3. QED BY <1>1, <1>2, <2>1, <2>2 DEF TypeOK
<1>5. TypeOK'
  BY <1>1, <1>2 DEF TypeOK, Malloc
<1>6. Progress'
  BY <1>1, <1>2, <1>3, <1>4 DEF Progress, Malloc, TypeOK
<1>7. EndInside' /\ HeldHaveChunks'
  BY DEF EndInside, HeldHaveChunks, Malloc
<1>8. Apart'
  BY <1>2, <1>3, <1>4 DEF Apart, Malloc
<1>9. HeldStay'
  <2> SUFFICES ASSUME NEW i \in DOMAIN held
               PROVE  held[i] = Address(i)' /\ held[i][1] \in live'
    BY DEF HeldStay, Malloc
  <2>1. Chunk(i) \in Made
    BY <1>1, <1>3, HeldChunkType, pc # "destroyed" DEF HeldHaveChunks, TypeOK, Malloc
  <2>2. Address(i)' = Address(i)
    BY <1>4, <2>1 DEF Address
  <2>3. QED BY <1>2, <2>2 DEF HeldStay, Malloc
<1>10. NoLeak'
  BY <1>2, <1>3, <1>4, SpanAssumption DEF NoLeak, Malloc
<1>11. QED BY <1>5, <1>6, <1>7, <1>8, <1>9, <1>10

LEMMA GrowthEndStep ==
  ASSUME IInv, ReallocFail \/ MallocFail \/ ResizeEnd PROVE IInv'
<1> USE DEF IInv
<1>1. Chunk(want) \in 0 .. Chunk(MaxLen) /\ Chunk(MaxLen) \in Nat
  BY ChunkInside, ChunkType, SpanAssumption DEF TypeOK
<1>2. /\ UNCHANGED <<chunks, live, held, want, moved, c>>
      /\ pc' = "idle" /\ pc # "destroyed" /\ Root' = Root /\ Made' = Made
  BY DEF ReallocFail, MallocFail, ResizeEnd, Root, Made
<1>3. cap' \in 0 .. Chunk(MaxLen) + 1 /\ cap <= cap' /\ root' \in Blocks \union {NULL}
  BY <1>1 DEF ReallocFail, MallocFail, ResizeEnd, TypeOK, Progress, NewCap
<1>4. len' \in 0 .. MaxLen /\ EndInside'
  <2>1. len' \in 0 .. MaxLen
    BY DEF ReallocFail, MallocFail, ResizeEnd, TypeOK
  <2>2. CASE ResizeEnd
    BY <1>1, <2>2 DEF ResizeEnd, EndInside, NewCap, TypeOK
  <2>3. CASE ReallocFail \/ MallocFail
    <3>1. len' = len /\ len \in Nat
      BY <2>3, SpanAssumption DEF ReallocFail, MallocFail, TypeOK
    <3>2. Chunk(len) \in Nat /\ Chunk(len') = Chunk(len)
      BY <3>1, ChunkType
    <3>4. cap = 0 => len = 0
      BY DEF EndInside
    <3>5. cap = 0 \/ Chunk(len) < cap
      BY DEF EndInside
    <3>6. CASE cap' = 0
      BY <1>3, <3>1, <3>4, <3>6 DEF EndInside, TypeOK
    <3>7. CASE cap' # 0 /\ cap # 0
      BY <1>1, <1>3, <2>1, <3>2, <3>5, <3>7 DEF EndInside, TypeOK
    <3>8. CASE cap' # 0 /\ cap = 0
      <4>1. Chunk(0) = 0
        BY SpanAssumption DEF Chunk
      <4>2. QED BY <1>3, <3>1, <3>4, <3>8, <4>1 DEF EndInside, TypeOK
    <3>9. QED BY <3>6, <3>7, <3>8
  <2>4. QED BY <2>1, <2>2, <2>3
<1>5. TypeOK'
  BY <1>2, <1>3, <1>4 DEF TypeOK
<1>6. Progress'
  BY <1>2, SpanAssumption DEF ReallocFail, MallocFail, ResizeEnd, Progress
<1>7. HeldHaveChunks'
  BY <1>2, <1>3, HeldChunkType DEF HeldHaveChunks, TypeOK
<1>8. Apart' /\ HeldStay' /\ NoLeak'
  <2>1. \A i : Address(i)' = Address(i)
    BY <1>2 DEF Address
  <2>2. pc \in {"idle", "realloc", "malloc"}
    BY DEF ReallocFail, MallocFail, ResizeEnd
  <2>3. Apart'
    BY <1>2 DEF Apart
  <2>4. HeldStay'
    BY <1>2, <2>1 DEF HeldStay
  <2>5. NoLeak'
    BY <1>2, <2>2 DEF NoLeak
  <2>6. QED BY <2>3, <2>4, <2>5
<1>9. QED BY <1>4, <1>5, <1>6, <1>7, <1>8

LEMMA GetStep == ASSUME IInv, NEW w \in 1 .. MaxLen, GetWorker(w) PROVE IInv'
<1> USE DEF IInv, GetWorker, resizeVars
<1>1. w - 1 \in 0 .. MaxLen - 1 /\ w - 1 < len /\ len \in 0 .. MaxLen
  BY SpanAssumption DEF TypeOK
<1>2. Chunk(w - 1) \in Nat /\ Chunk(len) \in Nat /\ Chunk(w - 1) <= Chunk(len)
  BY <1>1, ChunkType, ChunkMonotone
<1>3. Chunk(w - 1) < cap /\ Chunk(w - 1) \in Made
  BY <1>1, <1>2 DEF EndInside, TypeOK, Made
<1>4. \A i : Address(i)' = Address(i)
  BY DEF Address
<1>5. Address(w - 1)[1] \in live
  BY <1>3 DEF Address, Progress
<1>6. DOMAIN held' = DOMAIN held \union {w - 1}
  OBVIOUS
<1>7. TypeOK'
  BY <1>1, <1>6 DEF TypeOK
<1>8. Progress' /\ EndInside' /\ Apart' /\ NoLeak'
  BY DEF Progress, EndInside, Apart, NoLeak, Root, Made, NewCap
<1>9. HeldHaveChunks'
  BY <1>3, <1>6 DEF HeldHaveChunks
<1>10. HeldStay'
  BY <1>4, <1>5, <1>6 DEF HeldStay
<1>11. QED BY <1>7, <1>8, <1>9, <1>10

LEMMA DestroyStep == ASSUME IInv, Destroy PROVE IInv'
<1> USE DEF IInv, TypeOK, Progress, EndInside, Apart, HeldHaveChunks, HeldStay,
            NoLeak, Root, Made, Address, Destroy
<1>1. CASE root = NULL
  BY <1>1, SpanAssumption
<1>2. CASE root # NULL
  BY <1>2, SpanAssumption
<1>3. QED BY <1>1, <1>2

LEMMA NextIInv == IInv /\ [Next]_vars => IInv'
<1> SUFFICES ASSUME IInv, [Next]_vars PROVE IInv'
  OBVIOUS
<1>1. CASE UNCHANGED vars
  BY <1>1 DEF IInv, TypeOK, Progress, EndInside, Apart, HeldHaveChunks, HeldStay,
              NoLeak, Root, Made, Address, NewCap, vars, resizeVars
<1>2. QED
  BY <1>1, ResizeStep, ReallocStep, MallocStep, GrowthEndStep, GetStep, DestroyStep
  DEF Next

LEMMA Invariance == Spec => []IInv
BY InitIInv, NextIInv, PTL DEF Spec

-----------------------------------------------------------------------------
(* Every variable of the span keeps its type: the counters of a growth     *)
(* stay inside the root array.                                             *)
THEOREM TypeCorrect == Spec => []TypeOK
<1>1. IInv => TypeOK
  BY DEF IInv
<1>2. QED BY <1>1, Invariance, PTL

(* The addresses of the workers stay right through every growth and every  *)
(* failure to grow.                                                        *)
THEOREM AddressesStay == Spec => []HeldStay
<1>1. IInv => HeldStay
  BY DEF IInv
<1>2. QED BY <1>1, Invariance, PTL

(* The chunks and the root array never overlap. *)
THEOREM ChunksApart == Spec => []Apart
<1>1. IInv => Apart
  BY DEF IInv, Apart
<1>2. QED BY <1>1, Invariance, PTL

(* No allocation is lost, and destruction frees every one. *)
THEOREM NothingLeaks == Spec => []NoLeak
<1>1. IInv => NoLeak
  BY DEF IInv
<1>2. QED BY <1>1, Invariance, PTL

(* The index one past the end, which span_get accepts, is in a chunk. *)
THEOREM EndIsInside == Spec => []EndInside
<1>1. IInv => EndInside
  BY DEF IInv
<1>2. QED BY <1>1, Invariance, PTL
=============================================================================
