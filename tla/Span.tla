--------------------------------- MODULE Span ---------------------------------
(***************************************************************************)
(* span/span.h: the memory of the workers, an array that grows without     *)
(* moving its elements.  The elements are in chunks of ChunkSize; the root *)
(* array points to the chunks, and only the root array is reallocated.     *)
(*                                                                         *)
(* The threads of the workers keep pointers to their elements for as long  *)
(* as they live (_get_worker hands them out), while the dispatcher makes   *)
(* the array longer.  Memory is a set of blocks; an allocation can fail at *)
(* any time.                                                               *)
(***************************************************************************)
EXTENDS Integers

CONSTANTS
  ChunkSize,  \* chunk_size: conf.depth, never 0
  Blocks,     \* what malloc and realloc can return
  NULL,       \* no block: a null pointer, or memory not written yet
  MaxLen      \* bound: the longest array asked for

ASSUME SpanAssumption ==
  /\ ChunkSize \in Nat \ {0}
  /\ MaxLen \in Nat
  /\ NULL \notin Blocks

VARIABLES
  root,    \* common.chunks, the root array as the span knows it
  cap,     \* common.cap
  len,     \* common.len
  chunks,  \* the pointers the root array holds
  live,    \* the blocks that are allocated
  pc,      \* "idle" between calls, else where span_resize is
  want,    \* its argument len
  moved,   \* new_chunks
  c,       \* its loop counter
  held     \* the addresses _get_worker has returned, by index

resizeVars == <<pc, want, moved, c>>
vars == <<root, cap, len, chunks, live, resizeVars, held>>

Chunk(i) == i \div ChunkSize

(* The address of element i: its chunk and the offset in it. *)
Address(i) == <<chunks[Chunk(i)], i % ChunkSize>>

(* A root array with room for a chunk that no index is in. *)
NewCapSpare == Chunk(want) + 2

NewCap == Chunk(want) + 1

(* The entries a root array can have; those not written are NULL. *)
Entries == 0 .. Chunk(MaxLen)

Init ==
  /\ root = NULL
  /\ cap = 0
  /\ len = 0
  /\ chunks = [k \in Entries |-> NULL]
  /\ live = {}
  /\ pc = "idle" /\ want = 0 /\ moved = NULL /\ c = 0
  /\ held = [i \in {} |-> <<NULL, 0>>]

(***************************************************************************)
(* span_resize.                                                            *)
(***************************************************************************)
(* A test for room that is off by one. *)
ResizeLate(n) ==
  /\ pc = "idle"
  /\ Chunk(n) <= cap /\ cap > 0
  /\ len' = n
  /\ UNCHANGED <<root, cap, chunks, live, resizeVars, held>>

(* The chunks there are suffice. *)
Resize(n) ==
  /\ pc = "idle"
  /\ Chunk(n) < cap
  /\ len' = n
  /\ UNCHANGED <<root, cap, chunks, live, resizeVars, held>>

ResizeGrow(n) ==
  /\ pc = "idle"
  /\ Chunk(n) >= cap
  /\ pc' = "realloc"
  /\ want' = n
  /\ UNCHANGED <<root, cap, len, chunks, live, moved, c, held>>

Moves(from) ==
  /\ pc = "realloc"
  /\ pc' = "malloc"
  /\ moved' \in (Blocks \ live) \union ({root} \ {NULL})
  /\ live' = (live \ {root}) \union {moved'}
  /\ chunks' = [k \in Entries |-> IF k < cap THEN chunks[k] ELSE NULL]
  /\ c' = from
  /\ UNCHANGED <<root, cap, len, want, held>>

(* A loop that allocates every chunk, the old ones too. *)
ReallocAll == Moves(0)

(* The root array stays where it is or moves; its contents are copied. *)
Realloc == Moves(cap)

ReallocFail ==
  /\ pc = "realloc"
  /\ pc' = "idle"
  /\ UNCHANGED <<root, cap, len, chunks, live, want, moved, c, held>>

Malloc ==
  /\ pc = "malloc"
  /\ c < NewCap
  /\ \E b \in Blocks \ live :
       /\ chunks' = [chunks EXCEPT ![c] = b]
       /\ live' = live \union {b}
  /\ c' = c + 1
  /\ UNCHANGED <<root, cap, len, pc, want, moved, held>>

(* A failure that does not count the chunks it got. *)
MallocFailUncounted ==
  /\ pc = "malloc"
  /\ c < NewCap
  /\ root' = moved
  /\ pc' = "idle"
  /\ UNCHANGED <<cap, len, chunks, live, want, moved, c, held>>

(* A failure that leaves the span with the root array it had. *)
MallocFailStale ==
  /\ pc = "malloc"
  /\ c < NewCap
  /\ cap' = c
  /\ pc' = "idle"
  /\ UNCHANGED <<root, len, chunks, live, want, moved, c, held>>

(* The chunks allocated so far are kept; the length does not change. *)
MallocFail ==
  /\ pc = "malloc"
  /\ c < NewCap
  /\ root' = moved
  /\ cap' = c
  /\ pc' = "idle"
  /\ UNCHANGED <<len, chunks, live, want, moved, c, held>>

ResizeEnd ==
  /\ pc = "malloc"
  /\ c = NewCap
  /\ root' = moved
  /\ cap' = NewCap
  /\ len' = want
  /\ pc' = "idle"
  /\ UNCHANGED <<chunks, live, want, moved, c, held>>

(***************************************************************************)
(* span_get as _get_worker calls it: index w - 1 of worker w, w <= len.    *)
(***************************************************************************)
GetWorker(w) ==
  /\ pc = "idle"
  /\ w \in 1 .. len
  /\ held' = [i \in DOMAIN held \union {w - 1} |->
                IF i = w - 1 THEN Address(i) ELSE held[i]]
  /\ UNCHANGED <<root, cap, len, chunks, live, resizeVars>>

(* span_destroy frees the chunks and the root array. *)
Destroy ==
  /\ pc = "idle"
  /\ pc' = "destroyed"
  /\ live' = IF root = NULL THEN live
                            ELSE live \ ({root} \union {chunks[k] : k \in 0 .. cap - 1})
  /\ UNCHANGED <<root, cap, len, chunks, want, moved, c, held>>

Next == \/ \E n \in 0 .. MaxLen : Resize(n) \/ ResizeGrow(n)
        \/ Realloc \/ ReallocFail \/ Malloc \/ MallocFail \/ ResizeEnd
        \/ \E w \in 1 .. MaxLen : GetWorker(w)
        \/ Destroy

Spec == Init /\ [][Next]_vars

-----------------------------------------------------------------------------
TypeOK ==
  /\ root \in Blocks \union {NULL}
  /\ cap \in 0 .. Chunk(MaxLen) + 1
  /\ len \in 0 .. MaxLen
  /\ chunks \in [Entries -> Blocks \union {NULL}]
  /\ live \subseteq Blocks
  /\ pc \in {"idle", "realloc", "malloc", "destroyed"}
  /\ want \in 0 .. MaxLen
  /\ moved \in Blocks \union {NULL}
  /\ c \in 0 .. Chunk(MaxLen) + 1
  /\ DOMAIN held \subseteq 0 .. MaxLen - 1

(* The pointers that were handed out stay right through every growth, also *)
(* a growth that fails half-way: each is still the address of its element, *)
(* in memory that has not been freed.                                      *)
HeldStay ==
  pc # "destroyed" => \A i \in DOMAIN held : /\ held[i] = Address(i)
                                             /\ held[i][1] \in live

(* The root array and the chunks counted so far, also in the middle of a growth. *)
Root == IF pc = "malloc" THEN moved ELSE root
Made == 0 .. (IF pc = "malloc" THEN c ELSE cap) - 1

(* No two chunks share memory, nor does the root array with one of them:   *)
(* no two workers overlap.                                                 *)
Apart ==
  pc # "destroyed" => /\ \A k \in Made : chunks[k] # Root
                      /\ \A j, k \in Made : chunks[j] = chunks[k] => j = k

(* What is allocated is what the span can reach, after failures too, and   *)
(* destruction frees all of it.                                            *)
NoLeak ==
  /\ pc \in {"idle", "realloc", "malloc"} =>
       live = ({Root} \ {NULL}) \union {chunks[k] : k \in Made}
  /\ pc = "destroyed" => live = {}

(* span_get tests i > len, so that it accepts i = len, one past the end.   *)
(* Once a chunk exists that element is inside a chunk as well.             *)
EndInside == IF cap = 0 THEN len = 0 ELSE Chunk(len) < cap
=============================================================================
