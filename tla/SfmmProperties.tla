-------------------------- MODULE SfmmProperties --------------------------
(***************************************************************************)
(* What is claimed of the allocator.  The code has five ways, its slips,   *)
(* to leave its heap out of order:                                         *)
(*   "head"     makeBlock takes the first of several blocks of a list      *)
(*              whole and leaves the list at the block it has allocated;   *)
(*   "dropped"  makeBlock splits a block and forgets the other blocks of   *)
(*              its list, or of the list the rest goes to;                 *)
(*   "links"    the rest of a split block, or a new page, keeps what lies  *)
(*              where its links are;                                       *)
(*   "footer"   initPage writes the footer of a page behind an allocated   *)
(*              block over the last row of the first page;                 *)
(*   "kept"     sf_realloc to 0 finds no free block and frees nothing.     *)
(* Each invariant says what holds as long as only the slips it names have  *)
(* happened: nothing else the code does can break it.                      *)
(***************************************************************************)
EXTENDS Sfmm

Slips == {"head", "dropped", "links", "footer", "kept"}
Only(slips) == heap.slips \subseteq slips

Onto(b) == IF SizeAt(heap, b) >= MinBlock THEN b + SizeAt(heap, b) ELSE b

\* The blocks, found by walking from header to header.
Blocks ==
    LET walk[n \in 0..MaxBlocks] ==
            IF n = 0 THEN [at |-> 0, seen |-> {}]
            ELSE LET w == walk[n - 1]
                 IN  IF w.at < End(heap) THEN [at |-> Onto(w.at), seen |-> w.seen \cup {w.at}]
                     ELSE w
    IN  walk[MaxBlocks].seen

FreeAmong(blocks) == {b \in blocks : ~TagAt(heap, b).allocated}

\* The rows list l goes through.
Listed(l) ==
    LET walk[n \in 0..MaxBlocks] ==
            IF n = 0 THEN [at |-> heap.head[l], seen |-> {}]
            ELSE LET w == walk[n - 1]
                 IN  IF w.at >= 0 THEN [at |-> NextOf(heap, w.at), seen |-> w.seen \cup {w.at}]
                     ELSE w
    IN  walk[MaxBlocks].seen

Aligned(a) == a % 2 = 0

\* The types of the variables; what sf_malloc and sf_realloc return is aligned
\* to 16 bytes.
TypeOK ==
    /\ DOMAIN heap.mem = Rows
    /\ heap.head \in [Lists -> {a \in Rows : Aligned(a)} \cup {Null, Wild}]
    /\ heap.pages \in 0..MaxPages
    /\ heap.fault \in BOOLEAN
    /\ heap.slips \subseteq Slips
    /\ DOMAIN held \subseteq {a \in Rows : Aligned(a)}
    /\ \A p \in DOMAIN held : 0 <= held[p].written /\ held[p].written <= held[p].requested
    /\ clash \in BOOLEAN /\ writes \in Writes

\* The blocks fill the heap, whatever was split, merged, moved or grown, and the
\* footer of each says what its header says; of padded, which a new page and the rest
\* of a split block do not set, that is said of allocated blocks.
BlocksTile ==
    Only({"dropped"}) =>
        \A b \in Blocks :
            LET header == TagAt(heap, b)
                footer == TagAt(heap, Foot(heap, b))
            IN  /\ IsTag(heap, b) /\ IsTag(heap, Foot(heap, b))
                /\ header.size >= MinBlock /\ Aligned(header.size)
                /\ b + header.size <= End(heap)
                /\ header.size = footer.size
                /\ header.allocated = footer.allocated
                /\ header.allocated => header.padded = footer.padded

\* What a list goes through are free blocks of its sizes, linked both ways.
ListsHoldFreeBlocks ==
    Only({"dropped"}) =>
        LET free == FreeAmong(Blocks)
        IN  \A l \in Lists :
                LET listed == Listed(l)
                IN  \A b \in listed :
                        /\ b \in free /\ ListOf(SizeAt(heap, b)) = l
                        /\ IF heap.head[l] = b THEN PrevOf(heap, b) = Null
                           ELSE PrevOf(heap, b) \in listed /\ NextOf(heap, PrevOf(heap, b)) = b

\* A free block is in a list: it is not lost to sf_malloc.
FreeBlocksListed ==
    Only({}) => FreeAmong(Blocks) = UNION {Listed(l) : l \in Lists}

\* The lists are the free blocks of the heap: nothing that is allocated, misread
\* or of another size is in one, and as long as nothing was dropped every free
\* block is.
ListsAreTheFreeBlocks == ListsHoldFreeBlocks /\ FreeBlocksListed

\* The client holds exactly the allocated blocks, each large enough and in a
\* state in which sf_free and sf_realloc do not abort; nothing was misread, no
\* search ran in a circle and no memory was given away twice.
HeldIsAllocated ==
    Only({"dropped"}) =>
        LET blocks == Blocks
        IN  /\ ~heap.fault /\ ~clash
            /\ DOMAIN held = blocks \ FreeAmong(blocks)
            /\ \A p \in DOMAIN held :
                  /\ Valid(heap, p)
                  /\ TagAt(heap, Foot(heap, p)).requested = held[p].requested
                  /\ held[p].requested <= SizeAt(heap, p) - Overhead

\* What the client wrote into a block stays there until the block is freed, and
\* moves with it when sf_realloc moves it.
HeldDataIntact ==
    Only({"dropped"}) =>
        \A p \in DOMAIN held : \A i \in 1..held[p].written : heap.mem[p + i] = Data(i, held[p].padded)

\* A block in the client's hands is allocated, large enough and in order, and has
\* in it what the client wrote.
HeldBlocksIntact == HeldIsAllocated /\ HeldDataIntact

-----------------------------------------------------------------------------
(* What sfmm.h says, and the code does not do. *)

\* sf_malloc returns "the pointer to a valid region of memory of the requested
\* size": one that is in nobody's hands.
NoClash == ~clash

=============================================================================
