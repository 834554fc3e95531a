------------------------------- MODULE Sfmm -------------------------------
(***************************************************************************)
(* The allocator of hw3/src/sfmm.c: sf_malloc, sf_realloc and sf_free over *)
(* four segregated free lists whose blocks, boundary tags and links lie in *)
(* one heap that grows by pages.                                           *)
(*                                                                         *)
(* Memory is an array of 8-byte rows.  A row holds what was last written   *)
(* to it: a tag (a header or a footer), a link of a free list, or data of  *)
(* the client; reading it as something else gives nothing useful, and the  *)
(* program is taken to stop there (fault).  Sizes count rows, so a size    *)
(* that is odd needs padding.  A free block's footer keeps an old          *)
(* requested_size in the code, which nothing reads, and a header keeps     *)
(* what was in its bits that have no name.                                 *)
(***************************************************************************)
EXTENDS Integers, FiniteSets

CONSTANTS
    PageSize,     \* PAGE_SZ
    MaxPages,     \* how often sf_sbrk succeeds
    ListMax,      \* LIST_1_MAX, LIST_2_MAX, LIST_3_MAX
    Sizes,        \* the sizes the client asks for
    Writes,       \* bound: how many rows the client writes of a block, at most
    Bits,         \* bound: the bit of padded in what it writes
    Clean,        \* bound: which rows of the memory may be zeros at first
    Tolerated     \* bound: the slips behind which the program is followed further

MinBlock == 4     \* 32 bytes: LIST_1_MIN
Overhead == 2     \* a header and a footer

ASSUME SfmmAssumption ==
    /\ PageSize \in Nat /\ PageSize % 2 = 0 /\ PageSize >= MinBlock
    /\ MaxPages \in Nat \ {0}
    /\ ListMax \in [0..2 -> Nat]
    /\ Sizes \subseteq Nat /\ Writes \subseteq Nat /\ Bits \subseteq BOOLEAN

Null == -1
Wild == -2        \* what a row that holds no link gives when it is read as one
Rows == 0..(PageSize * MaxPages - 1)
Lists == 0..3
MaxBlocks == (PageSize * MaxPages) \div MinBlock

(* Contents of a row.  A null link, a fresh row and an empty tag are all   *)
(* the same: zero bits.                                                    *)
Tag(allocated, padded, size, requested) ==
    [kind |-> "tag", allocated |-> allocated, padded |-> padded, size |-> size,
     requested |-> requested]
FreeTag(size) == Tag(FALSE, FALSE, size, 0)
Zero == FreeTag(0)
\* The i-th row a client wrote, in which the bit of a tag's padded is set or not.
Data(i, padded) == [kind |-> "data", index |-> i, padded |-> padded]
Link(a) == IF a = Null THEN Zero ELSE [kind |-> "link", to |-> a]

VARIABLES
    heap,   \* [mem, head, pages, fault, slips]: see Init
    held,   \* what the client holds: its payloads by the row before them, each
            \* with the size asked for, how much of it the client has written, and
            \* the bit padded of what it wrote (bound: one for all of a block)
    clash,  \* TRUE once memory the client holds was given to it again
    writes  \* how many rows of every block it gets the client writes, if it has them

vars == <<heap, held, clash, writes>>

(***************************************************************************)
(* mem is the memory, head the four lists, pages how many pages sf_sbrk    *)
(* has given; fault is TRUE once a row was misread or abort was called.    *)
(* slips is history: which of the ways there are to leave the lists and    *)
(* tags out of order has been taken (see the properties).  The memory      *)
(* comes from malloc, so what it holds at first is not known.              *)
(***************************************************************************)
Init ==
    /\ heap \in [mem : {[a \in Rows |-> IF a \in zeros THEN Zero ELSE Data(0, TRUE)] :
                            zeros \in Clean},
                 head : {[l \in Lists |-> Null]}, pages : {0}, fault : {FALSE}, slips : {{}}]
    /\ held = <<>>
    /\ clash = FALSE
    /\ writes \in Writes

-----------------------------------------------------------------------------
(* Rows.  An operator with a heap h gives what it reads there, or the heap   *)
(* it leaves.                                                                *)

End(h) == h.pages * PageSize
InHeap(h, a) == 0 <= a /\ a < End(h)
IsTag(h, a) == InHeap(h, a) /\ h.mem[a].kind = "tag"
TagAt(h, a) == IF IsTag(h, a) THEN h.mem[a] ELSE Zero
SizeAt(h, b) == TagAt(h, b).size
Foot(h, b) == b + SizeAt(h, b) - 1

\* The row a link leads to.
Follow(h, a) ==
    CASE InHeap(h, a) /\ h.mem[a] = Zero        -> Null
      [] InHeap(h, a) /\ h.mem[a].kind = "link" -> h.mem[a].to
      [] OTHER                                  -> Wild
NextOf(h, b) == Follow(h, b + 1)
PrevOf(h, b) == Follow(h, b + 2)

\* The bit padded of whatever a row holds; an address has none there.
PaddedAt(h, a) == InHeap(h, a) /\ h.mem[a].kind \in {"tag", "data"} /\ h.mem[a].padded

Require(h, ok) == IF ok THEN h ELSE [h EXCEPT !.fault = TRUE]
Note(h, slip, happens) == IF happens THEN [h EXCEPT !.slips = @ \cup {slip}] ELSE h
Write(h, a, row) ==
    IF InHeap(h, a) THEN [h EXCEPT !.mem[a] = row] ELSE Require(h, FALSE)
SetHead(h, l, b) == [h EXCEPT !.head[l] = b]

NotRounded(n) == n
\* To a multiple of 16 bytes.
RoundUp(n) == n + (n % 2)

\* A tag as it is when all of it but padded is set.
Unset(h, a, tag) == [tag EXCEPT !.padded = PaddedAt(h, a)]

WriteHeader(h, b, header, footer) == Write(h, b, header)
\* A block's header and footer.
WriteTags(h, b, header, footer) == Write(Write(h, b, header), b + header.size - 1, footer)

-----------------------------------------------------------------------------
(* The lists *)

\* findProperList
ListOf(size) ==
    LET fits == {l \in 0..2 : MinBlock <= size /\ size <= ListMax[l]}
    IN  IF fits = {} THEN 3 ELSE CHOOSE l \in fits : \A j \in fits : l <= j

Fits(h, b, size) == IsTag(h, b) /\ SizeAt(h, b) >= size
Onward(h, b, size) == IF ~IsTag(h, b) \/ Fits(h, b, size) THEN b ELSE NextOf(h, b)
\* Where the search in list l ends: at a block, Null, or Wild when the list is
\* none or runs in a circle.
SearchList(h, l, size) ==
    LET at[n \in 0..MaxBlocks] ==
            IF n = 0 THEN h.head[l] ELSE Onward(h, at[n - 1], size)
        end == at[MaxBlocks]
    IN  IF end = Null \/ Fits(h, end, size) THEN end ELSE Wild

\* findFirstFit
FirstFit(h, size) ==
    LET found == [l \in Lists |-> SearchList(h, l, size)]
        some == {l \in Lists : found[l] # Null}
    IN  IF some = {} THEN Null ELSE found[CHOOSE l \in some : \A j \in some : l <= j]

UnlinkForward(h, b) ==
    IF PrevOf(h, b) >= 0 THEN Write(h, PrevOf(h, b) + 1, Link(NextOf(h, b))) ELSE h
\* The neighbours of b are linked to each other.
Unlink(h, b) ==
    LET p == PrevOf(h, b)
        n == NextOf(h, b)
        h1 == Require(h, p # Wild /\ n # Wild)
        h2 == IF p >= 0 THEN Write(h1, p + 1, Link(n)) ELSE h1
    IN  IF n >= 0 THEN Write(h2, n + 2, Link(p)) ELSE h2

PushAlone(h, b) == Write(SetHead(h, ListOf(SizeAt(h, b)), b), b + 1, Zero)
\* b becomes the first block of the list for its size.
Push(h, b) ==
    LET l == ListOf(SizeAt(h, b))
        old == h.head[l]
        h1 == Write(Write(SetHead(h, l, b), b + 1, Link(old)), b + 2, Zero)
    IN  IF old # Null THEN Write(h1, old + 2, Link(b)) ELSE h1

\* coallesce: the block right joins left, and listed, the one of them that was
\* free, leaves its list.
Coalesce(h, left, right, listed) ==
    LET l == ListOf(SizeAt(h, listed))
        size == SizeAt(h, left) + SizeAt(h, right)
        h1 == Unlink(h, listed)
        h2 == IF h.head[l] = listed THEN SetHead(h1, l, NextOf(h, listed)) ELSE h1
    IN  Push(WriteTags(h2, left, FreeTag(size), FreeTag(size)), left)

-----------------------------------------------------------------------------
(* Growing and splitting *)

\* initPage.  A page that joins no block gets its footer at the end of the first
\* page, and its successor in the list does not learn of it.  (The header of one
\* that does is not marked free, and not read any more.)
InitPage(h) ==
    LET page == End(h)
        tag == FreeTag(PageSize)
        more == [h EXCEPT !.pages = @ + 1]
        grown == Write(more, page, Unset(more, page, tag))
        left == page - SizeAt(h, page - 1)
        l == ListOf(PageSize)
        h1 == SetHead(IF h.head[l] # Null THEN Write(grown, page + 1, Link(h.head[l]))
                      ELSE grown, l, page)
        h2 == Note(h1, "links", h.mem[page + 2] # Zero
                                \/ (h.head[l] = Null /\ h.mem[page + 1] # Zero))
        h3 == Note(h2, "footer", page # 0)
    IN  IF page > 0 /\ ~TagAt(h, page - 1).allocated
        THEN Coalesce(Require(grown, IsTag(h, page - 1) /\ IsTag(h, left)), left, page, left)
        ELSE Write(h3, PageSize - 1, Unset(h3, PageSize - 1, tag))

\* Pages are added until a block is found or there are no more.
Grow(h, size) ==
    IF FirstFit(h, size) = Null /\ h.pages < MaxPages /\ ~h.fault THEN InitPage(h) ELSE h
Provide(h, size) ==
    LET grown[n \in 0..MaxPages] == IF n = 0 THEN h ELSE Grow(grown[n - 1], size)
    IN  grown[MaxPages]

Padded(size, block) == size + Overhead # block

Allocate(h, b, size, block) ==
    LET tag == Tag(TRUE, Padded(size, block), block, size)
    IN  WriteTags(h, b, [tag EXCEPT !.requested = 0], tag)

\* More than 32 bytes are left over: they become a block of their own, the only
\* one of its list, whose links, and whose padded, are whatever lies there.
Splits(h, b, block) == SizeAt(h, b) - block > MinBlock

Split(h, b, size, block) ==
    LET rest == b + block
        tag == FreeTag(SizeAt(h, b) - block)
        l == ListOf(SizeAt(h, b))
        m == ListOf(tag.size)
        h1 == Unlink(Allocate(SetHead(h, l, Null), b, size, block), b)
        h2 == WriteTags(h1, rest, Unset(h1, rest, tag), Unset(h1, Foot(h, b), tag))
        h3 == Note(h2, "dropped", \/ h.head[l] # b \/ NextOf(h, b) # Null
                                  \/ (m # l /\ h.head[m] # Null))
        h4 == Note(h3, "links", h.mem[rest + 1] # Zero \/ h.mem[rest + 2] # Zero)
    IN  SetHead(h4, m, rest)

\* The whole block is used; the head of its list changes only when b has no
\* neighbours.
Take(h, b, size) ==
    LET l == ListOf(SizeAt(h, b))
        alone == NextOf(h, b) = Null /\ PrevOf(h, b) = Null
        h1 == IF alone THEN SetHead(h, l, Null) ELSE h
        h2 == Note(h1, "head", alone # (h.head[l] = b))
    IN  Allocate(Unlink(h2, b), b, size, SizeAt(h, b))

\* makeBlock
MakeBlock(h, b, size, block) ==
    IF Splits(h, b, block) THEN Split(h, b, size, block) ELSE Take(h, b, size)

-----------------------------------------------------------------------------
(* The library.  A result is the heap and the block that is returned. *)

Result(h, b) == [heap |-> h, block |-> IF h.fault THEN Null ELSE b]

JustPayload(size) == RoundUp(size)
BlockFor(size) == RoundUp(size + Overhead)

\* The block that fits is made the caller's.
Place(h, b, size, block) ==
    IF h.fault \/ b = Null THEN Result(h, Null)
    ELSE IF b = Wild THEN Result(Require(h, FALSE), Null)
    ELSE Result(MakeBlock(h, b, size, block), b)
FindAndPlace(h, size, block) == Place(h, FirstFit(h, block), size, block)

\* sf_malloc.  EINVAL, for more than all pages, and ENOMEM are not told apart.
Malloc(h, size) ==
    IF size = 0 \/ size >= MaxPages * PageSize THEN Result(h, Null)
    ELSE FindAndPlace(Provide(h, BlockFor(size)), size, BlockFor(size))

\* errorTesting: anything else aborts.
Valid(h, b) ==
    LET header == TagAt(h, b)
        footer == TagAt(h, Foot(h, b))
    IN  /\ IsTag(h, b) /\ IsTag(h, Foot(h, b))
        /\ header.allocated /\ footer.allocated
        /\ header.padded = footer.padded
        /\ footer.padded = Padded(footer.requested, footer.size)

\* sf_free: a block joins the free block behind it, never the one before it.
Free(h, b) ==
    LET right == Foot(h, b) + 1
        size == SizeAt(h, b)
        free == FreeTag(size)
    IN  IF ~Valid(h, b) THEN Require(h, FALSE)
        ELSE IF right < End(h) /\ ~TagAt(h, right).allocated
             THEN Coalesce(Require(h, IsTag(h, right)), b, right, right)
             ELSE Push(WriteTags(h, b, free, free), b)

CopyAllButOne(h, b, c, size) ==
    [h EXCEPT !.mem = [a \in Rows |-> IF c < a /\ a < c + size THEN h.mem[b + (a - c)]
                                      ELSE h.mem[a]]]
\* The payload of block b is copied to block c.
Copy(h, b, c, size) ==
    [h EXCEPT !.mem = [a \in Rows |-> IF c < a /\ a <= c + size THEN h.mem[b + (a - c)]
                                      ELSE h.mem[a]]]

Shrink(h, b, size) ==
    LET block == RoundUp(size) + Overhead
        rest == b + block
        restSize == SizeAt(h, b) - block
        tag == Tag(TRUE, TRUE, restSize, 0)
    IN  Free(WriteTags(Allocate(h, b, size, block), rest, tag, tag), rest)

\* The payload of b goes to the block that sf_malloc gave, which keeps its size.
Move(given, b, size) ==
    LET requested == TagAt(given.heap, Foot(given.heap, b)).requested
        c == given.block
        h1 == Allocate(Copy(given.heap, b, c, requested), c, size, SizeAt(given.heap, c))
    IN  IF c = Null THEN given ELSE Result(Free(h1, b), c)

\* Larger, smaller, or 0.
Resize(h, b, size) ==
    LET payload == RoundUp(size)
        requested == TagAt(h, Foot(h, b)).requested
        room == SizeAt(h, b) - Overhead
    IN  IF size = 0 THEN Result(Free(h, b), Null)
        ELSE IF payload >= requested /\ payload > room THEN Move(Malloc(h, size), b, size)
        ELSE IF payload >= requested \/ room - payload < MinBlock
             THEN Result(Allocate(h, b, size, SizeAt(h, b)), b)
        ELSE Result(Shrink(h, b, size), b)

\* sf_realloc.  A free block is found or a page added before it is known that
\* one is needed.
ResizeIfFit(h, fit, b, size) ==
    IF fit = Null /\ ~h.fault THEN Result(Note(h, "kept", size = 0), Null)
    ELSE IF fit = Wild \/ h.fault \/ ~Valid(h, b) THEN Result(Require(h, FALSE), Null)
    ELSE Resize(h, b, size)
FindAndResize(h, b, size) == ResizeIfFit(h, FirstFit(h, RoundUp(size)), b, size)
Realloc(h, b, size) == FindAndResize(Provide(h, RoundUp(size)), b, size)

-----------------------------------------------------------------------------
(* The client: it frees and resizes only what it holds, and stays within it. *)

Payload(p, size) == (p + 1)..(p + size)
Clashes(b, size, others) ==
    \E q \in others : Payload(b, size) \cap Payload(q, held[q].requested) # {}

\* Block b beside others.
Holding(b, requested, written, padded, others) ==
    [q \in DOMAIN others \cup {b} |->
        IF q = b THEN [requested |-> requested, written |-> written, padded |-> padded]
        ELSE others[q]]
Without(p) == [q \in DOMAIN held \ {p} |-> held[q]]

\* A call ends with r: the client gets the block besides others, or, when there
\* is none, is left with what otherwise says.
Answered(r, size, written, padded, others, otherwise) ==
    /\ heap' = r.heap
    /\ \/ r.block = Null /\ held' = otherwise /\ UNCHANGED clash
       \/ /\ r.block # Null
          /\ clash' = Clashes(r.block, size, DOMAIN others)
          /\ held' = Holding(r.block, size, written, padded, others)

CallMalloc(size) == Answered(Malloc(heap, size), size, 0, FALSE, held, held)

\* The client fills its block, as far as it writes.
Reach(p) == IF writes < held[p].requested THEN writes ELSE held[p].requested

Fill(p, padded) ==
    /\ heap' = [heap EXCEPT !.mem =
                   [a \in Rows |-> IF a \in Payload(p, Reach(p))
                                   THEN Data(a - p, padded) ELSE heap.mem[a]]]
    /\ held' = [held EXCEPT ![p].written = Reach(p), ![p].padded = padded]
    /\ UNCHANGED clash

CallFree(p) ==
    /\ heap' = Free(heap, p)
    /\ held' = Without(p)
    /\ UNCHANGED clash

CallRealloc(p, size) ==
    LET kept == IF held[p].written < size THEN held[p].written ELSE size
    IN  Answered(Realloc(heap, p, size), size, kept, held[p].padded, Without(p),
                 IF size = 0 THEN Without(p) ELSE held)

Unwritten == {p \in DOMAIN held : held[p].written < Reach(p)}

Call ==
    \/ \E size \in Sizes : CallMalloc(size)
    \/ \E p \in DOMAIN held : CallFree(p) \/ \E size \in Sizes : CallRealloc(p, size)

Next ==
    /\ ~heap.fault /\ ~clash /\ heap.slips \subseteq Tolerated
    /\ \/ \E p \in Unwritten, padded \in Bits : Fill(p, padded)
       \/ Unwritten = {} /\ Call
    /\ UNCHANGED writes

Spec == Init /\ [][Next]_vars

=============================================================================
