----------------------------- MODULE SfmmProofs -----------------------------
(***************************************************************************)
(* What is proved of the allocator for pages of any size, any number of    *)
(* them, any bounds of the lists and any sizes the client asks for: as     *)
(* long as nothing but "dropped" has slipped, the blocks fill the heap,    *)
(* the lists are free blocks linked both ways, and the client holds the    *)
(* allocated ones, with its data in them.                                  *)
(*                                                                         *)
(* The invariant says so of the tags and links themselves: a set of blocks *)
(* B tiles the heap, and its free blocks are linked without a circle; the  *)
(* walks of the properties then find B and the lists.  An operator of the  *)
(* library takes a heap in order (Ordered) to one in order, and what it    *)
(* leaves of the allocated blocks is Served: those gone and those new, and *)
(* all others row for row as they were.                                    *)
(***************************************************************************)
EXTENDS SfmmProperties, Induction, TLAPS

Contents ==
    [kind : {"tag"}, allocated : BOOLEAN, padded : BOOLEAN, size : Nat, requested : Nat]
        \cup [kind : {"data"}, index : Int, padded : BOOLEAN]
        \cup [kind : {"link"}, to : Int]

IsHeap(h) ==
    h = [mem |-> h.mem, head |-> h.head, pages |-> h.pages, fault |-> h.fault,
         slips |-> h.slips]

Heaps == [mem : [Rows -> Contents], head : [Lists -> Int], pages : 0..MaxPages,
          fault : BOOLEAN, slips : SUBSET Slips]

-----------------------------------------------------------------------------
(* What a heap in order is like, in terms of its blocks B and of the free    *)
(* ones F that are linked.                                                   *)

\* The rows of a block.
Extent(h, b) == b..Foot(h, b)

BlockOf(h, b) ==
    /\ IsTag(h, b) /\ SizeAt(h, b) >= MinBlock /\ Aligned(SizeAt(h, b))
    /\ b + SizeAt(h, b) <= End(h)

\* The footer of a block says what its header says, of padded where it is in use.
Closed(h, b) ==
    /\ IsTag(h, Foot(h, b))
    /\ TagAt(h, Foot(h, b)).size = TagAt(h, b).size
    /\ TagAt(h, Foot(h, b)).allocated = TagAt(h, b).allocated
    /\ TagAt(h, b).allocated => TagAt(h, Foot(h, b)).padded = TagAt(h, b).padded

\* The blocks B lie one behind the other from the first row to the end.
Tiled(h, B) ==
    /\ B \subseteq {a \in Nat : Aligned(a)}
    /\ Aligned(End(h))
    /\ End(h) > 0 => 0 \in B
    /\ \A b \in B : BlockOf(h, b) /\ Closed(h, b)
                    /\ b + SizeAt(h, b) \in B \cup {End(h)}
    /\ \A b, c \in B : b < c => b + SizeAt(h, b) <= c

Frees(h, B) == {b \in B : ~TagAt(h, b).allocated}
Allocs(h, B) == {b \in B : TagAt(h, b).allocated}

Class(h, b) == ListOf(SizeAt(h, b))

Spaced(h, F) ==
    /\ F \subseteq {a \in Nat : Aligned(a)}
    /\ \A b \in F : b + MinBlock <= End(h)
    /\ \A b, c \in F : b < c => b + MinBlock <= c

\* The blocks F are linked both ways.
Chained(h, F) ==
    \A b \in F :
        /\ NextOf(h, b) # Null => NextOf(h, b) \in F /\ PrevOf(h, NextOf(h, b)) = b
        /\ PrevOf(h, b) # Null => PrevOf(h, b) \in F /\ NextOf(h, PrevOf(h, b)) = b

\* Nowhere in a circle.
Acyclic(h, F) ==
    \A S \in SUBSET F : S # {} => \E b \in S : PrevOf(h, b) \notin S

Strung(h, F) == Spaced(h, F) /\ Chained(h, F) /\ Acyclic(h, F)

\* Linked blocks are of one class.
Classed(h, F) ==
    \A b \in F : NextOf(h, b) # Null => Class(h, NextOf(h, b)) = Class(h, b)

\* A list begins with a block of its class that no other leads to.
Heads(h, F) ==
    \A l \in Lists : h.head[l] # Null =>
        h.head[l] \in F /\ Class(h, h.head[l]) = l /\ PrevOf(h, h.head[l]) = Null

\* The first of linked blocks is where its list begins.
NoneDropped(h, F) == \A b \in F : PrevOf(h, b) = Null => h.head[Class(h, b)] = b

Linked(h, F) == Strung(h, F) /\ Classed(h, F) /\ Heads(h, F)

LinkRow(F, a) == \E b \in F : a = b + 1 \/ a = b + 2

Ordered(h, B) ==
    /\ h \in Heaps /\ ~h.fault
    /\ Tiled(h, B) /\ Linked(h, Frees(h, B))
    /\ h.slips = {} => NoneDropped(h, Frees(h, B))

\* Block p is good for a request of n rows.
Holds(h, p, n) ==
    Valid(h, p) /\ TagAt(h, Foot(h, p)).requested = n /\ n <= SizeAt(h, p) - Overhead

Entries == [requested : Nat, written : Nat, padded : BOOLEAN]

\* What the client knows of block p is so.
Known(h, p, e) ==
    /\ e \in Entries /\ e.written <= e.requested
    /\ Holds(h, p, e.requested)
    /\ \A i \in 1..e.written : h.mem[p + i] = Data(i, e.padded)

\* What the client holds, own, are the allocated blocks.
Client(h, own, B) == DOMAIN own = Allocs(h, B) /\ \A p \in DOMAIN own : Known(h, p, own[p])

IInv ==
    /\ IsHeap(heap) /\ writes \in Writes
    /\ Only({"dropped"}) =>
        ~clash /\ \E B \in SUBSET Rows : Ordered(heap, B) /\ Client(heap, held, B)

-----------------------------------------------------------------------------
(* Numbers *)

LEMMA AlignedSum ==
    ASSUME NEW a \in Int, NEW b \in Int, Aligned(a), Aligned(b)
    PROVE  Aligned(a + b) /\ Aligned(a - b)
BY DEF Aligned

\* Aligned numbers differ by an aligned number; a block is rounded up to one.
LEMMA Rounded ==
    ASSUME NEW n \in Nat
    PROVE  /\ RoundUp(n) \in Nat /\ Aligned(RoundUp(n))
           /\ n <= RoundUp(n) /\ RoundUp(n) <= n + 1
BY DEF Aligned, RoundUp

LEMMA EndBounds ==
    ASSUME NEW h \in Heaps
    PROVE  /\ PageSize \in Nat /\ MaxPages \in Nat /\ PageSize >= MinBlock /\ Aligned(PageSize)
           /\ h.pages \in Nat /\ End(h) \in Nat /\ PageSize * MaxPages \in Nat
           /\ End(h) <= PageSize * MaxPages
<1>1. /\ PageSize \in Nat /\ MaxPages \in Nat /\ PageSize >= MinBlock /\ Aligned(PageSize)
  BY SfmmAssumption DEF Aligned
<1>2. h.pages \in Nat /\ h.pages <= MaxPages
  BY <1>1 DEF Heaps
<1>3. End(h) \in Nat /\ PageSize * MaxPages \in Nat
  BY <1>1, <1>2 DEF End
<1>4. End(h) <= PageSize * MaxPages
  <2> SUFFICES ASSUME NEW p \in Nat, NEW q \in Nat, NEW m \in Nat, p <= m
               PROVE  p * q <= q * m
    BY <1>1, <1>2 DEF End
  <2>1. (m - p) \in Nat /\ (m - p) * q >= 0 /\ q * m = p * q + (m - p) * q
    OBVIOUS
  <2> QED
    BY <2>1
<1> QED
  BY <1>1, <1>2, <1>3, <1>4

LEMMA RowsInHeap ==
    ASSUME NEW h \in Heaps, NEW a, InHeap(h, a), a \in Int
    PROVE  a \in Rows /\ a \in Nat
<1>1. End(h) \in Nat /\ PageSize * MaxPages \in Nat /\ End(h) <= PageSize * MaxPages
  BY EndBounds
<1> QED
  BY <1>1 DEF InHeap, Rows

-----------------------------------------------------------------------------
(* What is written to a row, and read from it *)

Tags == [kind : {"tag"}, allocated : BOOLEAN, padded : BOOLEAN, size : Nat, requested : Nat]

LEMMA RowKinds ==
    /\ \A alloc \in BOOLEAN, padded \in BOOLEAN, size \in Nat, requested \in Nat :
          Tag(alloc, padded, size, requested) \in Tags
    /\ \A size \in Nat : FreeTag(size) \in Tags
    /\ Zero \in Tags
    /\ \A a \in Int : Link(a) \in Contents
    /\ \A i \in Int, padded \in BOOLEAN : Data(i, padded) \in Contents
    /\ Tags \subseteq Contents
BY DEF Tags, Contents, Tag, FreeTag, Zero, Link, Data, Null

LEMMA TagTyped ==
    ASSUME NEW h \in Heaps, NEW a \in Int
    PROVE  /\ TagAt(h, a) \in Tags
           /\ TagAt(h, a).size \in Nat /\ TagAt(h, a).requested \in Nat
           /\ TagAt(h, a).allocated \in BOOLEAN /\ TagAt(h, a).padded \in BOOLEAN
           /\ SizeAt(h, a) \in Nat /\ SizeAt(h, a) = TagAt(h, a).size
           /\ Foot(h, a) \in Int /\ Foot(h, a) = a + SizeAt(h, a) - 1
<1>1. TagAt(h, a) \in Tags
  <2>1. CASE IsTag(h, a)
    <3>1. a \in Rows
      BY <2>1, RowsInHeap DEF IsTag
    <3>2. h.mem[a] \in Contents /\ h.mem[a].kind = "tag"
      BY <2>1, <3>1 DEF IsTag, Heaps
    <3> QED
      BY <2>1, <3>2 DEF TagAt, Contents, Tags
  <2>2. CASE ~IsTag(h, a)
    BY <2>2, RowKinds DEF TagAt
  <2> QED
    BY <2>1, <2>2
<1> QED
  BY <1>1 DEF Tags, SizeAt, Foot

\* A tag whose padded is left as it lies is a tag all the same.
LEMMA UnsetTag ==
    ASSUME NEW h \in Heaps, NEW a \in Int, NEW tag \in Tags
    PROVE  /\ Unset(h, a, tag) \in Tags /\ Unset(h, a, tag) \in Contents
           /\ Unset(h, a, tag).size = tag.size /\ Unset(h, a, tag).allocated = tag.allocated
           /\ Unset(h, a, tag).kind = "tag"
<1>1. PaddedAt(h, a) \in BOOLEAN
  <2>1. CASE InHeap(h, a)
    <3>1. h.mem[a] \in Contents
      BY <2>1, RowsInHeap DEF Heaps
    <3>2. h.mem[a].kind \in {"tag", "data"} => h.mem[a].padded \in BOOLEAN
      BY <3>1 DEF Contents
    <3> QED
      BY <3>2 DEF PaddedAt
  <2>2. CASE ~InHeap(h, a)
    BY <2>2 DEF PaddedAt
  <2> QED
    BY <2>1, <2>2
<1> DEFINE x == PaddedAt(h, a)
<1>2. Unset(h, a, tag) = [tag EXCEPT !.padded = x]
  BY DEF Unset
<1> HIDE DEF x
<1>3. /\ [tag EXCEPT !.padded = x] \in Tags
      /\ [tag EXCEPT !.padded = x].size = tag.size
      /\ [tag EXCEPT !.padded = x].allocated = tag.allocated
      /\ [tag EXCEPT !.padded = x].kind = "tag"
  BY <1>1 DEF Tags, x
<1> QED
  BY <1>2, <1>3, RowKinds

LEMMA FollowTyped ==
    ASSUME NEW h \in Heaps, NEW a \in Int
    PROVE  Follow(h, a) \in Int
<1>1. CASE InHeap(h, a)
  <2>1. a \in Rows
    BY <1>1, RowsInHeap
  <2>2. h.mem[a] \in Contents
    BY <2>1 DEF Heaps
  <2>3. h.mem[a].kind = "link" => h.mem[a].to \in Int
    BY <2>2 DEF Contents
  <2> QED
    BY <2>3 DEF Follow, Wild, Null
<1> QED
  BY <1>1 DEF Follow, Wild

\* A row that is a link to a.
LEMMA FollowLink ==
    ASSUME NEW h, NEW r, NEW a \in Int, InHeap(h, r), h.mem[r] = Link(a)
    PROVE  Follow(h, r) = a
<1>1. CASE a = Null
  BY <1>1, RowKinds DEF Follow, Link, Zero, FreeTag, Tag, Null
<1>2. CASE a # Null
  <2>1. h.mem[r].kind = "link" /\ h.mem[r].to = a
    BY <1>2 DEF Link
  <2>2. Zero.kind = "tag"
    BY DEF Zero, FreeTag, Tag
  <2>3. h.mem[r] # Zero
    BY <2>1, <2>2
  <2> QED
    BY <2>1, <2>3 DEF Follow
<1> QED
  BY <1>1, <1>2

LEMMA FollowZero ==
    ASSUME NEW h, NEW r, InHeap(h, r), h.mem[r] = Zero
    PROVE  Follow(h, r) = Null
BY DEF Follow, Zero, FreeTag, Tag, Null

LEMMA ListOfTyped == ASSUME NEW n \in Nat PROVE ListOf(n) \in Lists
<1> DEFINE fits == {l \in 0..2 : MinBlock <= n /\ n <= ListMax[l]}
<1>1. CASE fits = {}
  BY <1>1 DEF ListOf, Lists
<1>2. CASE fits # {}
  <2>1. \E l \in fits : \A j \in fits : l <= j
    <3>1. fits \subseteq Nat
      OBVIOUS
    <3> QED
      BY <1>2, <3>1, LeastNumber
  <2>2. (CHOOSE l \in fits : \A j \in fits : l <= j) \in fits
    BY <2>1
  <2>3. (CHOOSE l \in fits : \A j \in fits : l <= j) \in 0..2
    BY <2>2
  <2> QED
    BY <1>2, <2>3 DEF ListOf, Lists
<1> QED
  BY <1>1, <1>2

\* What is left alone when one row is written.
OnlyMem(h, g) ==
    g.head = h.head /\ g.pages = h.pages /\ g.fault = h.fault /\ g.slips = h.slips

LEMMA WriteEffect ==
    ASSUME NEW h \in Heaps, NEW a \in Int, InHeap(h, a), NEW row \in Contents
    PROVE  /\ Write(h, a, row) \in Heaps /\ OnlyMem(h, Write(h, a, row))
           /\ \A r \in Rows : Write(h, a, row).mem[r] = IF r = a THEN row ELSE h.mem[r]
<1>1. Write(h, a, row) = [h EXCEPT !.mem[a] = row]
  BY DEF Write
<1>2. a \in Rows
  BY RowsInHeap
<1> QED
  BY <1>1, <1>2 DEF Heaps, OnlyMem

LEMMA WriteTyped ==
    ASSUME NEW h \in Heaps, NEW a \in Int, NEW row \in Contents
    PROVE  /\ Write(h, a, row) \in Heaps
           /\ Write(h, a, row).pages = h.pages /\ Write(h, a, row).slips = h.slips
           /\ Write(h, a, row).head = h.head
<1>1. CASE InHeap(h, a)
  BY <1>1, WriteEffect DEF OnlyMem
<1>2. CASE ~InHeap(h, a)
  BY <1>2 DEF Write, Require, Heaps
<1> QED
  BY <1>1, <1>2

LEMMA RequireTyped ==
    ASSUME NEW h \in Heaps, NEW ok \in BOOLEAN
    PROVE  /\ Require(h, ok) \in Heaps
           /\ Require(h, ok).pages = h.pages /\ Require(h, ok).slips = h.slips
           /\ Require(h, ok).mem = h.mem /\ Require(h, ok).head = h.head
           /\ ok => Require(h, ok) = h
BY DEF Require, Heaps

LEMMA SetHeadEffect ==
    ASSUME NEW h \in Heaps, NEW l \in Lists, NEW b \in Int
    PROVE  LET g == SetHead(h, l, b)
           IN  /\ g \in Heaps
               /\ g.mem = h.mem /\ g.pages = h.pages /\ g.fault = h.fault /\ g.slips = h.slips
               /\ \A k \in Lists : g.head[k] = IF k = l THEN b ELSE h.head[k]
BY DEF SetHead, Heaps

LEMMA NoteTyped ==
    ASSUME NEW h \in Heaps, NEW slip \in Slips, NEW happens \in BOOLEAN
    PROVE  LET g == Note(h, slip, happens)
           IN  /\ g \in Heaps
               /\ g.mem = h.mem /\ g.pages = h.pages /\ g.fault = h.fault /\ g.head = h.head
               /\ g.slips = IF happens THEN h.slips \cup {slip} ELSE h.slips
BY DEF Note, Heaps

\* A row that is the same in two heaps is read as the same.
LEMMA RowFrame ==
    ASSUME NEW h \in Heaps, NEW g \in Heaps, End(h) <= End(g),
           NEW a \in Int, InHeap(h, a), g.mem[a] = h.mem[a]
    PROVE  /\ InHeap(g, a) /\ IsTag(g, a) = IsTag(h, a)
           /\ TagAt(g, a) = TagAt(h, a) /\ SizeAt(g, a) = SizeAt(h, a)
           /\ Foot(g, a) = Foot(h, a) /\ Follow(g, a) = Follow(h, a)
<1>1. InHeap(g, a)
  BY EndBounds DEF InHeap
<1>2. IsTag(g, a) = IsTag(h, a) /\ TagAt(g, a) = TagAt(h, a)
  BY <1>1 DEF IsTag, TagAt
<1>3. Follow(g, a) = Follow(h, a)
  BY <1>1 DEF Follow
<1> QED
  BY <1>1, <1>2, <1>3 DEF SizeAt, Foot

LEMMA LinksTyped ==
    ASSUME NEW h \in Heaps, NEW b \in Int
    PROVE  /\ NextOf(h, b) \in Int /\ PrevOf(h, b) \in Int
           /\ Link(NextOf(h, b)) \in Contents /\ Link(PrevOf(h, b)) \in Contents
BY FollowTyped, RowKinds DEF NextOf, PrevOf

LEMMA UnlinkTyped ==
    ASSUME NEW h \in Heaps, NEW b \in Int
    PROVE  /\ Unlink(h, b) \in Heaps
           /\ Unlink(h, b).pages = h.pages /\ Unlink(h, b).slips = h.slips
           /\ Unlink(h, b).head = h.head
<1> DEFINE p == PrevOf(h, b)
           n == NextOf(h, b)
           h1 == Require(h, p # Wild /\ n # Wild)
           h2 == IF p >= 0 THEN Write(h1, p + 1, Link(n)) ELSE h1
<1>1. p \in Int /\ n \in Int /\ Link(p) \in Contents /\ Link(n) \in Contents
  BY LinksTyped
<1>2. Unlink(h, b) = IF n >= 0 THEN Write(h2, n + 2, Link(p)) ELSE h2
  BY DEF Unlink
<1>3. h1 \in Heaps /\ h1.pages = h.pages /\ h1.slips = h.slips /\ h1.head = h.head
  BY RequireTyped
<1> HIDE DEF p, n, h1
<1>4. p >= 0 => /\ p + 1 \in Int
                /\ Write(h1, p + 1, Link(n)) \in Heaps
                /\ Write(h1, p + 1, Link(n)).pages = h1.pages
                /\ Write(h1, p + 1, Link(n)).slips = h1.slips
                /\ Write(h1, p + 1, Link(n)).head = h1.head
  <2>1. p + 1 \in Int
    BY <1>1
  <2> QED
    BY <1>1, <1>3, <2>1, WriteTyped
<1>5. h2 \in Heaps /\ h2.pages = h.pages /\ h2.slips = h.slips /\ h2.head = h.head
  BY <1>3, <1>4
<1> HIDE DEF h2
<1>6. n + 2 \in Int
  BY <1>1
<1>7. /\ Write(h2, n + 2, Link(p)) \in Heaps
      /\ Write(h2, n + 2, Link(p)).pages = h2.pages
      /\ Write(h2, n + 2, Link(p)).slips = h2.slips
      /\ Write(h2, n + 2, Link(p)).head = h2.head
  BY <1>1, <1>5, <1>6, WriteTyped
<1> QED
  BY <1>2, <1>5, <1>7

LEMMA WriteTagsTyped ==
    ASSUME NEW h \in Heaps, NEW b \in Int, NEW header \in Tags, NEW footer \in Tags
    PROVE  /\ WriteTags(h, b, header, footer) \in Heaps
           /\ WriteTags(h, b, header, footer).pages = h.pages
           /\ WriteTags(h, b, header, footer).slips = h.slips
           /\ WriteTags(h, b, header, footer).head = h.head
<1>1. header \in Contents /\ footer \in Contents /\ b + header.size - 1 \in Int
  BY RowKinds DEF Tags
<1>2. Write(h, b, header) \in Heaps /\ Write(h, b, header).pages = h.pages
      /\ Write(h, b, header).slips = h.slips /\ Write(h, b, header).head = h.head
  BY <1>1, WriteTyped
<1>3. WriteTags(h, b, header, footer) = Write(Write(h, b, header), b + header.size - 1, footer)
  BY DEF WriteTags
<1> HIDE DEF WriteTags
<1> QED
  BY <1>1, <1>2, <1>3, WriteTyped

LEMMA PushTyped ==
    ASSUME NEW h \in Heaps, NEW b \in Int
    PROVE  /\ Push(h, b) \in Heaps
           /\ Push(h, b).pages = h.pages /\ Push(h, b).slips = h.slips
<1> DEFINE l == ListOf(SizeAt(h, b))
           old == h.head[l]
           h0 == SetHead(h, l, b)
           h1 == Write(h0, b + 1, Link(old))
           h2 == Write(h1, b + 2, Zero)
<1>1. l \in Lists /\ old \in Int
  <2>1. l \in Lists
    BY TagTyped, ListOfTyped
  <2> QED
    BY <2>1 DEF Heaps
<1>2. Link(old) \in Contents /\ Link(b) \in Contents /\ Zero \in Contents
  BY <1>1, RowKinds
<1>3. b + 1 \in Int /\ b + 2 \in Int /\ old + 2 \in Int
  BY <1>1
<1>4. Push(h, b) = IF old # Null THEN Write(h2, old + 2, Link(b)) ELSE h2
  BY DEF Push
<1>5. h0 \in Heaps /\ h0.pages = h.pages /\ h0.slips = h.slips
  BY <1>1, SetHeadEffect
<1> HIDE DEF l, old, h0
<1>6. h1 \in Heaps /\ h1.pages = h.pages /\ h1.slips = h.slips
  BY <1>2, <1>3, <1>5, WriteTyped
<1> HIDE DEF h1
<1>7. h2 \in Heaps /\ h2.pages = h.pages /\ h2.slips = h.slips
  BY <1>2, <1>3, <1>6, WriteTyped
<1> HIDE DEF h2
<1>8. /\ Write(h2, old + 2, Link(b)) \in Heaps
      /\ Write(h2, old + 2, Link(b)).pages = h2.pages
      /\ Write(h2, old + 2, Link(b)).slips = h2.slips
  BY <1>2, <1>3, <1>7, WriteTyped
<1> QED
  BY <1>4, <1>7, <1>8

-----------------------------------------------------------------------------
(* Linked blocks *)

\* The links of spaced blocks are rows of the heap, and no two of them are one.
LEMMA LinkRows ==
    ASSUME NEW h \in Heaps, NEW F, Spaced(h, F), NEW b \in F
    PROVE  /\ b \in Nat /\ Aligned(b)
           /\ InHeap(h, b) /\ InHeap(h, b + 1) /\ InHeap(h, b + 2) /\ InHeap(h, b + 3)
           /\ b \in Rows /\ b + 1 \in Rows /\ b + 2 \in Rows /\ b + 3 \in Rows
           /\ ~LinkRow(F, b) /\ ~LinkRow(F, b + 3)
           /\ \A c \in F : (b + 1 = c + 1 \/ b + 2 = c + 2) => b = c
           /\ \A c \in F : b + 1 # c + 2 /\ b + 2 # c + 1
<1>1. b \in Nat /\ Aligned(b) /\ b + 4 <= End(h)
  BY DEF Spaced, MinBlock
<1>2. End(h) \in Nat
  BY EndBounds
<1>3. InHeap(h, b) /\ InHeap(h, b + 1) /\ InHeap(h, b + 2) /\ InHeap(h, b + 3)
  BY <1>1, <1>2 DEF InHeap
<1>4. b \in Rows /\ b + 1 \in Rows /\ b + 2 \in Rows /\ b + 3 \in Rows
  BY <1>1, <1>3, RowsInHeap
<1>5. \A c \in F : c \in Nat /\ (b < c => b + 4 <= c) /\ (c < b => c + 4 <= b)
  BY DEF Spaced, MinBlock
<1>6. ~LinkRow(F, b) /\ ~LinkRow(F, b + 3)
  BY <1>1, <1>5 DEF LinkRow
<1>7. \A c \in F : b + 1 # c + 2 /\ b + 2 # c + 1
  BY <1>1, <1>5
<1>8. \A c \in F : (b + 1 = c + 1 \/ b + 2 = c + 2) => b = c
  BY <1>1, <1>5
<1> QED
  BY <1>1, <1>3, <1>4, <1>6, <1>7, <1>8

\* What is linked stays linked when no link is written.
LEMMA StrungFrame ==
    ASSUME NEW h \in Heaps, NEW g \in Heaps, NEW F, Strung(h, F), End(h) <= End(g),
           \A a \in Rows : LinkRow(F, a) => g.mem[a] = h.mem[a]
    PROVE  /\ Strung(g, F)
           /\ \A b \in F : NextOf(g, b) = NextOf(h, b) /\ PrevOf(g, b) = PrevOf(h, b)
<1>1. \A b \in F : NextOf(g, b) = NextOf(h, b) /\ PrevOf(g, b) = PrevOf(h, b)
  <2> SUFFICES ASSUME NEW b \in F
               PROVE  NextOf(g, b) = NextOf(h, b) /\ PrevOf(g, b) = PrevOf(h, b)
    OBVIOUS
  <2>1. /\ b + 1 \in Int /\ b + 2 \in Int /\ InHeap(h, b + 1) /\ InHeap(h, b + 2)
        /\ b + 1 \in Rows /\ b + 2 \in Rows
    BY LinkRows DEF Strung
  <2>2. LinkRow(F, b + 1) /\ LinkRow(F, b + 2)
    BY DEF LinkRow
  <2>3. g.mem[b + 1] = h.mem[b + 1] /\ g.mem[b + 2] = h.mem[b + 2]
    BY <2>1, <2>2
  <2> QED
    BY <2>1, <2>3, RowFrame DEF NextOf, PrevOf
<1>2. Spaced(g, F)
  <2>1. End(h) \in Nat /\ End(g) \in Nat
    BY EndBounds
  <2> QED
    BY <2>1 DEF Strung, Spaced, MinBlock
<1>3. Chained(g, F)
  BY <1>1 DEF Strung, Chained
<1>4. Acyclic(g, F)
  BY <1>1 DEF Strung, Acyclic
<1> QED
  BY <1>1, <1>2, <1>3, <1>4 DEF Strung

\* No block is its own neighbour.
LEMMA OtherNeighbours ==
    ASSUME NEW h, NEW F, Strung(h, F), NEW b \in F
    PROVE  NextOf(h, b) # b /\ PrevOf(h, b) # b
<1>1. PrevOf(h, b) # b
  <2>1. {b} \in SUBSET F /\ {b} # {}
    OBVIOUS
  <2>2. \E c \in {b} : PrevOf(h, c) \notin {b}
    BY <2>1 DEF Strung, Acyclic
  <2> QED
    BY <2>2
<1>2. b # Null
  BY DEF Strung, Spaced, Null
<1> QED
  BY <1>1, <1>2 DEF Strung, Chained

\* From h to g the neighbours of x among F have been linked to each other.
Bypassed(h, g, F, x) ==
    \A b \in F : b # x =>
        /\ NextOf(g, b) = IF b = PrevOf(h, x) THEN NextOf(h, x) ELSE NextOf(h, b)
        /\ PrevOf(g, b) = IF b = NextOf(h, x) THEN PrevOf(h, x) ELSE PrevOf(h, b)

\* From h to g no row but the links of F has been written.
OnlyLinks(h, g, F) == \A a \in Rows : ~LinkRow(F, a) => g.mem[a] = h.mem[a]

LEMMA UnlinkEffect ==
    ASSUME NEW h \in Heaps, NEW F, Strung(h, F), NEW x \in F
    PROVE  LET g == Unlink(h, x)
           IN  /\ g \in Heaps /\ OnlyMem(h, g)
               /\ OnlyLinks(h, g, F \ {x}) /\ Bypassed(h, g, F, x)
<1> DEFINE p == PrevOf(h, x)
           n == NextOf(h, x)
           h2 == IF p >= 0 THEN Write(h, p + 1, Link(n)) ELSE h
           g == IF n >= 0 THEN Write(h2, n + 2, Link(p)) ELSE h2
<1>0. x \in Nat
  BY LinkRows DEF Strung
<1>1. p \in Int /\ n \in Int /\ Link(p) \in Contents /\ Link(n) \in Contents
  BY <1>0, LinksTyped
<1>2. (p # Null => p \in F \ {x}) /\ (n # Null => n \in F \ {x})
  BY OtherNeighbours DEF Strung, Chained
<1>3. \A b \in F : b \in Nat /\ InHeap(h, b + 1) /\ InHeap(h, b + 2)
                   /\ b + 1 \in Rows /\ b + 2 \in Rows
  BY LinkRows DEF Strung
<1>4. (p >= 0 <=> p # Null) /\ (n >= 0 <=> n # Null)
  BY <1>2, <1>3 DEF Null
<1>5. p # Wild /\ n # Wild
  BY <1>2, <1>3 DEF Wild, Null
<1>6. Unlink(h, x) = g
  <2>1. Require(h, PrevOf(h, x) # Wild /\ NextOf(h, x) # Wild) = h
    BY <1>5 DEF Require
  <2> QED
    BY <2>1 DEF Unlink
<1> HIDE DEF p, n
<1>7. /\ h2 \in Heaps /\ OnlyMem(h, h2)
      /\ \A r \in Rows : h2.mem[r] = IF p # Null /\ r = p + 1 THEN Link(n) ELSE h.mem[r]
  <2>1. CASE p # Null
    <3>1. p + 1 \in Int /\ InHeap(h, p + 1)
      BY <1>2, <1>3, <2>1
    <3>2. h2 = Write(h, p + 1, Link(n))
      BY <1>4, <2>1
    <3> HIDE DEF h2
    <3> QED
      BY <1>1, <2>1, <3>1, <3>2, WriteEffect
  <2>2. CASE p = Null
    BY <1>4, <2>2 DEF OnlyMem
  <2> QED
    BY <2>1, <2>2
<1> HIDE DEF h2
<1>8. /\ g \in Heaps /\ OnlyMem(h, g)
      /\ \A r \in Rows : g.mem[r] = IF n # Null /\ r = n + 2 THEN Link(p) ELSE h2.mem[r]
  <2>1. CASE n # Null
    <3>1. n + 2 \in Int /\ InHeap(h2, n + 2)
      BY <1>2, <1>3, <1>7, <2>1 DEF InHeap, End, OnlyMem
    <3>2. g = Write(h2, n + 2, Link(p))
      BY <1>4, <2>1
    <3> HIDE DEF g
    <3>3. /\ g \in Heaps /\ OnlyMem(h2, g)
          /\ \A r \in Rows : g.mem[r] = IF r = n + 2 THEN Link(p) ELSE h2.mem[r]
      BY <1>1, <1>7, <3>1, <3>2, WriteEffect
    <3> QED
      BY <1>7, <2>1, <3>3 DEF OnlyMem
  <2>2. CASE n = Null
    BY <1>4, <1>7, <2>2
  <2> QED
    BY <2>1, <2>2
<1> HIDE DEF g
<1>9. \A a \in Rows : ~LinkRow(F \ {x}, a) => g.mem[a] = h.mem[a]
  BY <1>2, <1>7, <1>8 DEF LinkRow
<1>10. End(g) = End(h)
  BY <1>8 DEF OnlyMem, End
<1>11. ASSUME NEW b \in F \ {x}
       PROVE  NextOf(g, b) = IF b = p THEN n ELSE NextOf(h, b)
  <2>1. b + 1 \in Rows /\ b + 1 \in Int /\ InHeap(h, b + 1)
    BY <1>3
  <2>2. n # Null => b + 1 # n + 2
    BY <1>2, LinkRows DEF Strung
  <2>3. p # Null => (b + 1 = p + 1 <=> b = p)
    BY <1>2, <1>3
  <2>4. b = p => p # Null
    BY <1>3 DEF Null
  <2>5. CASE b = p
    <3>1. g.mem[b + 1] = Link(n)
      BY <1>7, <1>8, <2>1, <2>2, <2>4, <2>5
    <3>2. InHeap(g, b + 1)
      BY <1>10, <2>1 DEF InHeap
    <3> QED
      BY <1>1, <2>5, <3>1, <3>2, FollowLink DEF NextOf
  <2>6. CASE b # p
    <3>1. g.mem[b + 1] = h.mem[b + 1]
      BY <1>7, <1>8, <2>1, <2>2, <2>3, <2>6
    <3>2. End(h) <= End(g)
      BY <1>10, EndBounds
    <3> QED
      BY <1>8, <2>1, <2>6, <3>1, <3>2, RowFrame DEF NextOf
  <2> QED
    BY <2>5, <2>6
<1>12. ASSUME NEW b \in F \ {x}
       PROVE  PrevOf(g, b) = IF b = n THEN p ELSE PrevOf(h, b)
  <2>1. b + 2 \in Rows /\ b + 2 \in Int /\ InHeap(h, b + 2)
    BY <1>3
  <2>2. p # Null => b + 2 # p + 1
    BY <1>2, LinkRows DEF Strung
  <2>3. n # Null => (b + 2 = n + 2 <=> b = n)
    BY <1>2, <1>3
  <2>4. b = n => n # Null
    BY <1>3 DEF Null
  <2>5. CASE b = n
    <3>1. g.mem[b + 2] = Link(p)
      BY <1>7, <1>8, <2>1, <2>2, <2>4, <2>5
    <3>2. InHeap(g, b + 2)
      BY <1>10, <2>1 DEF InHeap
    <3> QED
      BY <1>1, <2>5, <3>1, <3>2, FollowLink DEF PrevOf
  <2>6. CASE b # n
    <3>1. g.mem[b + 2] = h.mem[b + 2]
      BY <1>7, <1>8, <2>1, <2>2, <2>3, <2>6
    <3>2. End(h) <= End(g)
      BY <1>10, EndBounds
    <3> QED
      BY <1>8, <2>1, <2>6, <3>1, <3>2, RowFrame DEF PrevOf
  <2> QED
    BY <2>5, <2>6
<1>13. OnlyLinks(h, g, F \ {x})
  BY <1>9 DEF OnlyLinks
<1>14. Bypassed(h, g, F, x)
  BY <1>11, <1>12 DEF p, n, Bypassed
<1> QED
  BY <1>6, <1>8, <1>13, <1>14

\* Without x, with its neighbours linked to each other, nothing is out of order.
LEMMA UnlinkStrung ==
    ASSUME NEW h \in Heaps, NEW F, Strung(h, F), NEW x \in F
    PROVE  Strung(Unlink(h, x), F \ {x})
<1> DEFINE g == Unlink(h, x)
           p == PrevOf(h, x)
           n == NextOf(h, x)
<1>1. /\ g \in Heaps /\ OnlyMem(h, g)
      /\ \A b \in F : b # x => /\ NextOf(g, b) = IF b = p THEN n ELSE NextOf(h, b)
                               /\ PrevOf(g, b) = IF b = n THEN p ELSE PrevOf(h, b)
  <2>1. g \in Heaps /\ OnlyMem(h, g) /\ Bypassed(h, g, F, x)
    BY UnlinkEffect
  <2> HIDE DEF g
  <2> QED
    BY <2>1 DEF Bypassed
<1>2. /\ p # Null => p \in F \ {x} /\ NextOf(h, p) = x
      /\ n # Null => n \in F \ {x} /\ PrevOf(h, n) = x
  BY OtherNeighbours DEF Strung, Chained
<1>3. Null \notin F
  BY DEF Strung, Spaced, Null
<1> HIDE DEF g, p, n
<1>4. Spaced(g, F \ {x})
  BY <1>1 DEF Strung, Spaced, OnlyMem, End
<1>5. Chained(g, F \ {x})
  <2> SUFFICES ASSUME NEW b \in F \ {x}
               PROVE  /\ NextOf(g, b) # Null => NextOf(g, b) \in F \ {x} /\ PrevOf(g, NextOf(g, b)) = b
                      /\ PrevOf(g, b) # Null => PrevOf(g, b) \in F \ {x} /\ NextOf(g, PrevOf(g, b)) = b
    BY DEF Chained
  <2>1. /\ NextOf(h, b) # Null => NextOf(h, b) \in F /\ PrevOf(h, NextOf(h, b)) = b
        /\ PrevOf(h, b) # Null => PrevOf(h, b) \in F /\ NextOf(h, PrevOf(h, b)) = b
    BY DEF Strung, Chained
  <2>2. NextOf(h, b) = x <=> b = p
    BY <1>2, <1>3, <2>1 DEF p
  <2>3. PrevOf(h, b) = x <=> b = n
    BY <1>2, <1>3, <2>1 DEF n
  <2>4. NextOf(g, b) # Null => NextOf(g, b) \in F \ {x} /\ PrevOf(g, NextOf(g, b)) = b
    <3>1. CASE b = p
      BY <1>1, <1>2, <3>1
    <3>2. CASE b # p
      BY <1>1, <1>2, <2>1, <2>2, <3>2
    <3> QED
      BY <3>1, <3>2
  <2>5. PrevOf(g, b) # Null => PrevOf(g, b) \in F \ {x} /\ NextOf(g, PrevOf(g, b)) = b
    <3>1. CASE b = n
      BY <1>1, <1>2, <3>1
    <3>2. CASE b # n
      BY <1>1, <1>2, <2>1, <2>3, <3>2
    <3> QED
      BY <3>1, <3>2
  <2> QED
    BY <2>4, <2>5
<1>6. Acyclic(g, F \ {x})
  <2> SUFFICES ASSUME NEW S \in SUBSET (F \ {x}), S # {},
                      \A b \in S : PrevOf(g, b) \in S
               PROVE  FALSE
    BY DEF Acyclic
  <2>1. CASE n \in S
    <3>1. S \cup {x} \in SUBSET F /\ S \cup {x} # {}
      OBVIOUS
    <3>2. \A b \in S \cup {x} : PrevOf(h, b) \in S \cup {x}
      <4>1. p \in S
        BY <1>1, <2>1
      <4>2. PrevOf(h, x) \in S
        BY <4>1 DEF p
      <4>3. PrevOf(h, n) = x
        BY <1>2, <1>3, <2>1
      <4>4. \A b \in S : b # n => PrevOf(h, b) \in S
        BY <1>1
      <4> QED
        BY <4>2, <4>3, <4>4
    <3> QED
      BY <3>1, <3>2 DEF Strung, Acyclic
  <2>2. CASE n \notin S
    <3>1. S \in SUBSET F
      OBVIOUS
    <3>2. \A b \in S : PrevOf(h, b) \in S
      BY <1>1, <2>2
    <3> QED
      BY <3>1, <3>2 DEF Strung, Acyclic
  <2> QED
    BY <2>1, <2>2
<1> QED
  BY <1>4, <1>5, <1>6 DEF Strung, g

\* From h to g the block x has become the first of its list.
Pushed(h, g, F, x) ==
    /\ \A b \in F :
          /\ NextOf(g, b) = NextOf(h, b)
          /\ PrevOf(g, b) = IF b = h.head[Class(h, x)] THEN x ELSE PrevOf(h, b)
    /\ NextOf(g, x) = h.head[Class(h, x)] /\ PrevOf(g, x) = Null
    /\ \A k \in Lists : g.head[k] = IF k = Class(h, x) THEN x ELSE h.head[k]

LEMMA PushEffect ==
    ASSUME NEW h \in Heaps, NEW F, Strung(h, F), Heads(h, F), NEW x, x \notin F,
           Spaced(h, F \cup {x})
    PROVE  LET g == Push(h, x)
           IN  /\ g \in Heaps /\ g.pages = h.pages /\ g.fault = h.fault /\ g.slips = h.slips
               /\ OnlyLinks(h, g, F \cup {x}) /\ Pushed(h, g, F, x)
               /\ Class(h, x) \in Lists
<1> DEFINE l == ListOf(SizeAt(h, x))
           old == h.head[l]
           h0 == SetHead(h, l, x)
           h1 == Write(h0, x + 1, Link(old))
           h2 == Write(h1, x + 2, Zero)
           g == IF old # Null THEN Write(h2, old + 2, Link(x)) ELSE h2
<1>1. \A b \in F \cup {x} : b \in Nat /\ InHeap(h, b + 1) /\ InHeap(h, b + 2)
                            /\ b + 1 \in Rows /\ b + 2 \in Rows
  BY LinkRows
<1>2. l \in Lists /\ old \in Int /\ (old # Null => old \in F)
  <2>1. l \in Lists
    BY <1>1, TagTyped, ListOfTyped
  <2> HIDE DEF l
  <2>2. old \in Int
    BY <2>1 DEF Heaps
  <2> QED
    BY <2>1, <2>2 DEF Heads
<1>3. Link(old) \in Contents /\ Link(x) \in Contents /\ Zero \in Contents
  BY <1>1, <1>2, RowKinds
<1>4. Push(h, x) = g /\ Class(h, x) = l
  BY DEF Push, Class
<1>5. /\ h0 \in Heaps
      /\ h0.mem = h.mem /\ h0.pages = h.pages /\ h0.fault = h.fault /\ h0.slips = h.slips
      /\ \A k \in Lists : h0.head[k] = IF k = l THEN x ELSE h.head[k]
  <2> HIDE DEF l
  <2>1. x \in Int /\ l \in Lists
    BY <1>1, <1>2
  <2> QED
    BY <2>1, SetHeadEffect
<1> HIDE DEF l, old, h0
<1>6. /\ h1 \in Heaps /\ OnlyMem(h0, h1)
      /\ \A r \in Rows : h1.mem[r] = IF r = x + 1 THEN Link(old) ELSE h.mem[r]
  <2>1. x + 1 \in Int /\ InHeap(h0, x + 1)
    BY <1>1, <1>5 DEF InHeap, End
  <2> QED
    BY <1>3, <1>5, <2>1, WriteEffect
<1> HIDE DEF h1
<1>7. /\ h2 \in Heaps /\ OnlyMem(h0, h2)
      /\ \A r \in Rows : h2.mem[r] = IF r = x + 2 THEN Zero ELSE h1.mem[r]
  <2>1. x + 2 \in Int /\ InHeap(h1, x + 2)
    BY <1>1, <1>5, <1>6 DEF InHeap, End, OnlyMem
  <2>2. /\ h2 \in Heaps /\ OnlyMem(h1, h2)
        /\ \A r \in Rows : h2.mem[r] = IF r = x + 2 THEN Zero ELSE h1.mem[r]
    BY <1>3, <1>6, <2>1, WriteEffect
  <2> QED
    BY <1>6, <2>2 DEF OnlyMem
<1> HIDE DEF h2
<1>8. /\ g \in Heaps /\ OnlyMem(h0, g)
      /\ \A r \in Rows : g.mem[r] = IF old # Null /\ r = old + 2 THEN Link(x) ELSE h2.mem[r]
  <2>1. CASE old # Null
    <3>1. old + 2 \in Int /\ InHeap(h2, old + 2)
      BY <1>1, <1>2, <1>5, <1>7, <2>1 DEF InHeap, End, OnlyMem
    <3>2. g = Write(h2, old + 2, Link(x))
      BY <2>1
    <3> HIDE DEF g
    <3>3. /\ g \in Heaps /\ OnlyMem(h2, g)
          /\ \A r \in Rows : g.mem[r] = IF r = old + 2 THEN Link(x) ELSE h2.mem[r]
      BY <1>3, <1>7, <3>1, <3>2, WriteEffect
    <3> QED
      BY <1>7, <2>1, <3>3 DEF OnlyMem
  <2>2. CASE old = Null
    BY <1>7, <2>2
  <2> QED
    BY <2>1, <2>2
<1> HIDE DEF g
<1>9. g.pages = h.pages /\ g.fault = h.fault /\ g.slips = h.slips /\ g.head = h0.head
  BY <1>5, <1>8 DEF OnlyMem
<1>10. End(g) = End(h) /\ End(h) <= End(g)
  BY <1>9, EndBounds DEF End
<1>11. \A a \in Rows : ~LinkRow(F \cup {x}, a) => g.mem[a] = h.mem[a]
  BY <1>2, <1>6, <1>7, <1>8 DEF LinkRow
<1>12. NextOf(g, x) = old /\ PrevOf(g, x) = Null
  <2>1. /\ x + 1 \in Rows /\ x + 2 \in Rows /\ x + 1 # x + 2
        /\ InHeap(g, x + 1) /\ InHeap(g, x + 2)
    BY <1>1, <1>10 DEF InHeap
  <2>2. old # Null => x + 1 # old + 2 /\ x + 2 # old + 2
    BY <1>2, LinkRows
  <2>3. g.mem[x + 1] = Link(old) /\ g.mem[x + 2] = Zero
    BY <1>6, <1>7, <1>8, <2>1, <2>2
  <2> QED
    BY <1>2, <2>1, <2>3, FollowLink, FollowZero DEF NextOf, PrevOf
<1>13. ASSUME NEW b \in F
       PROVE  /\ NextOf(g, b) = NextOf(h, b)
              /\ PrevOf(g, b) = IF b = old THEN x ELSE PrevOf(h, b)
  <2>1. /\ b + 1 \in Rows /\ b + 1 \in Int /\ InHeap(h, b + 1)
        /\ b + 2 \in Rows /\ b + 2 \in Int /\ InHeap(h, b + 2)
    BY <1>1
  <2>2. b + 1 # x + 1 /\ b + 2 # x + 2 /\ b + 1 # x + 2 /\ b + 2 # x + 1
    BY LinkRows
  <2>3. old # Null => b + 1 # old + 2 /\ (b + 2 = old + 2 <=> b = old)
    BY <1>2, LinkRows
  <2>4. g.mem[b + 1] = h.mem[b + 1]
    BY <1>6, <1>7, <1>8, <2>1, <2>2, <2>3
  <2>5. NextOf(g, b) = NextOf(h, b)
    BY <1>8, <1>10, <2>1, <2>4, RowFrame DEF NextOf
  <2>6. CASE b = old
    <3>1. old # Null
      BY <1>1, <2>6 DEF Null
    <3>2. g.mem[b + 2] = Link(x)
      BY <1>8, <2>1, <2>3, <2>6, <3>1
    <3>3. InHeap(g, b + 2) /\ x \in Int
      BY <1>1, <1>10, <2>1 DEF InHeap
    <3> QED
      BY <2>5, <2>6, <3>2, <3>3, FollowLink DEF PrevOf
  <2>7. CASE b # old
    <3>1. g.mem[b + 2] = h.mem[b + 2]
      BY <1>6, <1>7, <1>8, <2>1, <2>2, <2>3, <2>7
    <3> QED
      BY <1>8, <1>10, <2>1, <2>5, <2>7, <3>1, RowFrame DEF PrevOf
  <2> QED
    BY <2>6, <2>7
<1> QED
  <2>1. Class(h, x) \in Lists /\ old = h.head[Class(h, x)]
    BY <1>2, <1>4 DEF old
  <2>2. OnlyLinks(h, g, F \cup {x})
    BY <1>11 DEF OnlyLinks
  <2>3. Pushed(h, g, F, x)
    BY <1>4, <1>5, <1>9, <1>12, <1>13, <2>1 DEF Pushed
  <2> QED
    BY <1>4, <1>8, <1>9, <2>1, <2>2, <2>3

LEMMA SizesFrame ==
    ASSUME NEW h \in Heaps, NEW g \in Heaps, NEW F, Spaced(h, F), g.pages = h.pages,
           OnlyLinks(h, g, F), NEW b \in F
    PROVE  SizeAt(g, b) = SizeAt(h, b) /\ Class(g, b) = Class(h, b)
<1>1. b \in Rows /\ InHeap(h, b) /\ ~LinkRow(F, b) /\ b \in Int
  BY LinkRows
<1>2. g.mem[b] = h.mem[b] /\ End(h) <= End(g)
  BY <1>1, EndBounds DEF OnlyLinks, End
<1> QED
  BY <1>1, <1>2, RowFrame DEF Class

LEMMA PushLinked ==
    ASSUME NEW h \in Heaps, NEW F, Linked(h, F), NEW x, x \notin F, Spaced(h, F \cup {x})
    PROVE  /\ Linked(Push(h, x), F \cup {x})
           /\ NoneDropped(h, F) => NoneDropped(Push(h, x), F \cup {x})
<1> DEFINE g == Push(h, x)
           G == F \cup {x}
           l == Class(h, x)
           old == h.head[l]
<1>1. /\ g \in Heaps /\ g.pages = h.pages /\ OnlyLinks(h, g, G) /\ Pushed(h, g, F, x)
      /\ l \in Lists
  BY PushEffect DEF Linked
<1> HIDE DEF g
<1>2. \A b \in G : Class(g, b) = Class(h, b)
  BY <1>1, SizesFrame
<1>3. /\ \A b \in F : NextOf(g, b) = NextOf(h, b)
                      /\ PrevOf(g, b) = IF b = old THEN x ELSE PrevOf(h, b)
      /\ NextOf(g, x) = old /\ PrevOf(g, x) = Null
      /\ \A k \in Lists : g.head[k] = IF k = l THEN x ELSE h.head[k]
  BY <1>1 DEF Pushed
<1>4. old # Null => old \in F /\ Class(h, old) = l /\ PrevOf(h, old) = Null
  BY <1>1 DEF Linked, Heads
<1>5. Null \notin G
  BY DEF Spaced, Null
<1> HIDE DEF l, old
<1>6. Spaced(g, G)
  BY <1>1 DEF Spaced, End
<1>7. Chained(g, G)
  <2> SUFFICES ASSUME NEW b \in G
               PROVE  /\ NextOf(g, b) # Null => NextOf(g, b) \in G /\ PrevOf(g, NextOf(g, b)) = b
                      /\ PrevOf(g, b) # Null => PrevOf(g, b) \in G /\ NextOf(g, PrevOf(g, b)) = b
    BY DEF Chained
  <2>1. CASE b = x
    BY <1>3, <1>4, <2>1
  <2>2. CASE b # x
    <3>1. b \in F
      BY <2>2
    <3>2. /\ NextOf(h, b) # Null => NextOf(h, b) \in F /\ PrevOf(h, NextOf(h, b)) = b
          /\ PrevOf(h, b) # Null => PrevOf(h, b) \in F /\ NextOf(h, PrevOf(h, b)) = b
      BY <3>1 DEF Linked, Strung, Chained
    <3>3. NextOf(h, b) # Null => NextOf(h, b) # old
      BY <1>4, <1>5, <3>2
    <3>4. NextOf(g, b) # Null => NextOf(g, b) \in G /\ PrevOf(g, NextOf(g, b)) = b
      BY <1>3, <3>1, <3>2, <3>3
    <3>5. CASE b = old
      BY <1>3, <3>1, <3>4, <3>5
    <3>6. CASE b # old
      BY <1>3, <3>1, <3>2, <3>4, <3>6
    <3> QED
      BY <3>5, <3>6
  <2> QED
    BY <2>1, <2>2
<1>8. Acyclic(g, G)
  <2> SUFFICES ASSUME NEW S \in SUBSET G, S # {}, \A b \in S : PrevOf(g, b) \in S
               PROVE  FALSE
    BY DEF Acyclic
  <2>1. x \notin S
    BY <1>3, <1>5
  <2>2. S \in SUBSET F
    BY <2>1
  <2>3. \A b \in S : PrevOf(h, b) \in S
    BY <1>3, <2>1, <2>2
  <2> QED
    BY <2>2, <2>3 DEF Linked, Strung, Acyclic
<1>9. Classed(g, G)
  <2> SUFFICES ASSUME NEW b \in G, NextOf(g, b) # Null
               PROVE  Class(g, NextOf(g, b)) = Class(g, b)
    BY DEF Classed
  <2>1. NextOf(g, b) \in G
    BY <1>7 DEF Chained
  <2>2. Class(h, NextOf(g, b)) = Class(h, b)
    <3>1. CASE b = x
      BY <1>3, <1>4, <3>1 DEF l
    <3>2. CASE b # x
      BY <1>3, <3>2 DEF Linked, Classed
    <3> QED
      BY <3>1, <3>2
  <2> QED
    BY <1>2, <2>1, <2>2
<1>10. Heads(g, G)
  <2> SUFFICES ASSUME NEW k \in Lists, g.head[k] # Null
               PROVE  g.head[k] \in G /\ Class(g, g.head[k]) = k /\ PrevOf(g, g.head[k]) = Null
    BY DEF Heads
  <2>1. CASE k = l
    BY <1>2, <1>3, <2>1 DEF l
  <2>2. CASE k # l
    <3>1. /\ g.head[k] = h.head[k] /\ h.head[k] \in F /\ Class(h, h.head[k]) = k
          /\ PrevOf(h, h.head[k]) = Null
      BY <1>3, <2>2 DEF Linked, Heads
    <3>2. h.head[k] # old
      BY <1>4, <2>2, <3>1, <1>5
    <3> QED
      BY <1>2, <1>3, <3>1, <3>2
  <2> QED
    BY <2>1, <2>2
<1>11. ASSUME NoneDropped(h, F) PROVE NoneDropped(g, G)
  <2> SUFFICES ASSUME NEW b \in G, PrevOf(g, b) = Null
               PROVE  g.head[Class(g, b)] = b
    BY DEF NoneDropped
  <2>1. CASE b = x
    BY <1>1, <1>2, <1>3, <2>1 DEF l
  <2>2. CASE b # x
    <3>1. b \in F /\ b # old /\ PrevOf(h, b) = Null
      BY <1>3, <1>5, <2>2
    <3>2. h.head[Class(h, b)] = b
      BY <1>11, <3>1 DEF NoneDropped
    <3>3. Class(h, b) # l
      BY <3>1, <3>2 DEF old
    <3>4. Class(h, b) \in Lists
      BY <3>1, LinkRows, TagTyped, ListOfTyped DEF Class, Linked, Strung
    <3> QED
      BY <1>2, <1>3, <3>2, <3>3, <3>4
  <2> QED
    BY <2>1, <2>2
<1> QED
  BY <1>6, <1>7, <1>8, <1>9, <1>10, <1>11 DEF Linked, Strung, g

\* Blocks that lead past x are of one class if they were before.
LEMMA ClassedWithout ==
    ASSUME NEW h, NEW g, NEW F, Strung(h, F), Classed(h, F), NEW x \in F, Bypassed(h, g, F, x),
           Strung(g, F \ {x}), \A b \in F : b # x => Class(g, b) = Class(h, b)
    PROVE  Classed(g, F \ {x})
<1> SUFFICES ASSUME NEW b \in F, b # x, NextOf(g, b) # Null
             PROVE  Class(g, NextOf(g, b)) = Class(g, b)
  BY DEF Classed
<1>1. NextOf(g, b) \in F /\ NextOf(g, b) # x
  BY DEF Strung, Chained
<1>2. CASE b = PrevOf(h, x)
  <2>1. NextOf(g, b) = NextOf(h, x) /\ NextOf(h, b) = x
    <3>1. b # Null
      BY DEF Strung, Spaced, Null
    <3> QED
      BY <1>2, <3>1 DEF Bypassed, Strung, Chained
  <2>2. x # Null
    BY DEF Strung, Spaced, Null
  <2>3. Class(h, NextOf(h, x)) = Class(h, b)
    BY <2>1, <2>2 DEF Classed
  <2> QED
    BY <1>1, <2>1, <2>3
<1>3. CASE b # PrevOf(h, x)
  BY <1>1, <1>3 DEF Bypassed, Classed
<1> QED
  BY <1>2, <1>3

\* The lists still begin where they should.
LEMMA HeadsWithout ==
    ASSUME NEW h, NEW g, NEW F, Linked(h, F), NEW x \in F, Bypassed(h, g, F, x),
           \A b \in F : b # x => Class(g, b) = Class(h, b),
           \A l \in Lists : \/ g.head[l] = Null
                            \/ h.head[l] # x /\ g.head[l] = h.head[l]
                            \/ h.head[l] = x /\ g.head[l] = NextOf(h, x)
    PROVE  Heads(g, F \ {x})
<1> SUFFICES ASSUME NEW l \in Lists, g.head[l] # Null
             PROVE  /\ g.head[l] \in F \ {x} /\ Class(g, g.head[l]) = l
                    /\ PrevOf(g, g.head[l]) = Null
  BY DEF Heads
<1>1. x # Null /\ NextOf(h, x) # x /\ Null \notin F
  <2>1. Strung(h, F)
    BY DEF Linked
  <2>2. NextOf(h, x) # x
    BY <2>1, OtherNeighbours
  <2> QED
    BY <2>1, <2>2 DEF Strung, Spaced, Null
<1>2. NextOf(h, x) # Null => /\ NextOf(h, x) \in F /\ PrevOf(h, NextOf(h, x)) = x
                             /\ Class(h, NextOf(h, x)) = Class(h, x)
  BY DEF Linked, Strung, Chained, Classed
<1>3. h.head[l] # Null => h.head[l] \in F /\ Class(h, h.head[l]) = l /\ PrevOf(h, h.head[l]) = Null
  BY DEF Linked, Heads
<1>4. CASE h.head[l] # x /\ g.head[l] = h.head[l]
  <2>1. h.head[l] # NextOf(h, x)
    BY <1>1, <1>2, <1>3, <1>4
  <2> QED
    BY <1>3, <1>4, <2>1 DEF Bypassed
<1>5. CASE h.head[l] = x /\ g.head[l] = NextOf(h, x)
  BY <1>1, <1>2, <1>3, <1>5 DEF Bypassed
<1> QED
  BY <1>4, <1>5

LEMMA NoneDroppedWithout ==
    ASSUME NEW h, NEW g, NEW F, Linked(h, F), NoneDropped(h, F), NEW x \in F,
           Bypassed(h, g, F, x),
           \A b \in F : Class(h, b) \in Lists,
           \A b \in F : b # x => Class(g, b) = Class(h, b),
           \A l \in Lists : g.head[l] = IF h.head[l] = x THEN NextOf(h, x) ELSE h.head[l]
    PROVE  NoneDropped(g, F \ {x})
<1> SUFFICES ASSUME NEW b \in F, b # x, PrevOf(g, b) = Null
             PROVE  g.head[Class(g, b)] = b
  BY DEF NoneDropped
<1>1. CASE b = NextOf(h, x)
  <2>1. b # Null
    BY DEF Linked, Strung, Spaced, Null
  <2>2. Class(h, b) = Class(h, x)
    BY <1>1, <2>1 DEF Linked, Classed
  <2>3. PrevOf(h, x) = Null
    BY <1>1 DEF Bypassed
  <2>4. h.head[Class(h, x)] = x
    BY <2>3 DEF NoneDropped
  <2> QED
    BY <1>1, <2>2, <2>4
<1>2. CASE b # NextOf(h, x)
  <2>1. PrevOf(h, b) = Null
    BY <1>2 DEF Bypassed
  <2>2. h.head[Class(h, b)] = b
    BY <2>1 DEF NoneDropped
  <2> QED
    BY <2>2
<1> QED
  BY <1>1, <1>2

\* A block that leads nowhere becomes the only one of its list.
LEMMA AloneLinked ==
    ASSUME NEW h \in Heaps, NEW F, Linked(h, F), NEW x, x \notin F, Spaced(h, F \cup {x}),
           NextOf(h, x) = Null, PrevOf(h, x) = Null
    PROVE  LET g == SetHead(h, Class(h, x), x)
           IN  /\ Linked(g, F \cup {x})
               /\ NoneDropped(h, F) /\ h.head[Class(h, x)] = Null => NoneDropped(g, F \cup {x})
<1> DEFINE l == Class(h, x)
           g == SetHead(h, l, x)
           G == F \cup {x}
<1>1. x \in Int /\ l \in Lists /\ Null \notin G
  <2>1. x \in Int /\ Null \notin G
    BY DEF Spaced, Null
  <2> QED
    BY <2>1, TagTyped, ListOfTyped DEF Class
<1> HIDE DEF l
<1>2. /\ g \in Heaps /\ g.mem = h.mem /\ g.pages = h.pages
      /\ \A k \in Lists : g.head[k] = IF k = l THEN x ELSE h.head[k]
  BY <1>1, SetHeadEffect
<1> HIDE DEF g
<1>3. \A a : Follow(g, a) = Follow(h, a) /\ TagAt(g, a) = TagAt(h, a)
  BY <1>2 DEF Follow, TagAt, IsTag, InHeap, End
<1>4. /\ \A b : NextOf(g, b) = NextOf(h, b)
      /\ \A b : PrevOf(g, b) = PrevOf(h, b)
      /\ \A b : Class(g, b) = Class(h, b)
  BY <1>3 DEF NextOf, PrevOf, Class, SizeAt
<1>5. Spaced(g, G)
  BY <1>2 DEF Spaced, End
<1>6. Chained(g, G)
  BY <1>4 DEF Linked, Strung, Chained
<1>7. Acyclic(g, G)
  <2> SUFFICES ASSUME NEW S \in SUBSET G, S # {}, \A b \in S : PrevOf(g, b) \in S
               PROVE  FALSE
    BY DEF Acyclic
  <2>1. x \notin S
    BY <1>1, <1>4
  <2>2. S \in SUBSET F /\ \A b \in S : PrevOf(h, b) \in S
    BY <1>4, <2>1
  <2> QED
    BY <2>2 DEF Linked, Strung, Acyclic
<1>8. Classed(g, G)
  BY <1>4 DEF Linked, Classed
<1>9. Heads(g, G)
  BY <1>2, <1>4 DEF Linked, Heads, l
<1>10. ASSUME NoneDropped(h, F), h.head[l] = Null PROVE NoneDropped(g, G)
  <2> SUFFICES ASSUME NEW b \in G, PrevOf(g, b) = Null
               PROVE  g.head[Class(g, b)] = b
    BY DEF NoneDropped
  <2>1. CASE b = x
    BY <1>1, <1>2, <1>4, <2>1 DEF l
  <2>2. CASE b # x
    <3>1. h.head[Class(h, b)] = b /\ b \in F
      BY <1>4, <1>10, <2>2 DEF NoneDropped
    <3>2. Class(h, b) # l /\ Class(h, b) \in Lists
      <4>1. Class(h, b) # l
        BY <1>1, <1>10, <3>1
      <4> QED
        BY <3>1, <4>1, LinkRows, TagTyped, ListOfTyped DEF Class, Linked, Strung
    <3> QED
      BY <1>2, <1>4, <3>1, <3>2
  <2> QED
    BY <2>1, <2>2
<1> QED
  BY <1>5, <1>6, <1>7, <1>8, <1>9, <1>10 DEF Linked, Strung, g, l

\* Nothing that does not touch the headers and the links of linked blocks, nor the
\* lists, brings them out of order.
LEMMA LinkedFrame ==
    ASSUME NEW h \in Heaps, NEW g \in Heaps, NEW F, Linked(h, F), End(h) <= End(g),
           g.head = h.head, \A b \in F : g.mem[b] = h.mem[b],
           \A a \in Rows : LinkRow(F, a) => g.mem[a] = h.mem[a]
    PROVE  Linked(g, F) /\ (NoneDropped(h, F) => NoneDropped(g, F))
<1>1. Strung(g, F) /\ \A b \in F : NextOf(g, b) = NextOf(h, b) /\ PrevOf(g, b) = PrevOf(h, b)
  BY StrungFrame DEF Linked
<1>2. \A b \in F : Class(g, b) = Class(h, b)
  <2> SUFFICES ASSUME NEW b \in F PROVE Class(g, b) = Class(h, b)
    OBVIOUS
  <2>1. b \in Int /\ InHeap(h, b)
    BY LinkRows DEF Linked, Strung
  <2> QED
    BY <2>1, RowFrame DEF Class
<1>3. Classed(g, F)
  BY <1>1, <1>2 DEF Linked, Classed, Strung, Chained
<1>4. Heads(g, F)
  BY <1>1, <1>2 DEF Linked, Heads
<1>5. NoneDropped(h, F) => NoneDropped(g, F)
  BY <1>1, <1>2 DEF NoneDropped
<1> QED
  BY <1>1, <1>3, <1>4, <1>5 DEF Linked

\* A block leaves its list.
Unlisted(h, x) ==
    IF h.head[Class(h, x)] = x THEN SetHead(Unlink(h, x), Class(h, x), NextOf(h, x))
    ELSE Unlink(h, x)

LEMMA UnlistedLinked ==
    ASSUME NEW h \in Heaps, NEW F, Linked(h, F), NEW x \in F
    PROVE  LET g == Unlisted(h, x)
           IN  /\ g \in Heaps /\ g.pages = h.pages /\ g.fault = h.fault /\ g.slips = h.slips
               /\ OnlyLinks(h, g, F \ {x})
               /\ Linked(g, F \ {x}) /\ (NoneDropped(h, F) => NoneDropped(g, F \ {x}))
<1> DEFINE u == Unlink(h, x)
           g == Unlisted(h, x)
           l == Class(h, x)
<1>0. Strung(h, F) /\ Spaced(h, F)
  BY DEF Linked, Strung
<1>1. /\ u \in Heaps /\ OnlyMem(h, u) /\ OnlyLinks(h, u, F \ {x}) /\ Bypassed(h, u, F, x)
  BY <1>0, UnlinkEffect
<1>2. Strung(u, F \ {x})
  BY <1>0, UnlinkStrung
<1>3. \A b \in F : b \in Int /\ Class(h, b) \in Lists
  BY <1>0, LinkRows, TagTyped, ListOfTyped DEF Class
<1>4. g = IF h.head[l] = x THEN SetHead(u, l, NextOf(h, x)) ELSE u
  BY DEF Unlisted
<1>5. l \in Lists /\ NextOf(h, x) \in Int
  BY <1>3, LinksTyped
<1> HIDE DEF u, g, l
<1>6. \A k \in Lists : k # l => h.head[k] # x
  <2>1. x # Null
    BY <1>0 DEF Spaced, Null
  <2> QED
    BY <2>1 DEF Linked, Heads, l
<1>7. /\ g \in Heaps /\ g.pages = h.pages /\ g.fault = h.fault /\ g.slips = h.slips
      /\ g.mem = u.mem
      /\ \A k \in Lists : g.head[k] = IF h.head[k] = x THEN NextOf(h, x) ELSE h.head[k]
  <2>1. CASE h.head[l] = x
    BY <1>1, <1>4, <1>5, <1>6, <2>1, SetHeadEffect DEF OnlyMem
  <2>2. CASE h.head[l] # x
    BY <1>1, <1>4, <1>6, <2>2 DEF OnlyMem
  <2> QED
    BY <2>1, <2>2
<1>8. OnlyLinks(h, g, F \ {x})
  BY <1>1, <1>7 DEF OnlyLinks
<1>9. End(u) <= End(g) /\ End(u) = End(g)
  BY <1>1, <1>7, EndBounds DEF OnlyMem, End
<1>10. /\ Strung(g, F \ {x})
       /\ \A b \in F \ {x} : NextOf(g, b) = NextOf(u, b) /\ PrevOf(g, b) = PrevOf(u, b)
  BY <1>1, <1>2, <1>7, <1>9, StrungFrame
<1>11. Bypassed(h, g, F, x)
  BY <1>1, <1>10 DEF Bypassed
<1>12. \A b \in F : b # x => Class(g, b) = Class(h, b)
  <2>1. Spaced(h, F \ {x})
    BY <1>0 DEF Spaced
  <2> QED
    BY <1>7, <1>8, <2>1, SizesFrame
<1>13. Classed(g, F \ {x})
  BY <1>0, <1>10, <1>11, <1>12, ClassedWithout DEF Linked
<1>14. Heads(g, F \ {x})
  BY <1>7, <1>11, <1>12, HeadsWithout, ZenonT(60)
<1>15. NoneDropped(h, F) => NoneDropped(g, F \ {x})
  BY <1>3, <1>7, <1>11, <1>12, NoneDroppedWithout
<1> QED
  BY <1>7, <1>8, <1>10, <1>13, <1>14, <1>15 DEF Linked, g

LEMMA WriteTagsEffect ==
    ASSUME NEW h \in Heaps, NEW b \in Int, NEW header \in Tags, NEW footer \in Tags,
           InHeap(h, b), InHeap(h, b + header.size - 1), header.size >= MinBlock
    PROVE  LET g == WriteTags(h, b, header, footer)
           IN  /\ g \in Heaps /\ OnlyMem(h, g)
               /\ b \in Rows /\ b + header.size - 1 \in Rows
               /\ g.mem[b] = header /\ g.mem[b + header.size - 1] = footer
               /\ \A r \in Rows : r # b /\ r # b + header.size - 1 => g.mem[r] = h.mem[r]
<1> DEFINE f == b + header.size - 1
           w == Write(h, b, header)
           g == WriteTags(h, b, header, footer)
<1>1. header \in Contents /\ footer \in Contents /\ f \in Int /\ f # b
  <2>1. header \in Contents /\ footer \in Contents
    BY RowKinds
  <2>2. header.size \in Nat
    BY DEF Tags
  <2> QED
    BY <2>1, <2>2 DEF MinBlock
<1>2. /\ w \in Heaps /\ OnlyMem(h, w)
      /\ \A r \in Rows : w.mem[r] = IF r = b THEN header ELSE h.mem[r]
  BY <1>1, WriteEffect
<1>3. g = Write(w, f, footer)
  BY DEF WriteTags
<1>4. b \in Rows /\ f \in Rows /\ InHeap(h, f)
  BY <1>1, RowsInHeap
<1> HIDE DEF f, w, g
<1>5. InHeap(w, f)
  BY <1>2, <1>4 DEF InHeap, OnlyMem, End
<1>6. /\ g \in Heaps /\ OnlyMem(w, g)
      /\ \A r \in Rows : g.mem[r] = IF r = f THEN footer ELSE w.mem[r]
  BY <1>1, <1>2, <1>3, <1>5, WriteEffect
<1>7. OnlyMem(h, g)
  BY <1>2, <1>6 DEF OnlyMem
<1> QED
  BY <1>1, <1>2, <1>4, <1>6, <1>7 DEF f, g

\* From h to g the rows from left on have become a free block of size s, and besides
\* them only links of G have been written.
Coalesced(h, g, G, left, s) ==
    /\ left \in Rows /\ left + s - 1 \in Rows
    /\ g.mem[left] = FreeTag(s) /\ g.mem[left + s - 1] = FreeTag(s)
    /\ \A a \in Rows : a # left /\ a # left + s - 1 /\ ~LinkRow(G, a) => g.mem[a] = h.mem[a]

\* The listed block leaves its list, and the two are one free block, the first of
\* its list.
Joinable(h, F, left, right, listed, s) ==
    /\ listed \in F /\ left \in Nat /\ right \in Int /\ s \in Nat
    /\ s = SizeAt(h, left) + SizeAt(h, right) /\ s >= MinBlock /\ left + s <= End(h)
    /\ left \notin F \ {listed} /\ Spaced(h, (F \ {listed}) \cup {left})
    /\ \A b \in F \ {listed} : left + s - 1 # b /\ ~LinkRow(F \ {listed}, left + s - 1)

LEMMA CoalesceLinked ==
    ASSUME NEW h \in Heaps, NEW F, Linked(h, F), NEW left, NEW right, NEW listed, NEW s,
           Joinable(h, F, left, right, listed, s), NEW G, G = (F \ {listed}) \cup {left}
    PROVE  LET g == Coalesce(h, left, right, listed)
           IN  /\ g \in Heaps /\ g.pages = h.pages /\ g.fault = h.fault /\ g.slips = h.slips
               /\ Linked(g, G) /\ (NoneDropped(h, F) => NoneDropped(g, G))
               /\ Coalesced(h, g, G, left, s)
<1> DEFINE P == F \ {listed}
           u == Unlisted(h, listed)
           w == WriteTags(u, left, FreeTag(s), FreeTag(s))
           g == Push(w, left)
           f == left + s - 1
<1>0. /\ listed \in F /\ left \in Nat /\ right \in Int /\ s \in Nat
      /\ s = SizeAt(h, left) + SizeAt(h, right) /\ s >= MinBlock /\ left + s <= End(h)
      /\ left \notin P /\ Spaced(h, G)
      /\ \A b \in P : f # b /\ ~LinkRow(P, f)
  BY DEF Joinable
<1>1. Coalesce(h, left, right, listed) = g
  BY <1>0 DEF Coalesce, Unlisted, Class
<1>2. /\ u \in Heaps /\ u.pages = h.pages /\ u.fault = h.fault /\ u.slips = h.slips
      /\ OnlyLinks(h, u, P) /\ Linked(u, P) /\ (NoneDropped(h, F) => NoneDropped(u, P))
  BY <1>0, UnlistedLinked
<1>3. FreeTag(s) \in Tags /\ FreeTag(s).size = s
  BY <1>0, RowKinds DEF FreeTag, Tag
<1>4. End(h) \in Nat /\ End(u) = End(h)
  BY <1>2, EndBounds DEF End
<1>5. f \in Int /\ InHeap(u, left) /\ InHeap(u, f) /\ f >= left + 3
  BY <1>0, <1>4 DEF InHeap, MinBlock
<1>6. Spaced(h, G) /\ Spaced(u, G) /\ left \notin P
  <2>1. Spaced(h, G) /\ left \notin P
    BY <1>0
  <2> QED
    BY <1>4, <2>1 DEF Spaced
<1>7. /\ ~LinkRow(G, left) /\ ~LinkRow(G, f) /\ (\A b \in P : f # b)
  <2>1. ~LinkRow(G, left)
    BY <1>6, LinkRows
  <2>2. f # left + 1 /\ f # left + 2
    BY <1>0, <1>5
  <2>3. P # {} => ~LinkRow(P, f)
    BY <1>0
  <2>4. \A b \in P : f # b
    BY <1>0
  <2> QED
    BY <2>1, <2>2, <2>3, <2>4 DEF LinkRow
<1> HIDE DEF u
<1>8. /\ w \in Heaps /\ OnlyMem(u, w)
      /\ left \in Rows /\ f \in Rows
      /\ w.mem[left] = FreeTag(s) /\ w.mem[f] = FreeTag(s)
      /\ \A r \in Rows : r # left /\ r # f => w.mem[r] = u.mem[r]
  <2> HIDE DEF w
  <2>1. w = WriteTags(u, left, FreeTag(s), FreeTag(s))
    BY DEF w
  <2>2. FreeTag(s).size >= MinBlock /\ InHeap(u, left + FreeTag(s).size - 1) /\ left \in Int
    BY <1>0, <1>3, <1>5
  <2>3. /\ w \in Heaps /\ OnlyMem(u, w)
        /\ left \in Rows /\ left + FreeTag(s).size - 1 \in Rows
        /\ w.mem[left] = FreeTag(s) /\ w.mem[left + FreeTag(s).size - 1] = FreeTag(s)
        /\ \A r \in Rows : r # left /\ r # left + FreeTag(s).size - 1 => w.mem[r] = u.mem[r]
    BY <1>2, <1>3, <1>5, <2>1, <2>2, WriteTagsEffect
  <2> QED
    BY <1>3, <2>3
<1> HIDE DEF w, f
<1>9. End(w) = End(u) /\ End(u) <= End(w) /\ w.head = u.head
  BY <1>2, <1>8, EndBounds DEF OnlyMem, End
<1>10. Linked(w, P) /\ (NoneDropped(u, P) => NoneDropped(w, P))
  <2>1. \A b \in P : b \in Rows /\ b # left /\ b # f
    <3>1. Spaced(u, P)
      BY <1>2 DEF Linked, Strung
    <3> QED
      BY <1>2, <1>6, <1>7, <3>1, LinkRows
  <2>2. \A b \in P : w.mem[b] = u.mem[b]
    BY <1>8, <2>1
  <2>3. \A a \in Rows : LinkRow(P, a) => w.mem[a] = u.mem[a]
    <3>1. \A a \in Rows : LinkRow(P, a) => a # left /\ a # f
      BY <1>7 DEF LinkRow
    <3> QED
      BY <1>8, <3>1
  <2> HIDE DEF P
  <2> QED
    BY <1>2, <1>8, <1>9, <2>2, <2>3, LinkedFrame
<1>11. Spaced(w, G)
  BY <1>6, <1>9 DEF Spaced
<1>12. Linked(g, G) /\ (NoneDropped(w, P) => NoneDropped(g, G))
  <2>1. G = P \cup {left}
    OBVIOUS
  <2> HIDE DEF P, g
  <2>2. Spaced(w, P \cup {left}) /\ Linked(w, P) /\ left \notin P /\ w \in Heaps
    BY <1>6, <1>8, <1>10, <1>11, <2>1
  <2>3. /\ Linked(Push(w, left), P \cup {left})
        /\ (NoneDropped(w, P) => NoneDropped(Push(w, left), P \cup {left}))
    BY <2>2, PushLinked
  <2> QED
    BY <2>1, <2>3 DEF g
<1>13. /\ g \in Heaps /\ g.pages = w.pages /\ g.fault = w.fault /\ g.slips = w.slips
       /\ OnlyLinks(w, g, G)
  <2>1. Strung(w, P) /\ Heads(w, P)
    BY <1>10 DEF Linked
  <2>2. G = P \cup {left}
    OBVIOUS
  <2> HIDE DEF P, g
  <2>3. Spaced(w, P \cup {left}) /\ left \notin P /\ w \in Heaps
    BY <1>6, <1>8, <1>11, <2>2
  <2>4. /\ Push(w, left) \in Heaps /\ Push(w, left).pages = w.pages
        /\ Push(w, left).fault = w.fault /\ Push(w, left).slips = w.slips
        /\ OnlyLinks(w, Push(w, left), P \cup {left})
    BY <2>1, <2>3, PushEffect
  <2> QED
    BY <2>2, <2>4 DEF g
<1> HIDE DEF g
<1>14. g.mem[left] = FreeTag(s) /\ g.mem[f] = FreeTag(s)
  BY <1>7, <1>8, <1>13 DEF OnlyLinks
<1>15. \A a \in Rows : a # left /\ a # f /\ ~LinkRow(G, a) => g.mem[a] = h.mem[a]
  <2> SUFFICES ASSUME NEW a \in Rows, a # left, a # f, ~LinkRow(G, a) PROVE g.mem[a] = h.mem[a]
    OBVIOUS
  <2>1. ~LinkRow(P, a)
    BY DEF LinkRow
  <2> QED
    BY <1>2, <1>8, <1>13, <2>1 DEF OnlyLinks
<1>16. g.pages = h.pages /\ g.fault = h.fault /\ g.slips = h.slips
  BY <1>2, <1>8, <1>13 DEF OnlyMem
<1>17. Coalesced(h, g, G, left, s)
  BY <1>8, <1>14, <1>15 DEF Coalesced, f
<1> QED
  BY <1>1, <1>2, <1>10, <1>12, <1>13, <1>16, <1>17

-----------------------------------------------------------------------------
(* Blocks *)

LEMMA BlockRows ==
    ASSUME NEW h \in Heaps, NEW B, Tiled(h, B), NEW b \in B
    PROVE  /\ b \in Nat /\ Aligned(b) /\ SizeAt(h, b) \in Nat /\ SizeAt(h, b) >= 4
           /\ Aligned(SizeAt(h, b)) /\ b + SizeAt(h, b) <= End(h)
           /\ Foot(h, b) = b + SizeAt(h, b) - 1 /\ Foot(h, b) \in Nat
           /\ Extent(h, b) \subseteq Rows
           /\ b \in Extent(h, b) /\ b + 1 \in Extent(h, b) /\ b + 2 \in Extent(h, b)
           /\ Foot(h, b) \in Extent(h, b)
           /\ b \in Rows /\ Foot(h, b) \in Rows
           /\ Foot(h, b) # b /\ Foot(h, b) # b + 1 /\ Foot(h, b) # b + 2
           /\ IsTag(h, b) /\ IsTag(h, Foot(h, b)) /\ InHeap(h, b) /\ InHeap(h, Foot(h, b))
<1>1. b \in Nat /\ Aligned(b) /\ BlockOf(h, b) /\ Closed(h, b)
  BY DEF Tiled
<1>2. SizeAt(h, b) \in Nat /\ Foot(h, b) = b + SizeAt(h, b) - 1
  BY <1>1, TagTyped
<1>3. /\ SizeAt(h, b) >= 4 /\ Aligned(SizeAt(h, b)) /\ b + SizeAt(h, b) <= End(h)
      /\ IsTag(h, b) /\ IsTag(h, Foot(h, b))
  BY <1>1 DEF BlockOf, Closed, MinBlock
<1>4. Foot(h, b) \in Nat /\ Foot(h, b) >= b + 3 /\ Foot(h, b) < End(h)
  BY <1>1, <1>2, <1>3, EndBounds
<1>5. End(h) \in Nat /\ PageSize * MaxPages \in Nat /\ End(h) <= PageSize * MaxPages
  BY EndBounds
<1>6. Extent(h, b) \subseteq Rows
  BY <1>1, <1>4, <1>5 DEF Extent, Rows
<1>7. b \in Extent(h, b) /\ b + 1 \in Extent(h, b) /\ b + 2 \in Extent(h, b)
      /\ Foot(h, b) \in Extent(h, b)
  BY <1>1, <1>4 DEF Extent
<1>8. Foot(h, b) # b /\ Foot(h, b) # b + 1 /\ Foot(h, b) # b + 2
  BY <1>1, <1>4
<1> QED
  BY <1>1, <1>2, <1>3, <1>4, <1>6, <1>7, <1>8 DEF IsTag

LEMMA BlocksApart ==
    ASSUME NEW h \in Heaps, NEW B, Tiled(h, B), NEW b \in B, NEW c \in B, b # c,
           NEW a \in Extent(h, b)
    PROVE  a \notin Extent(h, c)
<1>1. /\ b \in Nat /\ SizeAt(h, b) \in Nat /\ Foot(h, b) = b + SizeAt(h, b) - 1
      /\ c \in Nat /\ SizeAt(h, c) \in Nat /\ Foot(h, c) = c + SizeAt(h, c) - 1
  BY BlockRows
<1>2. (b < c => b + SizeAt(h, b) <= c) /\ (c < b => c + SizeAt(h, c) <= b)
  BY DEF Tiled
<1> QED
  BY <1>1, <1>2 DEF Extent

\* A row of a block is a link of that block or none.
LEMMA LinkRowOf ==
    ASSUME NEW h \in Heaps, NEW B, Tiled(h, B), NEW b \in B, NEW a \in Extent(h, b),
           NEW F \in SUBSET B, LinkRow(F, a)
    PROVE  b \in F /\ (a = b + 1 \/ a = b + 2)
<1>1. PICK c \in F : a = c + 1 \/ a = c + 2
  BY DEF LinkRow
<1>2. a \in Extent(h, c)
  BY <1>1, BlockRows
<1>3. b = c
  BY <1>2, BlocksApart
<1> QED
  BY <1>1, <1>3

LEMMA TagsNoLinks ==
    ASSUME NEW h \in Heaps, NEW B, Tiled(h, B), NEW b \in B, NEW F \in SUBSET B
    PROVE  ~LinkRow(F, b) /\ ~LinkRow(F, Foot(h, b))
<1>1. /\ b \in Extent(h, b) /\ Foot(h, b) \in Extent(h, b) /\ b \in Nat
      /\ Foot(h, b) # b + 1 /\ Foot(h, b) # b + 2 /\ b # b + 1 /\ b # b + 2
  BY BlockRows
<1> QED
  BY <1>1, LinkRowOf

LEMMA BlocksSpaced ==
    ASSUME NEW h \in Heaps, NEW B, Tiled(h, B), NEW F \in SUBSET B
    PROVE  Spaced(h, F)
<1>1. \A b \in F : b \in Nat /\ Aligned(b) /\ b + 4 <= End(h)
  <2> SUFFICES ASSUME NEW b \in F PROVE b \in Nat /\ Aligned(b) /\ b + 4 <= End(h)
    OBVIOUS
  <2>1. /\ b \in Nat /\ Aligned(b) /\ SizeAt(h, b) \in Nat /\ SizeAt(h, b) >= 4
        /\ b + SizeAt(h, b) <= End(h) /\ End(h) \in Nat
    BY BlockRows, EndBounds
  <2> QED
    BY <2>1
<1>2. ASSUME NEW b \in F, NEW c \in F, b < c PROVE b + 4 <= c
  <2>1. b \in Nat /\ c \in Nat /\ SizeAt(h, b) \in Nat /\ SizeAt(h, b) >= 4
    BY BlockRows
  <2>2. b + SizeAt(h, b) <= c
    BY <1>2 DEF Tiled
  <2> QED
    BY <2>1, <2>2
<1> QED
  BY <1>1, <1>2 DEF Spaced, MinBlock

\* A block whose tags are not written is the same block.
LEMMA BlockFrame ==
    ASSUME NEW h \in Heaps, NEW g \in Heaps, NEW B, Tiled(h, B), End(h) <= End(g), NEW b \in B,
           g.mem[b] = h.mem[b], g.mem[Foot(h, b)] = h.mem[Foot(h, b)]
    PROVE  /\ BlockOf(g, b) /\ Closed(g, b)
           /\ SizeAt(g, b) = SizeAt(h, b) /\ Foot(g, b) = Foot(h, b)
           /\ TagAt(g, b) = TagAt(h, b) /\ TagAt(g, Foot(g, b)) = TagAt(h, Foot(h, b))
           /\ Valid(h, b) = Valid(g, b)
<1>1. b \in Int /\ Foot(h, b) \in Int /\ InHeap(h, b) /\ InHeap(h, Foot(h, b))
      /\ b + SizeAt(h, b) \in Int
  BY BlockRows
<1>2. BlockOf(h, b) /\ Closed(h, b)
  BY DEF Tiled
<1>3. /\ IsTag(g, b) = IsTag(h, b) /\ TagAt(g, b) = TagAt(h, b) /\ SizeAt(g, b) = SizeAt(h, b)
      /\ Foot(g, b) = Foot(h, b)
  BY <1>1, RowFrame
<1>4. IsTag(g, Foot(h, b)) = IsTag(h, Foot(h, b)) /\ TagAt(g, Foot(h, b)) = TagAt(h, Foot(h, b))
  BY <1>1, RowFrame
<1>5. End(h) \in Nat /\ End(g) \in Nat
  BY EndBounds
<1>6. BlockOf(g, b)
  BY <1>1, <1>2, <1>3, <1>5 DEF BlockOf
<1>7. Closed(g, b)
  BY <1>2, <1>3, <1>4 DEF Closed
<1>8. Valid(h, b) = Valid(g, b)
  BY <1>3, <1>4 DEF Valid
<1> QED
  BY <1>3, <1>4, <1>6, <1>7, <1>8

\* The blocks A have the tags they had.
SameBlocks(h, g, A) ==
    \A c \in A :
        /\ SizeAt(g, c) = SizeAt(h, c) /\ Foot(g, c) = Foot(h, c)
        /\ TagAt(g, c) = TagAt(h, c) /\ TagAt(g, Foot(g, c)) = TagAt(h, Foot(h, c))
        /\ Valid(h, c) = Valid(g, c)

\* Two tags make a block.
LEMMA NewBlock ==
    ASSUME NEW g \in Heaps, NEW b \in Nat, NEW header \in Tags, NEW footer \in Tags,
           header.size >= MinBlock, Aligned(header.size), b + header.size <= End(g),
           footer.size = header.size, footer.allocated = header.allocated,
           header.allocated => footer.padded = header.padded,
           g.mem[b] = header, g.mem[b + header.size - 1] = footer
    PROVE  /\ BlockOf(g, b) /\ Closed(g, b)
           /\ SizeAt(g, b) = header.size /\ Foot(g, b) = b + header.size - 1
           /\ TagAt(g, b) = header /\ TagAt(g, Foot(g, b)) = footer
<1>1. header.size \in Nat /\ header.kind = "tag" /\ footer.kind = "tag"
  BY DEF Tags
<1>2. End(g) \in Nat
  BY EndBounds
<1>3. InHeap(g, b) /\ InHeap(g, b + header.size - 1)
  BY <1>1, <1>2 DEF InHeap, MinBlock
<1>4. IsTag(g, b) /\ IsTag(g, b + header.size - 1)
  BY <1>1, <1>3 DEF IsTag
<1>5. TagAt(g, b) = header /\ TagAt(g, b + header.size - 1) = footer
  BY <1>4 DEF TagAt
<1>6. SizeAt(g, b) = header.size /\ Foot(g, b) = b + header.size - 1
  BY <1>5 DEF SizeAt, Foot
<1>7. BlockOf(g, b)
  BY <1>4, <1>6 DEF BlockOf
<1>8. Closed(g, b)
  BY <1>4, <1>5, <1>6 DEF Closed
<1> QED
  BY <1>5, <1>6, <1>7, <1>8

LEMMA FreesAndAllocs ==
    ASSUME NEW h \in Heaps, NEW B
    PROVE  /\ Frees(h, B) \in SUBSET B /\ Allocs(h, B) \in SUBSET B
           /\ Frees(h, B) \cup Allocs(h, B) = B /\ Frees(h, B) \cap Allocs(h, B) = {}
BY DEF Frees, Allocs

\* Two tags that agree.
Pair(header, footer, size) ==
    /\ header \in Tags /\ footer \in Tags
    /\ header.size = size /\ footer.size = size
    /\ footer.allocated = header.allocated
    /\ header.allocated => footer.padded = header.padded

\* The tags of a block are written anew, for the same size.
Retagged(h, g, B, b, header, footer) ==
    /\ End(g) = End(h) /\ b \in B /\ Pair(header, footer, SizeAt(h, b))
    /\ g.mem[b] = header /\ g.mem[Foot(h, b)] = footer
    /\ \A c \in B : c # b => g.mem[c] = h.mem[c] /\ g.mem[Foot(h, c)] = h.mem[Foot(h, c)]

LEMMA RetagTiled ==
    ASSUME NEW h \in Heaps, NEW g \in Heaps, NEW B, Tiled(h, B), NEW b, NEW header, NEW footer,
           Retagged(h, g, B, b, header, footer)
    PROVE  /\ Tiled(g, B)
           /\ TagAt(g, b) = header /\ TagAt(g, Foot(g, b)) = footer
           /\ \A c \in B : SizeAt(g, c) = SizeAt(h, c) /\ Foot(g, c) = Foot(h, c)
           /\ SameBlocks(h, g, B \ {b})
<1>0. /\ End(h) \in Nat /\ End(h) <= End(g) /\ b \in B
      /\ \A c \in B : c # b => g.mem[c] = h.mem[c] /\ g.mem[Foot(h, c)] = h.mem[Foot(h, c)]
  BY EndBounds DEF Retagged
<1>1. /\ b \in Nat /\ SizeAt(h, b) >= 4 /\ Aligned(SizeAt(h, b)) /\ b + SizeAt(h, b) <= End(h)
      /\ Foot(h, b) = b + SizeAt(h, b) - 1
  BY <1>0, BlockRows
<1>2. /\ BlockOf(g, b) /\ Closed(g, b)
      /\ SizeAt(g, b) = header.size /\ Foot(g, b) = b + header.size - 1
      /\ TagAt(g, b) = header /\ TagAt(g, Foot(g, b)) = footer
  <2>1. /\ header \in Tags /\ footer \in Tags /\ header.size = SizeAt(h, b)
        /\ footer.size = header.size
        /\ footer.allocated = header.allocated
        /\ header.allocated => footer.padded = header.padded
        /\ End(g) = End(h) /\ g.mem[b] = header /\ g.mem[Foot(h, b)] = footer
    BY DEF Retagged, Pair
  <2> QED
    BY <1>1, <2>1, NewBlock DEF MinBlock
<1>3. ASSUME NEW c \in B, c # b
      PROVE  /\ BlockOf(g, c) /\ Closed(g, c)
             /\ SizeAt(g, c) = SizeAt(h, c) /\ Foot(g, c) = Foot(h, c)
             /\ TagAt(g, c) = TagAt(h, c) /\ TagAt(g, Foot(g, c)) = TagAt(h, Foot(h, c))
             /\ Valid(h, c) = Valid(g, c)
  <2>1. g.mem[c] = h.mem[c] /\ g.mem[Foot(h, c)] = h.mem[Foot(h, c)]
    BY <1>0, <1>3
  <2> QED
    BY <1>0, <2>1, BlockFrame
<1>4. \A c \in B : SizeAt(g, c) = SizeAt(h, c) /\ Foot(g, c) = Foot(h, c)
  <2>1. header.size = SizeAt(h, b)
    BY DEF Retagged, Pair
  <2> QED
    BY <1>1, <1>2, <1>3, <2>1
<1>5. \A c \in B : BlockOf(g, c) /\ Closed(g, c)
  BY <1>2, <1>3
<1>6. Tiled(g, B)
  BY <1>4, <1>5 DEF Tiled, Retagged
<1>7. SameBlocks(h, g, B \ {b})
  BY <1>3 DEF SameBlocks
<1> QED
  BY <1>2, <1>4, <1>6, <1>7

\* A block is cut in two, the first of n rows.
Cut(h, g, B, b, n, t1, t2, t3, t4) ==
    /\ End(g) = End(h) /\ b \in B
    /\ n \in Nat /\ n >= MinBlock /\ Aligned(n) /\ SizeAt(h, b) - n >= MinBlock
    /\ Pair(t1, t2, n) /\ Pair(t3, t4, SizeAt(h, b) - n)
    /\ g.mem[b] = t1 /\ g.mem[b + n - 1] = t2 /\ g.mem[b + n] = t3 /\ g.mem[Foot(h, b)] = t4
    /\ \A c \in B : c # b => g.mem[c] = h.mem[c] /\ g.mem[Foot(h, c)] = h.mem[Foot(h, c)]

LEMMA SplitTiled ==
    ASSUME NEW h \in Heaps, NEW g \in Heaps, NEW B, Tiled(h, B), NEW b, NEW n,
           NEW t1, NEW t2, NEW t3, NEW t4, Cut(h, g, B, b, n, t1, t2, t3, t4)
    PROVE  /\ b + n \notin B /\ b + n \in Rows /\ Tiled(g, B \cup {b + n})
           /\ SizeAt(g, b) = n /\ Foot(g, b) = b + n - 1
           /\ SizeAt(g, b + n) = SizeAt(h, b) - n /\ Foot(g, b + n) = Foot(h, b)
           /\ TagAt(g, b) = t1 /\ TagAt(g, Foot(g, b)) = t2
           /\ TagAt(g, b + n) = t3 /\ TagAt(g, Foot(g, b + n)) = t4
           /\ SameBlocks(h, g, B \ {b})
<1> DEFINE r == b + n
           m == SizeAt(h, b) - n
           C == B \cup {r}
<1> /\ End(g) = End(h) /\ b \in B
    /\ n \in Nat /\ n >= MinBlock /\ Aligned(n) /\ SizeAt(h, b) - n >= MinBlock
    /\ t1 \in Tags /\ t2 \in Tags /\ t3 \in Tags /\ t4 \in Tags
    /\ t1.size = n /\ t2.size = n /\ t2.allocated = t1.allocated
    /\ t1.allocated => t2.padded = t1.padded
    /\ t3.size = SizeAt(h, b) - n /\ t4.size = t3.size
    /\ t4.allocated = t3.allocated /\ (t3.allocated => t4.padded = t3.padded)
    /\ g.mem[b] = t1 /\ g.mem[b + n - 1] = t2 /\ g.mem[b + n] = t3 /\ g.mem[Foot(h, b)] = t4
    /\ \A c \in B : c # b => g.mem[c] = h.mem[c] /\ g.mem[Foot(h, c)] = h.mem[Foot(h, c)]
  BY DEF Cut, Pair
<1>0. End(h) \in Nat /\ End(h) <= End(g)
  BY EndBounds
<1>1. /\ b \in Nat /\ SizeAt(h, b) \in Nat /\ Aligned(SizeAt(h, b)) /\ Aligned(b)
      /\ b + SizeAt(h, b) <= End(h)
      /\ Foot(h, b) = b + SizeAt(h, b) - 1 /\ Extent(h, b) \subseteq Rows
  BY BlockRows
<1>2. /\ r \in Nat /\ m \in Nat /\ Foot(h, b) = r + m - 1 /\ r + m <= End(h) /\ b < r
      /\ b + n <= End(g) /\ r + m = b + SizeAt(h, b) /\ m >= 4 /\ r < b + SizeAt(h, b)
  BY <1>0, <1>1 DEF MinBlock
<1>3. Aligned(r) /\ Aligned(m)
  <2>1. b \in Int /\ n \in Int /\ SizeAt(h, b) \in Int
        /\ Aligned(b) /\ Aligned(n) /\ Aligned(SizeAt(h, b))
    BY <1>1
  <2>2. \A x, y \in Int : Aligned(x) /\ Aligned(y) => Aligned(x + y) /\ Aligned(x - y)
    BY AlignedSum
  <2> QED
    BY <2>1, <2>2
<1>4. r \in Extent(h, b) /\ r # b
  BY <1>1, <1>2 DEF Extent
<1>5. r \notin B
  <2> SUFFICES ASSUME r \in B PROVE FALSE
    OBVIOUS
  <2>1. r \in Extent(h, r)
    BY BlockRows
  <2> QED
    BY <1>4, <2>1, BlocksApart
<1>6. /\ BlockOf(g, b) /\ Closed(g, b)
      /\ SizeAt(g, b) = n /\ Foot(g, b) = b + n - 1
      /\ TagAt(g, b) = t1 /\ TagAt(g, Foot(g, b)) = t2
  BY <1>1, <1>2, NewBlock
<1>7. /\ BlockOf(g, r) /\ Closed(g, r)
      /\ SizeAt(g, r) = m /\ Foot(g, r) = Foot(h, b)
      /\ TagAt(g, r) = t3 /\ TagAt(g, Foot(g, r)) = t4
  <2>1. t3.size = m /\ g.mem[r + t3.size - 1] = t4 /\ r + t3.size <= End(g)
        /\ t3.size >= MinBlock /\ Aligned(t3.size)
    BY <1>0, <1>2, <1>3
  <2> HIDE DEF r, m
  <2>2. /\ BlockOf(g, r) /\ Closed(g, r)
        /\ SizeAt(g, r) = t3.size /\ Foot(g, r) = r + t3.size - 1
        /\ TagAt(g, r) = t3 /\ TagAt(g, Foot(g, r)) = t4
    BY <1>2, <2>1, NewBlock DEF r
  <2> QED
    BY <1>2, <2>1, <2>2
<1>8. ASSUME NEW c \in B, c # b
      PROVE  /\ BlockOf(g, c) /\ Closed(g, c)
             /\ SizeAt(g, c) = SizeAt(h, c) /\ Foot(g, c) = Foot(h, c)
             /\ TagAt(g, c) = TagAt(h, c) /\ TagAt(g, Foot(g, c)) = TagAt(h, Foot(h, c))
             /\ Valid(h, c) = Valid(g, c)
  <2>1. g.mem[c] = h.mem[c] /\ g.mem[Foot(h, c)] = h.mem[Foot(h, c)]
    BY <1>8
  <2> QED
    BY <1>0, <2>1, BlockFrame
<1> HIDE DEF r, m
<1>9. \A c \in C : BlockOf(g, c) /\ Closed(g, c) /\ c \in Nat /\ Aligned(c)
  BY <1>2, <1>3, <1>6, <1>7, <1>8 DEF Tiled
<1>10. \A c \in C : c + SizeAt(g, c) \in C \cup {End(g)}
  <2>1. \A c \in B : c + SizeAt(h, c) \in B \cup {End(h)}
    BY DEF Tiled
  <2>2. b + SizeAt(g, b) = r
    BY <1>6 DEF r
  <2>3. r + SizeAt(g, r) = b + SizeAt(h, b)
    BY <1>2, <1>7
  <2> QED
    BY <1>8, <2>1, <2>2, <2>3
<1>11. ASSUME NEW c \in C, NEW d \in C, c < d PROVE c + SizeAt(g, c) <= d
  <2>1. \A x, y \in B : x < y => x + SizeAt(h, x) <= y
    BY DEF Tiled
  <2>2. \A x \in B : x \in Nat /\ SizeAt(h, x) \in Nat
    BY BlockRows
  <2>3. CASE c = b
    <3>1. c + SizeAt(g, c) = r
      BY <1>6, <2>3 DEF r
    <3>2. d = r \/ (d \in B /\ b + SizeAt(h, b) <= d /\ d \in Nat)
      BY <1>11, <2>1, <2>2, <2>3
    <3> QED
      BY <1>1, <1>2, <3>1, <3>2
  <2>4. CASE c = r
    <3>1. c + SizeAt(g, c) = b + SizeAt(h, b)
      BY <1>2, <1>7, <2>4
    <3>2. d \in B /\ d \in Nat /\ b < d
      <4>1. d \in Nat
        BY <1>2, <2>2
      <4>2. d # r /\ b < d
        BY <1>1, <1>2, <1>11, <2>4, <4>1
      <4> QED
        BY <4>1, <4>2 DEF C
    <3> QED
      BY <2>1, <3>1, <3>2
  <2>5. CASE c # b /\ c # r
    <3>1. c \in B /\ SizeAt(g, c) = SizeAt(h, c) /\ c \in Nat /\ SizeAt(h, c) \in Nat
      BY <1>8, <2>2, <2>5
    <3>2. CASE d = r
      <4>1. c < b \/ b < c
        BY <1>1, <2>5, <3>1
      <4>2. CASE c < b
        BY <1>1, <1>2, <2>1, <3>1, <3>2, <4>2
      <4>3. CASE b < c
        <5>1. b + SizeAt(h, b) <= c
          BY <2>1, <3>1, <4>3
        <5> QED
          BY <1>1, <1>2, <1>11, <3>1, <3>2, <5>1
      <4> QED
        BY <4>1, <4>2, <4>3
    <3>3. CASE d # r
      BY <1>11, <2>1, <3>1, <3>3
    <3> QED
      BY <3>2, <3>3
  <2> QED
    BY <2>3, <2>4, <2>5
<1>12. Tiled(g, C)
  <2>1. C \subseteq {a \in Nat : Aligned(a)} /\ Aligned(End(g)) /\ (End(g) > 0 => 0 \in C)
    BY <1>9 DEF Tiled
  <2> HIDE DEF C
  <2> QED
    BY <1>9, <1>10, <1>11, <2>1 DEF Tiled
<1>13. SameBlocks(h, g, B \ {b})
  BY <1>8 DEF SameBlocks
<1> QED
  BY <1>1, <1>4, <1>5, <1>6, <1>7, <1>12, <1>13 DEF r, m

\* A block and what follows it become one free block: the next block, or a page
\* that is added at the end.
Swallows(h, g, B, b, right, s) ==
    /\ b \in B /\ right \in Int /\ right = b + SizeAt(h, b)
    /\ s \in Nat /\ Aligned(s) /\ s >= MinBlock
    /\ Aligned(End(g)) /\ End(h) <= End(g) /\ (End(g) = End(h) \/ right = End(h))
    /\ b + s <= End(g) /\ b + s \in (B \ {right}) \cup {End(g)}
    /\ \A c \in B : b < c /\ c # right => b + s <= c
    /\ g.mem[b] = FreeTag(s) /\ g.mem[b + s - 1] = FreeTag(s)
    /\ \A c \in B : c # b /\ c # right =>
          g.mem[c] = h.mem[c] /\ g.mem[Foot(h, c)] = h.mem[Foot(h, c)]

LEMMA MergeTiled ==
    ASSUME NEW h \in Heaps, NEW g \in Heaps, NEW B, Tiled(h, B), NEW b, NEW right, NEW s,
           Swallows(h, g, B, b, right, s)
    PROVE  /\ b # right /\ Tiled(g, B \ {right}) /\ TagAt(g, b) = FreeTag(s)
           /\ SizeAt(g, b) = s /\ SameBlocks(h, g, B \ {b, right})
<1> DEFINE C == B \ {right}
<1>0. /\ b \in B /\ right \in Int /\ right = b + SizeAt(h, b)
      /\ s \in Nat /\ Aligned(s) /\ s >= MinBlock
      /\ Aligned(End(g)) /\ End(h) <= End(g) /\ (End(g) = End(h) \/ right = End(h))
      /\ b + s <= End(g) /\ b + s \in C \cup {End(g)}
      /\ \A c \in B : b < c /\ c # right => b + s <= c
      /\ g.mem[b] = FreeTag(s) /\ g.mem[b + s - 1] = FreeTag(s)
      /\ \A c \in B : c # b /\ c # right =>
            g.mem[c] = h.mem[c] /\ g.mem[Foot(h, c)] = h.mem[Foot(h, c)]
  BY DEF Swallows
<1>1. /\ b \in Nat /\ SizeAt(h, b) \in Nat /\ SizeAt(h, b) >= 4 /\ b < right
      /\ \A x \in B : x \in Nat /\ SizeAt(h, x) \in Nat /\ SizeAt(h, x) >= 4
  <2>1. \A x \in B : x \in Nat /\ SizeAt(h, x) \in Nat /\ SizeAt(h, x) >= 4
    BY BlockRows
  <2> QED
    BY <1>0, <2>1
<1>2. /\ BlockOf(g, b) /\ Closed(g, b)
      /\ SizeAt(g, b) = s /\ TagAt(g, b) = FreeTag(s)
  <2>1. FreeTag(s) \in Tags /\ FreeTag(s).size = s
    BY <1>0, RowKinds DEF FreeTag, Tag
  <2> QED
    BY <1>0, <1>1, <2>1, NewBlock
<1>3. ASSUME NEW c \in B, c # b, c # right
      PROVE  /\ BlockOf(g, c) /\ Closed(g, c)
             /\ SizeAt(g, c) = SizeAt(h, c) /\ Foot(g, c) = Foot(h, c)
             /\ TagAt(g, c) = TagAt(h, c) /\ TagAt(g, Foot(g, c)) = TagAt(h, Foot(h, c))
             /\ Valid(h, c) = Valid(g, c)
  <2>1. g.mem[c] = h.mem[c] /\ g.mem[Foot(h, c)] = h.mem[Foot(h, c)]
    BY <1>0, <1>3
  <2> QED
    BY <1>0, <2>1, BlockFrame
<1>4. \A c \in C : BlockOf(g, c) /\ Closed(g, c)
  BY <1>0, <1>2, <1>3
<1>5. \A x, y \in B : x < y => x + SizeAt(h, x) <= y
  BY <1>0 DEF Tiled
<1>6. ASSUME NEW c \in C PROVE c + SizeAt(g, c) \in C \cup {End(g)}
  <2>1. CASE c = b
    BY <1>0, <1>2, <2>1
  <2>2. CASE c # b
    <3>1. c + SizeAt(h, c) \in B \cup {End(h)}
      BY <1>0 DEF Tiled
    <3>2. c + SizeAt(h, c) # right
      <4>1. c \in Nat /\ SizeAt(h, c) \in Nat /\ SizeAt(h, c) >= 4 /\ c \in B
        BY <1>0, <1>1
      <4>2. CASE c < b
        <5>1. c + SizeAt(h, c) <= b
          BY <1>0, <1>5, <4>1, <4>2
        <5> QED
          BY <1>0, <1>1, <4>1, <5>1
      <4>3. CASE b < c
        <5>1. right <= c
          BY <1>0, <1>5, <4>1, <4>3
        <5> QED
          BY <1>0, <4>1, <5>1
      <4> QED
        BY <1>0, <1>1, <2>2, <4>1, <4>2, <4>3
    <3> QED
      BY <1>0, <1>3, <2>2, <3>1, <3>2
  <2> QED
    BY <1>0, <2>1, <2>2
<1>7. ASSUME NEW c \in C, NEW d \in C, c < d PROVE c + SizeAt(g, c) <= d
  <2>1. CASE c = b
    BY <1>0, <1>2, <1>7, <2>1
  <2>2. CASE c # b
    BY <1>0, <1>3, <1>5, <1>7, <2>2
  <2> QED
    BY <1>0, <2>1, <2>2
<1>8. End(g) > 0 => 0 \in C
  <2>1. End(h) > 0
    <3>1. BlockOf(h, b) /\ End(h) \in Nat
      BY <1>0, EndBounds DEF Tiled
    <3> QED
      BY <1>0, <1>1, <3>1 DEF BlockOf
  <2>2. 0 \in B /\ right # 0
    BY <1>0, <1>1, <2>1 DEF Tiled
  <2> QED
    BY <1>0, <2>2
<1>9. Tiled(g, C)
  <2>1. C \subseteq {a \in Nat : Aligned(a)}
    BY <1>0 DEF Tiled
  <2> HIDE DEF C
  <2> QED
    BY <1>0, <1>4, <1>6, <1>7, <1>8, <2>1 DEF Tiled
<1>10. SameBlocks(h, g, B \ {b, right})
  BY <1>0, <1>3 DEF SameBlocks
<1> QED
  BY <1>0, <1>1, <1>2, <1>9, <1>10

-----------------------------------------------------------------------------
(* sf_free *)

\* The rows of the blocks A are as they were.
Intact(h, g, A) == \A b \in A : \A a \in Extent(h, b) : g.mem[a] = h.mem[a]

\* What becomes of the blocks from h to g: the allocated ones but those gone are as
\* they were, and the rest is free but for those that are new.
Served(h, B, g, C, gone, new) ==
    /\ C \in SUBSET Rows
    /\ Allocs(g, C) = (Allocs(h, B) \ gone) \cup new
    /\ Intact(h, g, Allocs(h, B) \ gone)

LEMMA BlocksAreRows ==
    ASSUME NEW h \in Heaps, NEW B, Tiled(h, B)
    PROVE  B \in SUBSET Rows
BY BlockRows

LEMMA FreeMerges ==
    ASSUME NEW h \in Heaps, NEW B, Ordered(h, B), NEW b \in Allocs(h, B),
           b + SizeAt(h, b) \in Frees(h, B)
    PROVE  LET right == b + SizeAt(h, b)
               g == Coalesce(h, b, right, right)
           IN  /\ Ordered(g, B \ {right}) /\ g.slips = h.slips
               /\ Served(h, B, g, B \ {right}, {b}, {})
<1> DEFINE right == b + SizeAt(h, b)
           s == SizeAt(h, b) + SizeAt(h, right)
           F == Frees(h, B)
           P == F \ {right}
           G == P \cup {b}
           g == Coalesce(h, b, right, right)
           C == B \ {right}
<1>0. Tiled(h, B) /\ Linked(h, F) /\ ~h.fault /\ (h.slips = {} => NoneDropped(h, F))
  BY DEF Ordered
<1>1. F \in SUBSET B /\ b \in B /\ b \notin F /\ right \in F /\ right \in B /\ C \in SUBSET B
  BY FreesAndAllocs
<1>2. /\ b \in Nat /\ SizeAt(h, b) \in Nat /\ SizeAt(h, b) >= 4 /\ Aligned(SizeAt(h, b))
      /\ right \in Nat /\ SizeAt(h, right) \in Nat /\ SizeAt(h, right) >= 4
      /\ Aligned(SizeAt(h, right)) /\ right + SizeAt(h, right) <= End(h)
      /\ Foot(h, right) = right + SizeAt(h, right) - 1
  BY <1>0, <1>1, BlockRows
<1>3. /\ s \in Nat /\ s >= 4 /\ b + s <= End(h) /\ b + s = right + SizeAt(h, right)
      /\ b + s - 1 = Foot(h, right) /\ b < right
  BY <1>2
<1>4. Aligned(s)
  <2>1. SizeAt(h, b) \in Int /\ SizeAt(h, right) \in Int
    BY <1>2
  <2> HIDE DEF right
  <2> QED
    BY <1>2, <2>1, AlignedSum
<1>5. Spaced(h, P \cup {b}) /\ P \cup {b} \in SUBSET B /\ P \in SUBSET B
  <2>1. P \cup {b} \in SUBSET B /\ P \in SUBSET B
    BY <1>1
  <2> HIDE DEF P
  <2> QED
    BY <1>0, <2>1, BlocksSpaced
<1>6. \A c \in P : b + s - 1 # c /\ ~LinkRow(P, b + s - 1)
  <2>1. ~LinkRow(P, Foot(h, right))
    BY <1>0, <1>1, <1>5, TagsNoLinks
  <2>2. \A c \in P : Foot(h, right) # c
    <3> SUFFICES ASSUME NEW c \in P PROVE Foot(h, right) # c
      OBVIOUS
    <3>1. c \in Extent(h, c) /\ Foot(h, right) \in Extent(h, right) /\ c # right /\ c \in B
      BY <1>0, <1>1, BlockRows
    <3> QED
      BY <1>0, <1>1, <3>1, BlocksApart
  <2> QED
    BY <1>3, <2>1, <2>2
<1> HIDE DEF F
<1>7. /\ g \in Heaps /\ g.pages = h.pages /\ g.fault = h.fault /\ g.slips = h.slips
      /\ Linked(g, G) /\ (NoneDropped(h, F) => NoneDropped(g, G))
      /\ b \in Rows /\ b + s - 1 \in Rows
      /\ g.mem[b] = FreeTag(s) /\ g.mem[b + s - 1] = FreeTag(s)
      /\ \A a \in Rows : a # b /\ a # b + s - 1 /\ ~LinkRow(G, a) => g.mem[a] = h.mem[a]
  <2>1. b \notin F \ {right} /\ right \in F /\ right \in Int
    BY <1>1, <1>2
  <2>2. s >= MinBlock
    BY <1>3 DEF MinBlock
  <2>3. g = Coalesce(h, b, right, right) /\ s = SizeAt(h, b) + SizeAt(h, right)
    OBVIOUS
  <2> HIDE DEF right, g, s
  <2>4. /\ g \in Heaps /\ g.pages = h.pages /\ g.fault = h.fault /\ g.slips = h.slips
        /\ Linked(g, G) /\ (NoneDropped(h, F) => NoneDropped(g, G))
        /\ Coalesced(h, g, G, b, s)
    <3>1. Joinable(h, F, b, right, right, s)
      BY <1>2, <1>3, <1>5, <1>6, <2>1, <2>2, <2>3 DEF Joinable
    <3> QED
      BY <1>0, <2>3, <3>1, CoalesceLinked
  <2> QED
    BY <2>4 DEF Coalesced
<1> HIDE DEF g
<1>8. \A c \in B : c # b /\ c # right =>
          \A a \in Extent(h, c) : ~LinkRow(G, a) => g.mem[a] = h.mem[a]
  <2> SUFFICES ASSUME NEW c \in B, c # b, c # right, NEW a \in Extent(h, c), ~LinkRow(G, a)
               PROVE  g.mem[a] = h.mem[a]
    OBVIOUS
  <2>1. a \in Rows
    BY <1>0, BlockRows
  <2>2. b \in Extent(h, b) /\ Foot(h, right) \in Extent(h, right)
    BY <1>0, <1>1, BlockRows
  <2>3. a # b /\ a # Foot(h, right)
    BY <1>0, <1>1, <2>2, BlocksApart
  <2> QED
    BY <1>3, <1>7, <2>1, <2>3
<1>9. \A c \in B : c # b /\ c # right =>
          g.mem[c] = h.mem[c] /\ g.mem[Foot(h, c)] = h.mem[Foot(h, c)]
  <2> SUFFICES ASSUME NEW c \in B, c # b, c # right
               PROVE  g.mem[c] = h.mem[c] /\ g.mem[Foot(h, c)] = h.mem[Foot(h, c)]
    OBVIOUS
  <2>1. c \in Extent(h, c) /\ Foot(h, c) \in Extent(h, c)
    BY <1>0, BlockRows
  <2>2. ~LinkRow(G, c) /\ ~LinkRow(G, Foot(h, c))
    BY <1>0, <1>5, TagsNoLinks
  <2> QED
    BY <1>8, <2>1, <2>2
<1>10. End(g) = End(h) /\ End(h) \in Nat
  BY <1>7, EndBounds DEF End
<1>11. /\ b # right /\ Tiled(g, C) /\ TagAt(g, b) = FreeTag(s) /\ SizeAt(g, b) = s
       /\ \A c \in B : c # b /\ c # right =>
              SizeAt(g, c) = SizeAt(h, c) /\ TagAt(g, c) = TagAt(h, c)
  <2>1. Aligned(End(g)) /\ End(h) <= End(g) /\ b + s <= End(g) /\ s >= MinBlock /\ right \in Int
    BY <1>0, <1>2, <1>3, <1>10 DEF Tiled, MinBlock
  <2>2. b + s \in (B \ {right}) \cup {End(g)}
    <3>1. right + SizeAt(h, right) \in B \cup {End(h)}
      BY <1>0, <1>1 DEF Tiled
    <3>2. right + SizeAt(h, right) # right
      BY <1>2
    <3> QED
      BY <1>3, <1>10, <3>1, <3>2
  <2>3. \A c \in B : b < c /\ c # right => b + s <= c
    <3> SUFFICES ASSUME NEW c \in B, b < c, c # right PROVE b + s <= c
      OBVIOUS
    <3>1. right <= c /\ c \in Nat
      BY <1>0, <1>1, BlockRows DEF Tiled
    <3>2. right < c
      BY <1>2, <3>1
    <3>3. right + SizeAt(h, right) <= c
      BY <1>0, <1>1, <3>2 DEF Tiled
    <3> QED
      BY <1>3, <3>3
  <2>4. right = b + SizeAt(h, b)
    OBVIOUS
  <2> HIDE DEF s, right
  <2>5. /\ b # right /\ Tiled(g, C) /\ TagAt(g, b) = FreeTag(s) /\ SizeAt(g, b) = s
        /\ SameBlocks(h, g, B \ {b, right})
    <3>1. Swallows(h, g, B, b, right, s)
      BY <1>1, <1>3, <1>4, <1>7, <1>9, <1>10, <2>1, <2>2, <2>3, <2>4 DEF Swallows
    <3> QED
      BY <1>0, <1>7, <3>1, MergeTiled
  <2> QED
    BY <2>5 DEF SameBlocks
<1>12. ~FreeTag(s).allocated
  BY DEF FreeTag, Tag
<1>13. Frees(g, C) = G
  <2>1. \A c \in C : c # b => (c \in F <=> ~TagAt(g, c).allocated)
    BY <1>11 DEF F, Frees
  <2> HIDE DEF right
  <2> QED
    BY <1>1, <1>11, <1>12, <2>1 DEF Frees
<1>14. Allocs(g, C) = Allocs(h, B) \ {b}
  <2>1. \A c \in C : c # b => TagAt(g, c) = TagAt(h, c)
    BY <1>11
  <2>2. ~TagAt(h, right).allocated
    BY <1>1 DEF F, Frees
  <2> HIDE DEF right
  <2> QED
    BY <1>1, <1>11, <1>12, <2>1, <2>2 DEF Allocs
<1>15. Intact(h, g, Allocs(h, B) \ {b})
  <2> SUFFICES ASSUME NEW c \in Allocs(h, B), c # b, NEW a \in Extent(h, c)
               PROVE  g.mem[a] = h.mem[a]
    BY DEF Intact
  <2>1. c \in B /\ c \notin F /\ c # right
    BY <1>1, FreesAndAllocs DEF F
  <2>2. c \notin G
    BY <2>1
  <2>3. ~LinkRow(G, a)
    BY <1>0, <1>5, <2>1, <2>2, LinkRowOf
  <2> QED
    BY <1>8, <2>1, <2>3
<1>16. Ordered(g, C)
  BY <1>0, <1>7, <1>11, <1>13 DEF Ordered
<1>17. C \in SUBSET Rows
  BY <1>7, <1>11, BlocksAreRows
<1> QED
  BY <1>7, <1>14, <1>15, <1>16, <1>17 DEF Served, g

\* Links written leave the blocks as they are.
LEMMA TiledFrame ==
    ASSUME NEW h \in Heaps, NEW g \in Heaps, NEW B, Tiled(h, B), End(g) = End(h),
           \A c \in B : g.mem[c] = h.mem[c] /\ g.mem[Foot(h, c)] = h.mem[Foot(h, c)]
    PROVE  /\ Tiled(g, B) /\ SameBlocks(h, g, B)
           /\ Frees(g, B) = Frees(h, B) /\ Allocs(g, B) = Allocs(h, B)
<1>0. End(h) <= End(g)
  BY EndBounds
<1>1. ASSUME NEW c \in B
      PROVE  /\ BlockOf(g, c) /\ Closed(g, c)
             /\ SizeAt(g, c) = SizeAt(h, c) /\ Foot(g, c) = Foot(h, c)
             /\ TagAt(g, c) = TagAt(h, c) /\ TagAt(g, Foot(g, c)) = TagAt(h, Foot(h, c))
             /\ Valid(h, c) = Valid(g, c)
  BY <1>0, BlockFrame
<1>2. Tiled(g, B)
  BY <1>1 DEF Tiled
<1>3. SameBlocks(h, g, B)
  BY <1>1 DEF SameBlocks
<1> QED
  BY <1>1, <1>2, <1>3 DEF Frees, Allocs

LEMMA LinksKeepTags ==
    ASSUME NEW h \in Heaps, NEW g, NEW B, Tiled(h, B), NEW G \in SUBSET B, OnlyLinks(h, g, G),
           NEW c \in B
    PROVE  g.mem[c] = h.mem[c] /\ g.mem[Foot(h, c)] = h.mem[Foot(h, c)]
BY TagsNoLinks, BlockRows DEF OnlyLinks

LEMMA FreePushes ==
    ASSUME NEW h \in Heaps, NEW B, Ordered(h, B), NEW b \in Allocs(h, B)
    PROVE  LET size == SizeAt(h, b)
               g == Push(WriteTags(h, b, FreeTag(size), FreeTag(size)), b)
           IN  Ordered(g, B) /\ g.slips = h.slips /\ Served(h, B, g, B, {b}, {})
<1> DEFINE size == SizeAt(h, b)
           F == Frees(h, B)
           G == F \cup {b}
           w == WriteTags(h, b, FreeTag(size), FreeTag(size))
           g == Push(w, b)
<1>0. Tiled(h, B) /\ Linked(h, F) /\ ~h.fault /\ (h.slips = {} => NoneDropped(h, F))
  BY DEF Ordered
<1>1. F \in SUBSET B /\ b \in B /\ b \notin F /\ G \in SUBSET B
  BY FreesAndAllocs
<1>2. /\ b \in Nat /\ size \in Nat /\ size >= 4 /\ Foot(h, b) = b + size - 1
      /\ InHeap(h, b) /\ InHeap(h, Foot(h, b)) /\ b \in Extent(h, b) /\ Foot(h, b) \in Extent(h, b)
  BY <1>0, <1>1, BlockRows
<1>3. FreeTag(size) \in Tags /\ FreeTag(size).size = size /\ ~FreeTag(size).allocated
  BY <1>2, RowKinds DEF FreeTag, Tag
<1> HIDE DEF F, size
<1>4. /\ w \in Heaps /\ OnlyMem(h, w)
      /\ w.mem[b] = FreeTag(size) /\ w.mem[Foot(h, b)] = FreeTag(size)
      /\ \A r \in Rows : r # b /\ r # Foot(h, b) => w.mem[r] = h.mem[r]
  BY <1>2, <1>3, WriteTagsEffect DEF MinBlock
<1> HIDE DEF w
<1>5. End(w) = End(h) /\ End(h) <= End(w) /\ w.head = h.head
  BY <1>4, EndBounds DEF OnlyMem, End
<1>6. \A c \in B : c # b => \A a \in Extent(h, c) : w.mem[a] = h.mem[a]
  <2> SUFFICES ASSUME NEW c \in B, c # b, NEW a \in Extent(h, c) PROVE w.mem[a] = h.mem[a]
    OBVIOUS
  <2>1. a \in Rows /\ a # b /\ a # Foot(h, b)
    BY <1>0, <1>1, <1>2, BlockRows, BlocksApart
  <2> QED
    BY <1>4, <2>1
<1>7. \A c \in B : c # b => w.mem[c] = h.mem[c] /\ w.mem[Foot(h, c)] = h.mem[Foot(h, c)]
  BY <1>0, <1>6, BlockRows
<1>8. /\ Tiled(w, B) /\ TagAt(w, b) = FreeTag(size)
      /\ \A c \in B : SizeAt(w, c) = SizeAt(h, c) /\ Foot(w, c) = Foot(h, c)
      /\ SameBlocks(h, w, B \ {b})
  <2>1. Retagged(h, w, B, b, FreeTag(size), FreeTag(size))
    BY <1>1, <1>3, <1>4, <1>5, <1>7 DEF Retagged, Pair, size
  <2> QED
    BY <1>0, <1>4, <2>1, RetagTiled, ZenonT(60)
<1>9. Frees(w, B) = G /\ Allocs(w, B) = Allocs(h, B) \ {b}
  BY <1>1, <1>3, <1>8 DEF Frees, Allocs, SameBlocks, F
<1>10. Linked(w, F) /\ (NoneDropped(h, F) => NoneDropped(w, F))
  <2>1. \A c \in F : w.mem[c] = h.mem[c]
    BY <1>1, <1>7
  <2>2. \A a \in Rows : LinkRow(F, a) => w.mem[a] = h.mem[a]
    <3> SUFFICES ASSUME NEW a \in Rows, LinkRow(F, a) PROVE w.mem[a] = h.mem[a]
      OBVIOUS
    <3>1. a # b /\ a # Foot(h, b)
      BY <1>0, <1>1, TagsNoLinks
    <3> QED
      BY <1>4, <3>1
  <2> QED
    BY <1>0, <1>4, <1>5, <2>1, <2>2, LinkedFrame
<1>11. Spaced(w, G)
  BY <1>1, <1>4, <1>8, BlocksSpaced
<1>12. Linked(g, G) /\ (NoneDropped(w, F) => NoneDropped(g, G))
  BY <1>1, <1>4, <1>10, <1>11, PushLinked
<1>13. /\ g \in Heaps /\ g.pages = w.pages /\ g.fault = w.fault /\ g.slips = w.slips
       /\ OnlyLinks(w, g, G)
  <2>1. Strung(w, F) /\ Heads(w, F)
    BY <1>10 DEF Linked
  <2> QED
    BY <1>1, <1>4, <1>11, <2>1, PushEffect
<1> HIDE DEF g, G
<1>14. End(g) = End(w)
  BY <1>13 DEF End
<1>15. /\ Tiled(g, B) /\ SameBlocks(w, g, B)
       /\ Frees(g, B) = Frees(w, B) /\ Allocs(g, B) = Allocs(w, B)
  <2>1. \A c \in B : g.mem[c] = w.mem[c] /\ g.mem[Foot(w, c)] = w.mem[Foot(w, c)]
    BY <1>1, <1>4, <1>8, <1>13, LinksKeepTags
  <2> QED
    BY <1>4, <1>8, <1>13, <1>14, <2>1, TiledFrame
<1>16. Intact(h, g, Allocs(h, B) \ {b})
  <2> SUFFICES ASSUME NEW c \in Allocs(h, B), c # b, NEW a \in Extent(h, c)
               PROVE  g.mem[a] = h.mem[a]
    BY DEF Intact
  <2>1. c \in B /\ c \notin F /\ c \notin G
    BY FreesAndAllocs DEF F, G
  <2>2. ~LinkRow(G, a)
    BY <1>0, <1>1, <2>1, LinkRowOf
  <2>3. a \in Rows
    BY <1>0, <2>1, BlockRows
  <2> QED
    BY <1>6, <1>13, <2>1, <2>2, <2>3 DEF OnlyLinks
<1>17. Ordered(g, B) /\ g.slips = h.slips
  BY <1>0, <1>4, <1>9, <1>10, <1>12, <1>13, <1>15 DEF Ordered, OnlyMem
<1>18. B \in SUBSET Rows
  BY <1>0, BlocksAreRows
<1>19. Served(h, B, g, B, {b}, {})
  BY <1>9, <1>15, <1>16, <1>18 DEF Served
<1> QED
  BY <1>17, <1>19 DEF g, w, size

\* sf_free leaves the heap in order, without the block and with all others as they were.
LEMMA FreeOrdered ==
    ASSUME NEW h \in Heaps, NEW B, Ordered(h, B), NEW b \in Allocs(h, B), Valid(h, b)
    PROVE  /\ Free(h, b).slips = h.slips
           /\ \E C \in SUBSET Rows : Ordered(Free(h, b), C) /\ Served(h, B, Free(h, b), C, {b}, {})
<1> DEFINE right == b + SizeAt(h, b)
           size == SizeAt(h, b)
<1>0. Tiled(h, B) /\ b \in B
  BY FreesAndAllocs DEF Ordered
<1>1. b \in Nat /\ size \in Nat /\ Foot(h, b) + 1 = right
  BY <1>0, BlockRows
<1>2. right \in B \cup {End(h)}
  BY <1>0 DEF Tiled
<1>3. Free(h, b) =
        IF right < End(h) /\ ~TagAt(h, right).allocated
        THEN Coalesce(Require(h, IsTag(h, right)), b, right, right)
        ELSE Push(WriteTags(h, b, FreeTag(size), FreeTag(size)), b)
  BY <1>1 DEF Free
<1> HIDE DEF right, size
<1>4. CASE right < End(h) /\ ~TagAt(h, right).allocated
  <2>1. right \in Frees(h, B)
    BY <1>2, <1>4, EndBounds DEF Frees
  <2>2. IsTag(h, right)
    BY <1>0, <2>1, FreesAndAllocs, BlockRows
  <2>3. Free(h, b) = Coalesce(h, b, right, right)
    BY <1>3, <1>4, <2>2 DEF Require
  <2>4. /\ Ordered(Coalesce(h, b, right, right), B \ {right})
        /\ Coalesce(h, b, right, right).slips = h.slips
        /\ Served(h, B, Coalesce(h, b, right, right), B \ {right}, {b}, {})
    BY <2>1, FreeMerges DEF right
  <2> QED
    BY <2>3, <2>4 DEF Served
<1>5. CASE ~(right < End(h) /\ ~TagAt(h, right).allocated)
  <2>1. Free(h, b) = Push(WriteTags(h, b, FreeTag(size), FreeTag(size)), b)
    BY <1>3, <1>5
  <2>2. Ordered(Free(h, b), B) /\ Free(h, b).slips = h.slips /\ Served(h, B, Free(h, b), B, {b}, {})
    BY <2>1, FreePushes DEF size
  <2> QED
    BY <2>2 DEF Served
<1> QED
  BY <1>4, <1>5

-----------------------------------------------------------------------------
(* makeBlock *)

\* x leaves the linked blocks, whatever its tags have become, once its list no
\* longer begins with it.
Leaving(h, k, F, x) ==
    /\ x \in F /\ k.pages = h.pages
    /\ \A c \in F \ {x} : k.mem[c] = h.mem[c]
    /\ \A a \in Rows : LinkRow(F, a) => k.mem[a] = h.mem[a]
    /\ \A l \in Lists : \/ k.head[l] = Null
                        \/ h.head[l] # x /\ k.head[l] = h.head[l]
                        \/ h.head[l] = x /\ k.head[l] = NextOf(h, x)

LEMMA UnlinkLinked ==
    ASSUME NEW h \in Heaps, NEW k \in Heaps, NEW F, Linked(h, F), NEW x, Leaving(h, k, F, x)
    PROVE  LET g == Unlink(k, x)
           IN  /\ g \in Heaps /\ OnlyMem(k, g) /\ OnlyLinks(k, g, F \ {x})
               /\ Linked(g, F \ {x})
               /\ NoneDropped(h, F)
                  /\ (\A l \in Lists : k.head[l] = IF h.head[l] = x THEN NextOf(h, x)
                                                   ELSE h.head[l])
                  => NoneDropped(g, F \ {x})
<1> DEFINE g == Unlink(k, x)
<1>0. /\ x \in F /\ End(k) = End(h) /\ End(h) <= End(k)
      /\ \A c \in F \ {x} : k.mem[c] = h.mem[c]
      /\ \A a \in Rows : LinkRow(F, a) => k.mem[a] = h.mem[a]
      /\ Strung(h, F) /\ Spaced(h, F)
  BY EndBounds DEF Leaving, End, Linked, Strung
<1>1. /\ Strung(k, F)
      /\ \A b \in F : NextOf(k, b) = NextOf(h, b) /\ PrevOf(k, b) = PrevOf(h, b)
  BY <1>0, StrungFrame
<1>2. /\ g \in Heaps /\ OnlyMem(k, g) /\ OnlyLinks(k, g, F \ {x}) /\ Bypassed(k, g, F, x)
  BY <1>0, <1>1, UnlinkEffect
<1>3. Strung(g, F \ {x})
  BY <1>0, <1>1, UnlinkStrung
<1> HIDE DEF g
<1>4. Bypassed(h, g, F, x)
  BY <1>0, <1>1, <1>2 DEF Bypassed
<1>5. \A b \in F : Class(h, b) \in Lists /\ b \in Int /\ InHeap(h, b)
  BY <1>0, LinkRows, TagTyped, ListOfTyped DEF Class
<1>6. \A b \in F : b # x => Class(g, b) = Class(h, b)
  <2> SUFFICES ASSUME NEW b \in F, b # x PROVE Class(g, b) = Class(h, b)
    OBVIOUS
  <2>1. Class(k, b) = Class(h, b)
    <3>1. k.mem[b] = h.mem[b]
      BY <1>0
    <3> QED
      BY <1>0, <1>5, <3>1, RowFrame DEF Class
  <2>2. Spaced(k, F \ {x})
    BY <1>1 DEF Strung, Spaced
  <2>3. Class(g, b) = Class(k, b)
    BY <1>2, <2>2, SizesFrame DEF OnlyMem
  <2> QED
    BY <2>1, <2>3
<1>7. Classed(g, F \ {x})
  BY <1>0, <1>3, <1>4, <1>6, ClassedWithout DEF Linked
<1>8. Heads(g, F \ {x})
  <2>1. \A l \in Lists : \/ g.head[l] = Null
                         \/ h.head[l] # x /\ g.head[l] = h.head[l]
                         \/ h.head[l] = x /\ g.head[l] = NextOf(h, x)
    BY <1>2 DEF Leaving, OnlyMem
  <2> QED
    BY <1>0, <1>4, <1>6, <2>1, HeadsWithout
<1>9. ASSUME NoneDropped(h, F),
             \A l \in Lists : k.head[l] = IF h.head[l] = x THEN NextOf(h, x) ELSE h.head[l]
      PROVE  NoneDropped(g, F \ {x})
  <2>1. \A l \in Lists : g.head[l] = IF h.head[l] = x THEN NextOf(h, x) ELSE h.head[l]
    BY <1>2, <1>9 DEF OnlyMem
  <2> QED
    BY <1>0, <1>4, <1>5, <1>6, <1>9, <2>1, NoneDroppedWithout
<1> QED
  BY <1>2, <1>3, <1>7, <1>8, <1>9 DEF Linked, g

\* The tags of an allocated block.
Header(size, block) == Tag(TRUE, Padded(size, block), block, 0)
Footer(size, block) == Tag(TRUE, Padded(size, block), block, size)

LEMMA UnrequestedTag ==
    ASSUME NEW r \in Tags
    PROVE  LET t == [r EXCEPT !.requested = 0]
           IN  /\ t \in Tags /\ t.requested = 0
               /\ t.allocated = r.allocated /\ t.padded = r.padded /\ t.size = r.size
BY DEF Tags

LEMMA SameTags ==
    ASSUME NEW r \in Tags, NEW t \in Tags, r.allocated = t.allocated, r.padded = t.padded,
           r.size = t.size, r.requested = t.requested
    PROVE  r = t
BY DEF Tags

LEMMA AllocTags ==
    ASSUME NEW size \in Nat, NEW block \in Nat
    PROVE  /\ Header(size, block) \in Tags /\ Footer(size, block) \in Tags
           /\ Header(size, block).size = block /\ Footer(size, block).size = block
           /\ Header(size, block).allocated /\ Footer(size, block).allocated
           /\ Header(size, block).padded = Padded(size, block)
           /\ Footer(size, block).padded = Padded(size, block)
           /\ Footer(size, block).requested = size
           /\ \A h, b : Allocate(h, b, size, block) =
                            WriteTags(h, b, Header(size, block), Footer(size, block))
<1>1. Padded(size, block) \in BOOLEAN
  BY DEF Padded
<1>2. Header(size, block) \in Tags /\ Footer(size, block) \in Tags
  BY <1>1, RowKinds DEF Header, Footer
<1>3. [Tag(TRUE, Padded(size, block), block, size) EXCEPT !.requested = 0] = Header(size, block)
  <2> DEFINE t == [Tag(TRUE, Padded(size, block), block, size) EXCEPT !.requested = 0]
  <2>1. Tag(TRUE, Padded(size, block), block, size) \in Tags
    BY <1>2 DEF Footer
  <2>2. /\ t \in Tags /\ t.requested = 0 /\ t.allocated
        /\ t.padded = Padded(size, block) /\ t.size = block
    <3>1. /\ Tag(TRUE, Padded(size, block), block, size).allocated = TRUE
          /\ Tag(TRUE, Padded(size, block), block, size).padded = Padded(size, block)
          /\ Tag(TRUE, Padded(size, block), block, size).size = block
      BY DEF Tag
    <3> QED
      BY <2>1, <3>1, UnrequestedTag
  <2>3. /\ Header(size, block).requested = 0 /\ Header(size, block).allocated = TRUE
        /\ Header(size, block).padded = Padded(size, block) /\ Header(size, block).size = block
    BY DEF Header, Tag
  <2>4. t.allocated = TRUE
    BY <2>2 DEF Tags
  <2> HIDE DEF t
  <2>5. t = Header(size, block)
    BY <1>2, <2>2, <2>3, <2>4, SameTags
  <2> QED
    BY <2>5 DEF t
<1>4. \A h, b : Allocate(h, b, size, block) =
                    WriteTags(h, b, Header(size, block), Footer(size, block))
  BY <1>3 DEF Allocate, Footer
<1> QED
  BY <1>2, <1>4 DEF Header, Footer, Tag

LEMMA NewHolds ==
    ASSUME NEW g \in Heaps, NEW b \in Int, NEW size \in Nat, NEW block \in Nat,
           size + Overhead <= block, IsTag(g, b), IsTag(g, Foot(g, b)),
           TagAt(g, b) = Header(size, block), TagAt(g, Foot(g, b)) = Footer(size, block)
    PROVE  Holds(g, b, size)
<1>1. /\ TagAt(g, b).size = block /\ TagAt(g, b).allocated /\ TagAt(g, Foot(g, b)).allocated
      /\ TagAt(g, b).padded = Padded(size, block)
      /\ TagAt(g, Foot(g, b)).padded = Padded(size, block)
      /\ TagAt(g, Foot(g, b)).requested = size /\ TagAt(g, Foot(g, b)).size = block
  BY AllocTags
<1>2. SizeAt(g, b) = block
  BY <1>1 DEF SizeAt
<1> QED
  BY <1>1, <1>2 DEF Holds, Valid, Overhead

\* Slips that are forgiven.
Fine(g) == g.slips \subseteq {"dropped"}

\* What a block of a heap in order is turned into: g has the same blocks but for the
\* one at b, which was free and is allocated for size rows.
LEMMA TakeOrdered ==
    ASSUME NEW h \in Heaps, NEW B, Ordered(h, B), NEW b \in Frees(h, B), NEW size \in Nat,
           size + Overhead <= SizeAt(h, b), Fine(Take(h, b, size))
    PROVE  LET g == Take(h, b, size)
           IN  /\ Ordered(g, B) /\ h.slips \subseteq g.slips
               /\ Served(h, B, g, B, {}, {b}) /\ Holds(g, b, size)
<1> DEFINE F == Frees(h, B)
           P == F \ {b}
           block == SizeAt(h, b)
           l == ListOf(block)
           alone == NextOf(h, b) = Null /\ PrevOf(h, b) = Null
           h1 == IF alone THEN SetHead(h, l, Null) ELSE h
           h2 == Note(h1, "head", alone # (h.head[l] = b))
           u == Unlink(h2, b)
           g == Allocate(u, b, size, block)
<1>0. Tiled(h, B) /\ Linked(h, F) /\ ~h.fault /\ (h.slips = {} => NoneDropped(h, F))
  BY DEF Ordered
<1>1. F \in SUBSET B /\ b \in B /\ P \in SUBSET B /\ P \in SUBSET F
  BY FreesAndAllocs
<1>2. /\ b \in Nat /\ block \in Nat /\ block >= 4 /\ Foot(h, b) = b + block - 1
      /\ InHeap(h, b) /\ InHeap(h, Foot(h, b)) /\ b \in Extent(h, b) /\ Foot(h, b) \in Extent(h, b)
  BY <1>0, <1>1, BlockRows
<1>3. l \in Lists /\ Class(h, b) = l
  BY <1>2, ListOfTyped DEF Class
<1>4. Take(h, b, size) = g
  BY DEF Take
<1> HIDE DEF F, block, l, alone
<1>5. /\ h1 \in Heaps /\ h1.mem = h.mem /\ h1.pages = h.pages /\ h1.fault = h.fault
      /\ h1.slips = h.slips
      /\ \A k \in Lists : h1.head[k] = IF alone /\ k = l THEN Null ELSE h.head[k]
  <2>1. Null \in Int
    BY DEF Null
  <2>2. CASE alone
    BY <1>3, <2>1, <2>2, SetHeadEffect
  <2>3. CASE ~alone
    BY <2>3
  <2> QED
    BY <2>2, <2>3
<1> HIDE DEF h1
<1>6. /\ h2 \in Heaps
      /\ h2.mem = h1.mem /\ h2.pages = h1.pages /\ h2.fault = h1.fault /\ h2.head = h1.head
      /\ h2.slips = IF alone # (h.head[l] = b) THEN h1.slips \cup {"head"} ELSE h1.slips
  <2>1. "head" \in Slips /\ (alone # (h.head[l] = b)) \in BOOLEAN
    BY DEF Slips
  <2> QED
    BY <1>5, <2>1, NoteTyped
<1> HIDE DEF h2
<1>7. /\ Header(size, block) \in Tags /\ Footer(size, block) \in Tags
      /\ Header(size, block).size = block /\ Footer(size, block).size = block
      /\ Header(size, block).allocated /\ Footer(size, block).allocated
      /\ Header(size, block).padded = Footer(size, block).padded
      /\ g = WriteTags(u, b, Header(size, block), Footer(size, block))
  BY <1>2, AllocTags
<1>8. /\ u \in Heaps /\ u.slips = h2.slips /\ u.pages = h.pages
  BY <1>2, <1>5, <1>6, UnlinkTyped
<1> HIDE DEF u
<1>9. End(u) = End(h) /\ End(h) \in Nat
  BY <1>8, EndBounds DEF End
<1>10. /\ g \in Heaps /\ OnlyMem(u, g)
       /\ g.mem[b] = Header(size, block) /\ g.mem[Foot(h, b)] = Footer(size, block)
       /\ \A r \in Rows : r # b /\ r # Foot(h, b) => g.mem[r] = u.mem[r]
  <2> HIDE DEF g
  <2>1. InHeap(u, b) /\ InHeap(u, b + Header(size, block).size - 1)
        /\ Header(size, block).size >= MinBlock /\ b \in Int
    BY <1>2, <1>7, <1>9 DEF InHeap, MinBlock
  <2>2. b + Header(size, block).size - 1 = Foot(h, b)
    BY <1>2, <1>7
  <2>3. /\ WriteTags(u, b, Header(size, block), Footer(size, block)) \in Heaps
        /\ OnlyMem(u, WriteTags(u, b, Header(size, block), Footer(size, block)))
        /\ g.mem[b] = Header(size, block)
        /\ g.mem[b + Header(size, block).size - 1] = Footer(size, block)
        /\ \A r \in Rows : r # b /\ r # b + Header(size, block).size - 1 => g.mem[r] = u.mem[r]
    BY <1>7, <1>8, <2>1, WriteTagsEffect
  <2> QED
    BY <1>7, <2>2, <2>3
<1> HIDE DEF g
<1>11. ~(alone # (h.head[l] = b)) /\ h2.slips = h.slips /\ g.slips = h.slips
  <2>1. g.slips = h2.slips /\ g.slips \subseteq {"dropped"}
    BY <1>4, <1>8, <1>10 DEF OnlyMem, Fine
  <2>2. CASE alone # (h.head[l] = b)
    <3>1. "head" \in g.slips
      BY <1>6, <2>1, <2>2
    <3> QED
      BY <2>1, <3>1
  <2> QED
    BY <1>5, <1>6, <2>1, <2>2
<1>12. \A k \in Lists : h2.head[k] = IF h.head[k] = b THEN NextOf(h, b) ELSE h.head[k]
  <2> SUFFICES ASSUME NEW k \in Lists
               PROVE  h2.head[k] = IF h.head[k] = b THEN NextOf(h, b) ELSE h.head[k]
    OBVIOUS
  <2>1. h2.head[k] = IF alone /\ k = l THEN Null ELSE h.head[k]
    BY <1>5, <1>6
  <2>2. h.head[k] = b => k = l
    <3>1. b # Null
      BY <1>2 DEF Null
    <3> QED
      BY <1>0, <1>3, <3>1 DEF Linked, Heads
  <2>3. alone <=> h.head[l] = b
    BY <1>11 DEF alone
  <2>4. alone => NextOf(h, b) = Null
    BY DEF alone
  <2> QED
    BY <2>1, <2>2, <2>3, <2>4
<1>13. /\ OnlyMem(h2, u) /\ OnlyLinks(h, u, P) /\ Linked(u, P)
       /\ (NoneDropped(h, F) => NoneDropped(u, P))
  <2>1. Leaving(h, h2, F, b)
    BY <1>1, <1>5, <1>6, <1>12 DEF Leaving, F
  <2>2. /\ OnlyMem(h2, u) /\ OnlyLinks(h2, u, P) /\ Linked(u, P)
        /\ (NoneDropped(h, F) => NoneDropped(u, P))
    BY <1>0, <1>6, <1>12, <2>1, UnlinkLinked DEF u
  <2> QED
    BY <1>5, <1>6, <2>2 DEF OnlyLinks
<1>14. Linked(g, P) /\ (NoneDropped(h, F) => NoneDropped(g, P))
  <2>1. \A c \in P : g.mem[c] = u.mem[c]
    <3> SUFFICES ASSUME NEW c \in P PROVE g.mem[c] = u.mem[c]
      OBVIOUS
    <3>1. c \in Extent(h, c) /\ c \in B /\ c # b /\ c \in Rows
      BY <1>0, <1>1, BlockRows
    <3>2. c # Foot(h, b)
      BY <1>0, <1>1, <1>2, <3>1, BlocksApart
    <3> QED
      BY <1>10, <3>1, <3>2
  <2>2. \A a \in Rows : LinkRow(P, a) => g.mem[a] = u.mem[a]
    <3> SUFFICES ASSUME NEW a \in Rows, LinkRow(P, a) PROVE g.mem[a] = u.mem[a]
      OBVIOUS
    <3>1. a # b /\ a # Foot(h, b)
      BY <1>0, <1>1, TagsNoLinks
    <3> QED
      BY <1>10, <3>1
  <2>3. End(u) <= End(g) /\ g.head = u.head
    BY <1>8, <1>9, <1>10 DEF End, OnlyMem
  <2> HIDE DEF P
  <2> QED
    BY <1>8, <1>10, <1>13, <2>1, <2>2, <2>3, LinkedFrame
<1>15. \A c \in B : c # b => \A a \in Extent(h, c) : ~LinkRow(P, a) => g.mem[a] = h.mem[a]
  <2> SUFFICES ASSUME NEW c \in B, c # b, NEW a \in Extent(h, c), ~LinkRow(P, a)
               PROVE  g.mem[a] = h.mem[a]
    OBVIOUS
  <2>1. a \in Rows /\ a # b /\ a # Foot(h, b)
    BY <1>0, <1>1, <1>2, BlockRows, BlocksApart
  <2> QED
    BY <1>10, <1>13, <2>1 DEF OnlyLinks
<1>16. \A c \in B : c # b => g.mem[c] = h.mem[c] /\ g.mem[Foot(h, c)] = h.mem[Foot(h, c)]
  <2> SUFFICES ASSUME NEW c \in B, c # b
               PROVE  g.mem[c] = h.mem[c] /\ g.mem[Foot(h, c)] = h.mem[Foot(h, c)]
    OBVIOUS
  <2>1. /\ c \in Extent(h, c) /\ Foot(h, c) \in Extent(h, c)
        /\ ~LinkRow(P, c) /\ ~LinkRow(P, Foot(h, c))
    BY <1>0, <1>1, BlockRows, TagsNoLinks
  <2> QED
    BY <1>15, <2>1
<1>17. /\ Tiled(g, B)
       /\ TagAt(g, b) = Header(size, block) /\ TagAt(g, Foot(g, b)) = Footer(size, block)
       /\ \A c \in B : SizeAt(g, c) = SizeAt(h, c) /\ Foot(g, c) = Foot(h, c)
       /\ SameBlocks(h, g, B \ {b})
  <2>1. End(g) = End(h)
    BY <1>9, <1>10 DEF OnlyMem, End
  <2>2. Pair(Header(size, block), Footer(size, block), SizeAt(h, b))
    BY <1>7 DEF block, Pair
  <2>3. Retagged(h, g, B, b, Header(size, block), Footer(size, block))
    BY <1>1, <1>10, <1>16, <2>1, <2>2 DEF Retagged
  <2> QED
    BY <1>0, <1>10, <2>3, RetagTiled
<1>18. Frees(g, B) = P /\ Allocs(g, B) = Allocs(h, B) \cup {b}
  BY <1>1, <1>7, <1>17 DEF Frees, Allocs, SameBlocks, F
<1>19. Holds(g, b, size)
  <2>1. IsTag(g, b) /\ IsTag(g, Foot(g, b)) /\ size + Overhead <= block /\ b \in Int
    BY <1>1, <1>2, <1>10, <1>17, BlockRows DEF block
  <2> QED
    BY <1>2, <1>10, <1>17, <2>1, NewHolds
<1>20. Intact(h, g, Allocs(h, B))
  <2> SUFFICES ASSUME NEW c \in Allocs(h, B), NEW a \in Extent(h, c)
               PROVE  g.mem[a] = h.mem[a]
    BY DEF Intact
  <2>1. c \in B /\ c \notin F /\ c # b /\ c \notin P
    BY FreesAndAllocs DEF F
  <2>2. ~LinkRow(P, a)
    BY <1>0, <1>1, <2>1, LinkRowOf
  <2> QED
    BY <1>15, <2>1, <2>2
<1>21. Ordered(g, B)
  <2>1. ~g.fault
    BY <1>0, <1>5, <1>6, <1>10, <1>13 DEF OnlyMem
  <2> QED
    BY <1>0, <1>10, <1>11, <1>14, <1>17, <1>18, <2>1 DEF Ordered
<1>22. Served(h, B, g, B, {}, {b})
  <2>1. B \in SUBSET Rows
    BY <1>0, BlocksAreRows
  <2> QED
    BY <1>18, <1>20, <2>1 DEF Served
<1> QED
  BY <1>4, <1>11, <1>19, <1>21, <1>22

\* A block of block rows is good for a request of size rows.
RoomFor(block, size) ==
    /\ size \in Nat /\ block \in Nat /\ Aligned(block) /\ block >= MinBlock
    /\ size + Overhead <= block

\* A block of a heap in order is split: its first rows are allocated and the others
\* are a free block of their own.
LEMMA SplitOrdered ==
    ASSUME NEW h \in Heaps, NEW B, Ordered(h, B), NEW b \in Frees(h, B), NEW size, NEW block,
           RoomFor(block, size), Splits(h, b, block), Fine(Split(h, b, size, block))
    PROVE  LET g == Split(h, b, size, block)
               C == B \cup {b + block}
           IN  /\ Ordered(g, C) /\ h.slips \subseteq g.slips
               /\ Served(h, B, g, C, {}, {b}) /\ Holds(g, b, size)
<1> DEFINE F == Frees(h, B)
           P == F \ {b}
           rest == b + block
           s == SizeAt(h, b) - block
           C == B \cup {rest}
           Q == P \cup {rest}
           l == ListOf(SizeAt(h, b))
           m == ListOf(s)
           h0 == SetHead(h, l, Null)
           h1 == Allocate(h0, b, size, block)
           u == Unlink(h1, b)
           t3 == Unset(u, rest, FreeTag(s))
           t4 == Unset(u, Foot(h, b), FreeTag(s))
           h2 == WriteTags(u, rest, t3, t4)
           forgets == \/ h.head[l] # b \/ NextOf(h, b) # Null
                      \/ (m # l /\ h.head[m] # Null)
           h3 == Note(h2, "dropped", forgets)
           stale == h.mem[rest + 1] # Zero \/ h.mem[rest + 2] # Zero
           h4 == Note(h3, "links", stale)
           g == SetHead(h4, m, rest)
<1> /\ size \in Nat /\ block \in Nat /\ Aligned(block) /\ block >= MinBlock
    /\ size + Overhead <= block
  BY DEF RoomFor
<1>0. Tiled(h, B) /\ Linked(h, F) /\ ~h.fault /\ (h.slips = {} => NoneDropped(h, F))
  BY DEF Ordered
<1>1. F \in SUBSET B /\ b \in B /\ P \in SUBSET B /\ P \in SUBSET F
  BY FreesAndAllocs
<1>2. /\ b \in Nat /\ SizeAt(h, b) \in Nat /\ Foot(h, b) = b + SizeAt(h, b) - 1
      /\ b + SizeAt(h, b) <= End(h)
      /\ InHeap(h, b) /\ InHeap(h, Foot(h, b)) /\ Extent(h, b) \subseteq Rows
      /\ Foot(h, b) \in Nat
  BY <1>0, <1>1, BlockRows
<1>3. /\ s \in Nat /\ s > 4 /\ rest \in Nat /\ Foot(h, b) = rest + s - 1 /\ block >= 4
      /\ b + block - 1 \in Nat
      /\ rest \in Extent(h, b) /\ rest + 1 \in Extent(h, b) /\ rest + 2 \in Extent(h, b)
      /\ b + block - 1 \in Extent(h, b) /\ Foot(h, b) \in Extent(h, b) /\ b \in Extent(h, b)
      /\ rest + 1 # Foot(h, b) /\ rest + 2 # Foot(h, b)
  <2>1. s \in Nat /\ s > 4 /\ rest \in Nat /\ Foot(h, b) = rest + s - 1 /\ block >= 4
        /\ b + block - 1 \in Nat /\ SizeAt(h, b) = block + s
    BY <1>2 DEF Splits, MinBlock
  <2> HIDE DEF s, rest
  <2>2. rest = b + block
    BY DEF rest
  <2> QED
    BY <1>2, <2>1, <2>2 DEF Extent
<1>4. Split(h, b, size, block) = g
  <2>1. FreeTag(s).size = s
    BY DEF FreeTag, Tag
  <2> QED
    BY <2>1 DEF Split
<1>5. l \in Lists /\ m \in Lists /\ Class(h, b) = l
  BY <1>2, <1>3, ListOfTyped DEF Class
<1>6. FreeTag(s) \in Tags /\ FreeTag(s).size = s /\ ~FreeTag(s).allocated
  BY <1>3, RowKinds DEF FreeTag, Tag
<1> HIDE DEF F, s, l, m, forgets, stale
<1>7. /\ h0 \in Heaps /\ h0.mem = h.mem /\ h0.pages = h.pages /\ h0.fault = h.fault
      /\ h0.slips = h.slips
      /\ \A k \in Lists : h0.head[k] = IF k = l THEN Null ELSE h.head[k]
  <2>1. Null \in Int
    BY DEF Null
  <2> QED
    BY <1>5, <2>1, SetHeadEffect
<1> HIDE DEF h0
<1>8. /\ Header(size, block) \in Tags /\ Footer(size, block) \in Tags
      /\ Header(size, block).size = block /\ Header(size, block).allocated
      /\ Pair(Header(size, block), Footer(size, block), block)
      /\ h1 = WriteTags(h0, b, Header(size, block), Footer(size, block))
  <2>1. /\ Header(size, block) \in Tags /\ Footer(size, block) \in Tags
        /\ Header(size, block).size = block /\ Footer(size, block).size = block
        /\ Header(size, block).allocated /\ Footer(size, block).allocated
        /\ Header(size, block).padded = Footer(size, block).padded
        /\ h1 = WriteTags(h0, b, Header(size, block), Footer(size, block))
    BY AllocTags
  <2>2. Footer(size, block).allocated = Header(size, block).allocated
    BY <2>1 DEF Tags
  <2> QED
    BY <2>1, <2>2 DEF Pair
<1> HIDE DEF h1
<1>9. End(h0) = End(h) /\ End(h) \in Nat
  BY <1>7, EndBounds DEF End
<1>10. /\ h1 \in Heaps /\ OnlyMem(h0, h1)
       /\ h1.mem[b] = Header(size, block) /\ h1.mem[b + block - 1] = Footer(size, block)
       /\ \A r \in Rows : r # b /\ r # b + block - 1 => h1.mem[r] = h.mem[r]
  <2>1. InHeap(h0, b) /\ InHeap(h0, b + Header(size, block).size - 1)
        /\ Header(size, block).size >= MinBlock /\ b \in Int
    BY <1>2, <1>3, <1>8, <1>9 DEF InHeap, MinBlock
  <2>2. /\ WriteTags(h0, b, Header(size, block), Footer(size, block)) \in Heaps
        /\ OnlyMem(h0, WriteTags(h0, b, Header(size, block), Footer(size, block)))
        /\ h1.mem[b] = Header(size, block)
        /\ h1.mem[b + Header(size, block).size - 1] = Footer(size, block)
        /\ \A r \in Rows : r # b /\ r # b + Header(size, block).size - 1 => h1.mem[r] = h0.mem[r]
    BY <1>7, <1>8, <2>1, WriteTagsEffect
  <2> QED
    BY <1>7, <1>8, <2>2
<1>11. \A c \in B : c # b => \A a \in Extent(h, c) : a \in Rows /\ a \notin Extent(h, b)
  BY <1>0, <1>1, BlockRows, BlocksApart
<1>12. \A a \in Rows : LinkRow(F, a) => a # b /\ a # Foot(h, b) /\ a # b + block - 1 /\ a # rest
  <2> SUFFICES ASSUME NEW a \in Rows, LinkRow(F, a),
                      a = b \/ a = Foot(h, b) \/ a = b + block - 1 \/ a = rest
               PROVE  FALSE
    OBVIOUS
  <2>1. a = b + 1 \/ a = b + 2
    BY <1>0, <1>1, <1>3, LinkRowOf
  <2>2. a # b /\ a # Foot(h, b)
    BY <1>0, <1>1, TagsNoLinks
  <2> QED
    BY <1>2, <1>3, <2>1, <2>2
<1>13. \A k \in Lists : h1.head[k] = IF k = l THEN Null ELSE h.head[k]
  BY <1>7, <1>10 DEF OnlyMem
<1>14. \A k \in Lists : h.head[k] = b => k = l
  <2>1. b # Null
    BY <1>2 DEF Null
  <2> QED
    BY <1>0, <1>5, <2>1 DEF Linked, Heads
<1>15. /\ u \in Heaps /\ OnlyMem(h1, u) /\ OnlyLinks(h1, u, P) /\ Linked(u, P)
       /\ (NoneDropped(h, F) /\ ~forgets => NoneDropped(u, P))
  <2>1. Leaving(h, h1, F, b)
    <3>1. b \in F /\ h1.pages = h.pages
      BY <1>7, <1>10 DEF OnlyMem, F
    <3>2. \A c \in F \ {b} : h1.mem[c] = h.mem[c]
      <4> SUFFICES ASSUME NEW c \in F, c # b PROVE h1.mem[c] = h.mem[c]
        OBVIOUS
      <4>1. c \in Extent(h, c) /\ c \in B
        BY <1>0, <1>1, BlockRows
      <4>2. c \in Rows /\ c # b /\ c # b + block - 1
        BY <1>3, <1>11, <4>1
      <4> QED
        BY <1>10, <4>2
    <3>3. \A a \in Rows : LinkRow(F, a) => h1.mem[a] = h.mem[a]
      BY <1>10, <1>12
    <3>4. \A k \in Lists : \/ h1.head[k] = Null
                           \/ h.head[k] # b /\ h1.head[k] = h.head[k]
                           \/ h.head[k] = b /\ h1.head[k] = NextOf(h, b)
      BY <1>13, <1>14
    <3> QED
      BY <3>1, <3>2, <3>3, <3>4 DEF Leaving
  <2>2. ~forgets => \A k \in Lists : h1.head[k] = IF h.head[k] = b THEN NextOf(h, b) ELSE h.head[k]
    <3>1. ~forgets => h.head[l] = b /\ NextOf(h, b) = Null
      BY DEF forgets
    <3> QED
      BY <1>13, <1>14, <3>1
  <2> QED
    BY <1>0, <1>10, <2>1, <2>2, UnlinkLinked
<1> HIDE DEF u
<1>16. End(u) = End(h) /\ u.slips = h.slips /\ u.fault = h.fault /\ u.pages = h.pages
       /\ \A k \in Lists : u.head[k] = IF k = l THEN Null ELSE h.head[k]
  BY <1>7, <1>10, <1>13, <1>15 DEF OnlyMem, End
<1> DEFINE clean == FreeTag(s)
<1>34. Pair(t3, t4, s) /\ ~t3.allocated /\ t3.size = s
  <2>1. u \in Heaps /\ rest \in Int /\ Foot(h, b) \in Int
    BY <1>2, <1>3, <1>15
  <2>2. clean \in Tags /\ clean.size = s /\ ~clean.allocated
    BY <1>6
  <2>3. t3 = Unset(u, rest, clean) /\ t4 = Unset(u, Foot(h, b), clean)
    OBVIOUS
  <2> HIDE DEF clean, rest, t3, t4
  <2>4. /\ t3 \in Tags /\ t3.size = s /\ t3.allocated = clean.allocated
        /\ t4 \in Tags /\ t4.size = s /\ t4.allocated = clean.allocated
    BY <2>1, <2>2, <2>3, UnsetTag
  <2> QED
    BY <2>2, <2>4 DEF Pair
<1> HIDE DEF clean, t3, t4
<1>17. /\ h2 \in Heaps /\ OnlyMem(u, h2)
       /\ h2.mem[rest] = t3 /\ h2.mem[Foot(h, b)] = t4
       /\ \A r \in Rows : r # rest /\ r # Foot(h, b) => h2.mem[r] = u.mem[r]
  <2> HIDE DEF h2, rest
  <2>0. t3 \in Tags /\ t4 \in Tags /\ t3.size = s
    BY <1>34 DEF Pair
  <2>1. InHeap(u, rest) /\ InHeap(u, rest + t3.size - 1)
        /\ t3.size >= MinBlock /\ rest \in Int
    BY <1>2, <1>3, <1>9, <1>16, <2>0 DEF InHeap, MinBlock
  <2>2. /\ WriteTags(u, rest, t3, t4) \in Heaps
        /\ OnlyMem(u, WriteTags(u, rest, t3, t4))
        /\ WriteTags(u, rest, t3, t4).mem[rest] = t3
        /\ WriteTags(u, rest, t3, t4).mem[rest + t3.size - 1] = t4
        /\ \A r \in Rows : r # rest /\ r # rest + t3.size - 1
                           => WriteTags(u, rest, t3, t4).mem[r] = u.mem[r]
    BY <1>15, <2>0, <2>1, WriteTagsEffect
  <2>3. h2 = WriteTags(u, rest, t3, t4)
    BY DEF h2
  <2> QED
    BY <1>3, <2>0, <2>2, <2>3
<1> HIDE DEF h2
<1>18. /\ h3 \in Heaps /\ h3.mem = h2.mem /\ h3.pages = h2.pages /\ h3.fault = h2.fault
       /\ h3.head = h2.head
       /\ h3.slips = IF forgets THEN h2.slips \cup {"dropped"} ELSE h2.slips
  <2>1. "dropped" \in Slips /\ forgets \in BOOLEAN
    BY DEF Slips, forgets
  <2> QED
    BY <1>17, <2>1, NoteTyped
<1> HIDE DEF h3
<1>19. /\ h4 \in Heaps /\ h4.mem = h3.mem /\ h4.pages = h3.pages /\ h4.fault = h3.fault
       /\ h4.head = h3.head
       /\ h4.slips = IF stale THEN h3.slips \cup {"links"} ELSE h3.slips
  <2>1. "links" \in Slips /\ stale \in BOOLEAN
    BY DEF Slips, stale
  <2> QED
    BY <1>18, <2>1, NoteTyped
<1> HIDE DEF h4
<1>20. /\ g \in Heaps /\ g.mem = h2.mem /\ g.pages = h.pages /\ g.fault = h.fault
       /\ g.slips = h4.slips
  <2>1. rest \in Int
    BY <1>3
  <2>2. /\ h4.mem = h2.mem /\ h4.pages = h.pages /\ h4.fault = h.fault
    BY <1>16, <1>17, <1>18, <1>19 DEF OnlyMem
  <2> HIDE DEF rest
  <2>3. /\ g \in Heaps /\ g.mem = h4.mem /\ g.pages = h4.pages /\ g.fault = h4.fault
        /\ g.slips = h4.slips
    BY <1>5, <1>19, <2>1, SetHeadEffect
  <2> QED
    BY <2>2, <2>3
<1> HIDE DEF g
<1>21. ~stale /\ h.slips \subseteq g.slips /\ g.slips = h3.slips
       /\ (g.slips = {} => h.slips = {} /\ ~forgets)
  <2>1. g.slips \subseteq {"dropped"}
    BY <1>4 DEF Fine
  <2>2. ~stale
    <3>1. stale => "links" \in g.slips
      BY <1>19, <1>20
    <3> QED
      BY <2>1, <3>1
  <2>3. h2.slips = h.slips
    BY <1>16, <1>17 DEF OnlyMem
  <2>4. h3.slips = IF forgets THEN h.slips \cup {"dropped"} ELSE h.slips
    BY <1>18, <2>3
  <2>5. g.slips = h3.slips
    BY <1>19, <1>20, <2>2
  <2>6. CASE forgets
    BY <2>2, <2>4, <2>5, <2>6
  <2>7. CASE ~forgets
    BY <2>2, <2>4, <2>5, <2>7
  <2> QED
    BY <2>6, <2>7
<1>22. /\ g.mem[b] = Header(size, block) /\ g.mem[b + block - 1] = Footer(size, block)
       /\ g.mem[rest] = t3 /\ g.mem[Foot(h, b)] = t4
       /\ g.mem[rest + 1] = Zero /\ g.mem[rest + 2] = Zero
  <2>1. /\ b \in Rows /\ b + block - 1 \in Rows /\ rest + 1 \in Rows /\ rest + 2 \in Rows
        /\ b # rest /\ b # Foot(h, b) /\ b + block - 1 # rest /\ b + block - 1 # Foot(h, b)
        /\ rest + 1 # rest /\ rest + 2 # rest /\ rest + 1 # b /\ rest + 2 # b
        /\ rest + 1 # b + block - 1 /\ rest + 2 # b + block - 1
    BY <1>2, <1>3
  <2>2. /\ ~LinkRow(P, b) /\ ~LinkRow(P, b + block - 1)
        /\ ~LinkRow(P, rest + 1) /\ ~LinkRow(P, rest + 2)
    BY <1>0, <1>1, <1>3, LinkRowOf
  <2> HIDE DEF P, rest
  <2>3. u.mem[b] = h1.mem[b] /\ u.mem[b + block - 1] = h1.mem[b + block - 1]
        /\ u.mem[rest + 1] = h1.mem[rest + 1] /\ u.mem[rest + 2] = h1.mem[rest + 2]
    BY <1>15, <2>1, <2>2 DEF OnlyLinks
  <2>4. h1.mem[rest + 1] = Zero /\ h1.mem[rest + 2] = Zero
    BY <1>10, <1>21, <2>1 DEF stale
  <2> QED
    BY <1>3, <1>10, <1>17, <1>20, <2>1, <2>3, <2>4
<1>23. \A c \in B : c # b => \A a \in Extent(h, c) : ~LinkRow(P, a) => g.mem[a] = h.mem[a]
  <2> SUFFICES ASSUME NEW c \in B, c # b, NEW a \in Extent(h, c), ~LinkRow(P, a)
               PROVE  g.mem[a] = h.mem[a]
    OBVIOUS
  <2>1. a \in Rows /\ a # b /\ a # Foot(h, b) /\ a # b + block - 1 /\ a # rest
    BY <1>3, <1>11
  <2>2. u.mem[a] = h1.mem[a]
    BY <1>15, <2>1 DEF OnlyLinks
  <2> HIDE DEF rest
  <2> QED
    BY <1>10, <1>17, <1>20, <2>1, <2>2
<1>24. \A c \in B : c # b => g.mem[c] = h.mem[c] /\ g.mem[Foot(h, c)] = h.mem[Foot(h, c)]
  <2> SUFFICES ASSUME NEW c \in B, c # b
               PROVE  g.mem[c] = h.mem[c] /\ g.mem[Foot(h, c)] = h.mem[Foot(h, c)]
    OBVIOUS
  <2>1. /\ c \in Extent(h, c) /\ Foot(h, c) \in Extent(h, c)
        /\ ~LinkRow(P, c) /\ ~LinkRow(P, Foot(h, c))
    BY <1>0, <1>1, BlockRows, TagsNoLinks
  <2> QED
    BY <1>23, <2>1
<1>25. End(g) = End(h) /\ End(g) = End(h4) /\ End(h4) = End(h)
  BY <1>16, <1>17, <1>18, <1>19, <1>20 DEF End, OnlyMem
<1>26. /\ rest \notin B /\ rest \in Rows /\ Tiled(g, C)
       /\ SizeAt(g, b) = block /\ Foot(g, b) = b + block - 1
       /\ SizeAt(g, rest) = s /\ Foot(g, rest) = Foot(h, b)
       /\ TagAt(g, b) = Header(size, block) /\ TagAt(g, Foot(g, b)) = Footer(size, block)
       /\ TagAt(g, rest) = t3 /\ TagAt(g, Foot(g, rest)) = t4
       /\ SameBlocks(h, g, B \ {b})
  <2>1. Cut(h, g, B, b, block, Header(size, block), Footer(size, block), t3, t4)
    <3>1. SizeAt(h, b) - block = s /\ s >= MinBlock
      BY <1>3 DEF s, MinBlock
    <3>2. g.mem[b + block] = t3
      BY <1>22
    <3> QED
      BY <1>1, <1>34, <1>8, <1>22, <1>24, <1>25, <3>1, <3>2 DEF Cut
  <2> QED
    BY <1>0, <1>20, <2>1, SplitTiled DEF s
<1>27. Frees(g, C) = Q /\ Allocs(g, C) = Allocs(h, B) \cup {b}
  <2>1. \A c \in B : c # b => TagAt(g, c) = TagAt(h, c)
    BY <1>26 DEF SameBlocks
  <2> HIDE DEF rest
  <2> QED
    BY <1>1, <1>34, <1>8, <1>26, <2>1 DEF Frees, Allocs, F
<1>28. /\ Linked(h4, P) /\ (NoneDropped(h, F) /\ ~forgets => NoneDropped(h4, P))
  <2>1. \A c \in P : h4.mem[c] = u.mem[c]
    <3> SUFFICES ASSUME NEW c \in P PROVE h4.mem[c] = u.mem[c]
      OBVIOUS
    <3>1. c \in Extent(h, c) /\ c \in B /\ c # b
      BY <1>0, <1>1, BlockRows
    <3>2. c \in Rows /\ c # Foot(h, b) /\ c # rest
      BY <1>3, <1>11, <3>1
    <3> HIDE DEF rest
    <3> QED
      BY <1>17, <1>18, <1>19, <3>2
  <2>2. \A a \in Rows : LinkRow(P, a) => h4.mem[a] = u.mem[a]
    <3> SUFFICES ASSUME NEW a \in Rows, LinkRow(P, a) PROVE h4.mem[a] = u.mem[a]
      OBVIOUS
    <3>1. LinkRow(F, a)
      BY DEF LinkRow
    <3>2. a # rest /\ a # Foot(h, b)
      BY <1>12, <3>1
    <3> HIDE DEF rest
    <3> QED
      BY <1>17, <1>18, <1>19, <3>2
  <2>3. End(u) <= End(h4) /\ h4.head = u.head
    BY <1>9, <1>16, <1>17, <1>18, <1>19, <1>25 DEF OnlyMem
  <2> HIDE DEF P
  <2> QED
    BY <1>15, <1>19, <2>1, <2>2, <2>3, LinkedFrame
<1>29. Linked(g, Q) /\ (NoneDropped(h, F) /\ ~forgets => NoneDropped(g, Q))
  <2>1. rest \notin P /\ Spaced(h4, Q)
    <3>1. Q \in SUBSET C
      BY <1>1
    <3>2. Spaced(g, Q)
      <4> HIDE DEF C, Q
      <4> QED
        BY <1>20, <1>26, <3>1, BlocksSpaced
    <3> QED
      BY <1>1, <1>25, <1>26, <3>2 DEF Spaced
  <2>2. NextOf(h4, rest) = Null /\ PrevOf(h4, rest) = Null
    <3>1. InHeap(h4, rest + 1) /\ InHeap(h4, rest + 2)
      BY <1>2, <1>3, <1>9, <1>25 DEF InHeap
    <3>2. h4.mem[rest + 1] = Zero /\ h4.mem[rest + 2] = Zero
      BY <1>18, <1>19, <1>20, <1>22
    <3> QED
      BY <3>1, <3>2, FollowZero DEF NextOf, PrevOf
  <2>3. Class(h4, rest) = m
    <3>1. TagAt(h4, rest) = TagAt(g, rest)
      BY <1>18, <1>19, <1>20, <1>25 DEF TagAt, IsTag, InHeap
    <3> QED
      BY <1>26, <3>1 DEF Class, SizeAt, m
  <2>4. ~forgets => h4.head[m] = Null
    <3>1. h4.head[m] = IF m = l THEN Null ELSE h.head[m]
      BY <1>5, <1>16, <1>17, <1>18, <1>19 DEF OnlyMem
    <3> QED
      BY <3>1 DEF forgets
  <2>5. g = SetHead(h4, Class(h4, rest), rest)
    BY <2>3 DEF g
  <2> HIDE DEF P, rest
  <2> QED
    BY <1>19, <1>28, <2>1, <2>2, <2>3, <2>4, <2>5, AloneLinked
<1>30. Ordered(g, C)
  <2> HIDE DEF C, Q
  <2> QED
    BY <1>0, <1>20, <1>21, <1>26, <1>27, <1>29 DEF Ordered
<1>31. Holds(g, b, size)
  <2>1. IsTag(g, b) /\ IsTag(g, Foot(g, b)) /\ b \in Int
    BY <1>1, <1>2, <1>20, <1>26, BlockRows
  <2> QED
    BY <1>20, <1>26, <2>1, NewHolds
<1>32. Intact(h, g, Allocs(h, B))
  <2> SUFFICES ASSUME NEW c \in Allocs(h, B), NEW a \in Extent(h, c)
               PROVE  g.mem[a] = h.mem[a]
    BY DEF Intact
  <2>1. c \in B /\ c \notin F /\ c # b /\ c \notin P
    BY FreesAndAllocs DEF F
  <2>2. ~LinkRow(P, a)
    BY <1>0, <1>1, <2>1, LinkRowOf
  <2> QED
    BY <1>23, <2>1, <2>2
<1>33. Served(h, B, g, C, {}, {b})
  <2>1. C \in SUBSET Rows
    BY <1>20, <1>26, BlocksAreRows
  <2> HIDE DEF C
  <2> QED
    BY <1>27, <1>32, <2>1 DEF Served
<1> QED
  BY <1>4, <1>21, <1>30, <1>31, <1>33

-----------------------------------------------------------------------------
(* What has slipped is never forgotten, whatever state the heap is in. *)

\* g comes after h.
Later(h, g) == IsHeap(g) /\ h.slips \subseteq g.slips

LEMMA HeapsAreHeaps == ASSUME NEW h \in Heaps PROVE IsHeap(h) /\ Later(h, h)
<1>1. IsHeap(h)
  BY DEF Heaps, IsHeap
<1> QED
  BY <1>1 DEF Later

LEMMA LaterStill == ASSUME NEW h, NEW g, NEW k, Later(h, g), Later(g, k) PROVE Later(h, k)
BY DEF Later

LEMMA FieldsLater ==
    ASSUME NEW h, IsHeap(h), NEW x
    PROVE  /\ Later(h, [h EXCEPT !.mem = x]) /\ Later(h, [h EXCEPT !.head = x])
           /\ Later(h, [h EXCEPT !.pages = x]) /\ Later(h, [h EXCEPT !.fault = x])
           /\ h.slips \subseteq x => Later(h, [h EXCEPT !.slips = x])
BY DEF IsHeap, Later

LEMMA RequireLater == ASSUME NEW h, IsHeap(h), NEW ok PROVE Later(h, Require(h, ok))
<1>1. CASE ok
  BY <1>1 DEF Require, Later
<1>2. CASE ~ok
  BY <1>2, FieldsLater DEF Require
<1> QED
  BY <1>1, <1>2

LEMMA WriteLater == ASSUME NEW h, IsHeap(h), NEW a, NEW row PROVE Later(h, Write(h, a, row))
<1>1. CASE InHeap(h, a)
  <2>1. Write(h, a, row) = [h EXCEPT !.mem = [h.mem EXCEPT ![a] = row]]
    BY <1>1 DEF Write, IsHeap
  <2>2. ASSUME NEW x PROVE Later(h, [h EXCEPT !.mem = x])
    BY FieldsLater
  <2> QED
    BY <2>1, <2>2
<1>2. CASE ~InHeap(h, a)
  BY <1>2, RequireLater DEF Write
<1> QED
  BY <1>1, <1>2

LEMMA SetHeadLater == ASSUME NEW h, IsHeap(h), NEW l, NEW b PROVE Later(h, SetHead(h, l, b))
<1>1. SetHead(h, l, b) = [h EXCEPT !.head = [h.head EXCEPT ![l] = b]]
  BY DEF SetHead, IsHeap
<1>2. ASSUME NEW x PROVE Later(h, [h EXCEPT !.head = x])
  BY FieldsLater
<1> QED
  BY <1>1, <1>2

LEMMA NoteLater ==
    ASSUME NEW h, IsHeap(h), NEW slip, NEW happens
    PROVE  Later(h, Note(h, slip, happens))
<1>1. CASE happens
  <2>1. Note(h, slip, happens) = [h EXCEPT !.slips = h.slips \cup {slip}]
    BY <1>1 DEF Note, IsHeap
  <2>2. ASSUME NEW x, h.slips \subseteq x PROVE Later(h, [h EXCEPT !.slips = x])
    BY <2>2, FieldsLater
  <2>3. h.slips \subseteq h.slips \cup {slip}
    OBVIOUS
  <2> QED
    BY <2>1, <2>2, <2>3
<1>2. CASE ~happens
  BY <1>2 DEF Note, Later
<1> QED
  BY <1>1, <1>2

LEMMA UnlinkLater == ASSUME NEW h, IsHeap(h), NEW b PROVE Later(h, Unlink(h, b))
<1> DEFINE p == PrevOf(h, b)
           n == NextOf(h, b)
           h1 == Require(h, p # Wild /\ n # Wild)
           h2 == IF p >= 0 THEN Write(h1, p + 1, Link(n)) ELSE h1
           h3 == IF n >= 0 THEN Write(h2, n + 2, Link(p)) ELSE h2
<1>1. Unlink(h, b) = h3
  BY DEF Unlink
<1>2. IsHeap(h1) /\ Later(h, h1)
  BY RequireLater DEF Later
<1> HIDE DEF h1, p, n
<1>3. IsHeap(h2) /\ Later(h1, h2)
  BY <1>2, WriteLater DEF Later
<1> HIDE DEF h2
<1>4. Later(h2, h3)
  BY <1>3, WriteLater DEF Later
<1> HIDE DEF h3
<1> QED
  BY <1>1, <1>2, <1>3, <1>4, LaterStill

LEMMA WriteTagsLater ==
    ASSUME NEW h, IsHeap(h), NEW b, NEW header, NEW footer
    PROVE  Later(h, WriteTags(h, b, header, footer))
<1> DEFINE w == Write(h, b, header)
<1>1. IsHeap(w) /\ Later(h, w)
  BY WriteLater DEF Later
<1> HIDE DEF w
<1>2. Later(w, Write(w, b + header.size - 1, footer))
  BY <1>1, WriteLater
<1> QED
  BY <1>1, <1>2, LaterStill DEF WriteTags, w

LEMMA AllocateLater ==
    ASSUME NEW h, IsHeap(h), NEW b, NEW size, NEW block
    PROVE  Later(h, Allocate(h, b, size, block))
BY WriteTagsLater DEF Allocate

LEMMA PushLater == ASSUME NEW h, IsHeap(h), NEW b PROVE Later(h, Push(h, b))
<1> DEFINE l == ListOf(SizeAt(h, b))
           old == h.head[l]
           h0 == SetHead(h, l, b)
           h1 == Write(h0, b + 1, Link(old))
           h2 == Write(h1, b + 2, Zero)
           h3 == IF old # Null THEN Write(h2, old + 2, Link(b)) ELSE h2
<1>1. Push(h, b) = h3
  BY DEF Push
<1>2. IsHeap(h0) /\ Later(h, h0)
  BY SetHeadLater DEF Later
<1> HIDE DEF h0, l, old
<1>3. IsHeap(h1) /\ Later(h0, h1)
  BY <1>2, WriteLater DEF Later
<1> HIDE DEF h1
<1>4. IsHeap(h2) /\ Later(h1, h2)
  BY <1>3, WriteLater DEF Later
<1> HIDE DEF h2
<1>5. Later(h2, h3)
  BY <1>4, WriteLater DEF Later
<1> HIDE DEF h3
<1> QED
  BY <1>1, <1>2, <1>3, <1>4, <1>5, LaterStill

LEMMA CoalesceLater ==
    ASSUME NEW h, IsHeap(h), NEW left, NEW right, NEW listed
    PROVE  Later(h, Coalesce(h, left, right, listed))
<1> DEFINE l == ListOf(SizeAt(h, listed))
           size == SizeAt(h, left) + SizeAt(h, right)
           h1 == Unlink(h, listed)
           h2 == IF h.head[l] = listed THEN SetHead(h1, l, NextOf(h, listed)) ELSE h1
           h3 == WriteTags(h2, left, FreeTag(size), FreeTag(size))
<1>1. Coalesce(h, left, right, listed) = Push(h3, left)
  BY DEF Coalesce
<1>2. IsHeap(h1) /\ Later(h, h1)
  BY UnlinkLater DEF Later
<1> HIDE DEF h1, l, size
<1>3. IsHeap(h2) /\ Later(h1, h2)
  BY <1>2, SetHeadLater DEF Later
<1> HIDE DEF h2
<1>4. IsHeap(h3) /\ Later(h2, h3)
  BY <1>3, WriteTagsLater DEF Later
<1> HIDE DEF h3
<1>5. Later(h3, Push(h3, left))
  BY <1>4, PushLater
<1> QED
  BY <1>1, <1>2, <1>3, <1>4, <1>5, LaterStill

LEMMA FreeLater == ASSUME NEW h, IsHeap(h), NEW b PROVE Later(h, Free(h, b))
<1> DEFINE right == Foot(h, b) + 1
           size == SizeAt(h, b)
           h1 == Require(h, IsTag(h, right))
           h2 == WriteTags(h, b, FreeTag(size), FreeTag(size))
<1>1. Free(h, b) = IF ~Valid(h, b) THEN Require(h, FALSE)
                   ELSE IF right < End(h) /\ ~TagAt(h, right).allocated
                        THEN Coalesce(h1, b, right, right)
                        ELSE Push(h2, b)
  BY DEF Free
<1>2. IsHeap(h1) /\ Later(h, h1) /\ Later(h, Require(h, FALSE)) /\ IsHeap(h2) /\ Later(h, h2)
  BY RequireLater, WriteTagsLater DEF Later
<1> HIDE DEF h1, h2, right
<1>3. Later(h, Coalesce(h1, b, right, right))
  BY <1>2, CoalesceLater, LaterStill
<1>4. Later(h, Push(h2, b))
  BY <1>2, PushLater, LaterStill
<1> QED
  BY <1>1, <1>2, <1>3, <1>4

LEMMA TakeLater == ASSUME NEW h, IsHeap(h), NEW b, NEW size PROVE Later(h, Take(h, b, size))
<1> DEFINE l == ListOf(SizeAt(h, b))
           alone == NextOf(h, b) = Null /\ PrevOf(h, b) = Null
           h1 == IF alone THEN SetHead(h, l, Null) ELSE h
           h2 == Note(h1, "head", alone # (h.head[l] = b))
           h3 == Unlink(h2, b)
<1>1. Take(h, b, size) = Allocate(h3, b, size, SizeAt(h, b))
  BY DEF Take
<1>2. IsHeap(h1) /\ Later(h, h1)
  BY SetHeadLater DEF Later
<1> HIDE DEF h1
<1>3. IsHeap(h2) /\ Later(h1, h2)
  BY <1>2, NoteLater DEF Later
<1> HIDE DEF h2
<1>4. IsHeap(h3) /\ Later(h2, h3)
  BY <1>3, UnlinkLater DEF Later
<1> HIDE DEF h3
<1>5. Later(h3, Allocate(h3, b, size, SizeAt(h, b)))
  BY <1>4, AllocateLater
<1> QED
  BY <1>1, <1>2, <1>3, <1>4, <1>5, LaterStill

LEMMA SplitLater ==
    ASSUME NEW h, IsHeap(h), NEW b, NEW size, NEW block
    PROVE  Later(h, Split(h, b, size, block))
<1> DEFINE rest == b + block
           tag == FreeTag(SizeAt(h, b) - block)
           l == ListOf(SizeAt(h, b))
           m == ListOf(tag.size)
           h0 == SetHead(h, l, Null)
           h1 == Allocate(h0, b, size, block)
           u == Unlink(h1, b)
           h2 == WriteTags(u, rest, Unset(u, rest, tag), Unset(u, Foot(h, b), tag))
           h3 == Note(h2, "dropped", \/ h.head[l] # b \/ NextOf(h, b) # Null
                                     \/ (m # l /\ h.head[m] # Null))
           h4 == Note(h3, "links", h.mem[rest + 1] # Zero \/ h.mem[rest + 2] # Zero)
           g == SetHead(h4, m, rest)
<1>1. Split(h, b, size, block) = g
  BY DEF Split
<1>2. IsHeap(h0) /\ Later(h, h0)
  BY SetHeadLater DEF Later
<1> HIDE DEF h0, tag, rest, m, l
<1>3. IsHeap(h1) /\ Later(h0, h1)
  BY <1>2, AllocateLater DEF Later
<1> HIDE DEF h1
<1>4. IsHeap(u) /\ Later(h1, u)
  BY <1>3, UnlinkLater DEF Later
<1> HIDE DEF u
<1>5. IsHeap(h2) /\ Later(u, h2)
  BY <1>4, WriteTagsLater DEF Later
<1> HIDE DEF h2
<1>6. IsHeap(h3) /\ Later(h2, h3)
  BY <1>5, NoteLater DEF Later
<1> HIDE DEF h3
<1>7. IsHeap(h4) /\ Later(h3, h4)
  BY <1>6, NoteLater DEF Later
<1> HIDE DEF h4
<1>8. Later(h4, g)
  BY <1>7, SetHeadLater
<1> HIDE DEF g
<1> QED
  BY <1>1, <1>2, <1>3, <1>4, <1>5, <1>6, <1>7, <1>8, LaterStill

LEMMA PlaceLater ==
    ASSUME NEW h, IsHeap(h), NEW b, NEW size, NEW block
    PROVE  Later(h, Place(h, b, size, block).heap)
<1>1. Later(h, h) /\ Later(h, Require(h, FALSE)) /\ Later(h, MakeBlock(h, b, size, block))
  BY RequireLater, TakeLater, SplitLater DEF MakeBlock, Later
<1> QED
  BY <1>1 DEF Place, Result

LEMMA InitPageLater == ASSUME NEW h, IsHeap(h) PROVE Later(h, InitPage(h))
<1> DEFINE page == End(h)
           tag == FreeTag(PageSize)
           p == [h EXCEPT !.pages = @ + 1]
           grown == Write(p, page, Unset(p, page, tag))
           left == page - SizeAt(h, page - 1)
           l == ListOf(PageSize)
           h0 == IF h.head[l] # Null THEN Write(grown, page + 1, Link(h.head[l])) ELSE grown
           h1 == SetHead(h0, l, page)
           h2 == Note(h1, "links", h.mem[page + 2] # Zero
                                   \/ (h.head[l] = Null /\ h.mem[page + 1] # Zero))
           h3 == Note(h2, "footer", page # 0)
           r == Require(grown, IsTag(h, page - 1) /\ IsTag(h, left))
<1>1. InitPage(h) = IF page > 0 /\ ~TagAt(h, page - 1).allocated
                    THEN Coalesce(r, left, page, left)
                    ELSE Write(h3, PageSize - 1, Unset(h3, PageSize - 1, tag))
  BY DEF InitPage
<1>2. IsHeap(p) /\ Later(h, p)
  <2>1. p = [h EXCEPT !.pages = h.pages + 1]
    BY DEF IsHeap
  <2>2. ASSUME NEW x PROVE Later(h, [h EXCEPT !.pages = x])
    BY FieldsLater
  <2>3. Later(h, p)
    BY <2>1, <2>2
  <2> QED
    BY <2>3 DEF Later
<1> HIDE DEF p, page, tag, left, l
<1>3. IsHeap(grown) /\ Later(p, grown)
  BY <1>2, WriteLater DEF Later
<1> HIDE DEF grown
<1>4. IsHeap(h0) /\ Later(grown, h0)
  BY <1>3, WriteLater DEF Later
<1> HIDE DEF h0
<1>5. IsHeap(h1) /\ Later(h0, h1)
  BY <1>4, SetHeadLater DEF Later
<1> HIDE DEF h1
<1>6. IsHeap(h2) /\ Later(h1, h2)
  BY <1>5, NoteLater DEF Later
<1> HIDE DEF h2
<1>7. IsHeap(h3) /\ Later(h2, h3)
  BY <1>6, NoteLater DEF Later
<1> HIDE DEF h3
<1>8. Later(h3, Write(h3, PageSize - 1, Unset(h3, PageSize - 1, tag)))
  BY <1>7, WriteLater
<1>9. IsHeap(r) /\ Later(grown, r)
  BY <1>3, RequireLater DEF Later
<1> HIDE DEF r
<1>10. Later(r, Coalesce(r, left, page, left))
  BY <1>9, CoalesceLater
<1>11. Later(h, Coalesce(r, left, page, left))
  BY <1>2, <1>3, <1>9, <1>10, LaterStill
<1>12. Later(h, Write(h3, PageSize - 1, Unset(h3, PageSize - 1, tag)))
  BY <1>2, <1>3, <1>4, <1>5, <1>6, <1>7, <1>8, LaterStill
<1> QED
  BY <1>1, <1>11, <1>12

-----------------------------------------------------------------------------
(* findFirstFit: a list that is in order has an end, and MaxBlocks steps get *)
(* there.                                                                    *)

\* Blocks that lie apart are not more than MaxBlocks.
LEMMA FewBlocks ==
    ASSUME NEW h \in Heaps, NEW F, Spaced(h, F), NEW at \in [0..MaxBlocks -> F]
    PROVE  \E i, j \in 0..MaxBlocks : i < j /\ at[i] = at[j]
<1> DEFINE N == PageSize * MaxPages
           f == [k \in 0..MaxBlocks |-> at[k] \div 4]
<1>1. /\ N \in Nat /\ MaxBlocks \in Nat /\ MaxBlocks = N \div 4 /\ End(h) <= N
      /\ End(h) \in Nat
  <2>1. N \in Nat /\ End(h) <= N /\ End(h) \in Nat
    BY EndBounds
  <2> QED
    BY <2>1 DEF MaxBlocks, MinBlock
<1> HIDE DEF N
<1>2. \A b \in F : b \in Nat /\ b + 4 <= N
  BY <1>1 DEF Spaced, MinBlock
<1>3. \A b, c \in F : b < c => b + 4 <= c
  BY DEF Spaced, MinBlock
<1>4. \A b \in F : b \div 4 \in 0..(MaxBlocks - 1)
  BY <1>1, <1>2
<1>5. f \in [0..MaxBlocks -> 0..(MaxBlocks - 1)]
  BY <1>4
<1>6. PICK i \in 0..MaxBlocks, j \in 0..MaxBlocks : i # j /\ f[i] = f[j]
  <2>1. /\ IsFiniteSet(0..MaxBlocks) /\ IsFiniteSet(0..(MaxBlocks - 1))
        /\ Cardinality(0..(MaxBlocks - 1)) < Cardinality(0..MaxBlocks)
    <3>1. /\ Cardinality(0..MaxBlocks) = MaxBlocks + 1 /\ IsFiniteSet(0..MaxBlocks)
      BY <1>1, FS_Interval
    <3>2. MaxBlocks - 1 \in Int /\ MaxBlocks >= 0
      BY <1>1
    <3>3. /\ IsFiniteSet(0..(MaxBlocks - 1))
          /\ Cardinality(0..(MaxBlocks - 1)) =
                IF 0 > MaxBlocks - 1 THEN 0 ELSE (MaxBlocks - 1) - 0 + 1
      BY <3>2, FS_Interval
    <3> QED
      BY <1>1, <3>1, <3>3
  <2> HIDE DEF f
  <2> QED
    BY <1>5, <2>1, FS_PigeonHole
<1>7. at[i] \div 4 = at[j] \div 4 /\ at[i] \in F /\ at[j] \in F
  BY <1>6
<1>8. at[i] = at[j]
  BY <1>2, <1>3, <1>7
<1> QED
  BY <1>1, <1>6, <1>8

\* Linked blocks come to an end.
LEMMA ChainEnds ==
    ASSUME NEW h \in Heaps, NEW F, Strung(h, F), NEW at \in [0..MaxBlocks -> F],
           \A k \in 1..MaxBlocks : at[k] = NextOf(h, at[k - 1])
    PROVE  FALSE
<1>1. MaxBlocks \in Nat
  BY EndBounds DEF MaxBlocks, MinBlock
<1>2. PICK i \in 0..MaxBlocks, j \in 0..MaxBlocks : i < j /\ at[i] = at[j]
  BY FewBlocks DEF Strung
<1>3. \A k \in 1..MaxBlocks : PrevOf(h, at[k]) = at[k - 1]
  <2> SUFFICES ASSUME NEW k \in 1..MaxBlocks PROVE PrevOf(h, at[k]) = at[k - 1]
    OBVIOUS
  <2>1. at[k - 1] \in F /\ at[k] \in F /\ at[k] = NextOf(h, at[k - 1])
    BY <1>1
  <2>2. at[k] # Null
    BY <2>1 DEF Strung, Spaced, Null
  <2> QED
    BY <2>1, <2>2 DEF Strung, Chained
<1> DEFINE S == {at[k] : k \in i..j}
<1>4. \A b \in S : PrevOf(h, b) \in S
  <2> SUFFICES ASSUME NEW k \in i..j PROVE PrevOf(h, at[k]) \in S
    OBVIOUS
  <2>1. CASE k = i
    <3>1. j \in 1..MaxBlocks /\ j - 1 \in i..j
      BY <1>1, <1>2
    <3>2. PrevOf(h, at[k]) = at[j - 1]
      BY <1>2, <1>3, <2>1, <3>1
    <3> QED
      BY <3>1, <3>2
  <2>2. CASE k # i
    <3>1. k \in 1..MaxBlocks /\ k - 1 \in i..j
      BY <1>1, <1>2, <2>2
    <3> QED
      BY <1>3, <3>1
  <2> QED
    BY <2>1, <2>2
<1>5. S # {} /\ S \in SUBSET F
  <2>1. i \in i..j /\ i..j \subseteq 0..MaxBlocks
    BY <1>1, <1>2
  <2> QED
    BY <2>1
<1> HIDE DEF S
<1> QED
  BY <1>4, <1>5 DEF Strung, Acyclic

LEMMA SearchFinds ==
    ASSUME NEW h \in Heaps, NEW F, Strung(h, F), NEW l \in Lists, h.head[l] \in F \cup {Null},
           NEW n \in Nat, \A b \in F : IsTag(h, b)
    PROVE  \/ SearchList(h, l, n) = Null
           \/ SearchList(h, l, n) \in F /\ SizeAt(h, SearchList(h, l, n)) >= n
<1> DEFINE S == F \cup {Null}
           next == [b \in S |-> Onward(h, b, n)]
           at == CHOOSE f : f = [k \in 0..MaxBlocks |->
                                    IF k = 0 THEN h.head[l] ELSE Onward(h, f[k - 1], n)]
<1>1. MaxBlocks \in Nat
  BY EndBounds DEF MaxBlocks, MinBlock
<1>3. \A b \in S : NextOf(h, b) \in S \/ b = Null
  <2>1. \A b \in F : NextOf(h, b) # Null => NextOf(h, b) \in F
    BY DEF Strung, Chained
  <2> QED
    BY <2>1
<1>4. ~IsTag(h, Null)
  BY DEF IsTag, InHeap, Null
<1>5. next \in [S -> S]
  BY <1>3, <1>4 DEF Onward
<1>6. at = [k \in 0..MaxBlocks |-> IF k = 0 THEN h.head[l] ELSE Onward(h, at[k - 1], n)]
      /\ at \in [0..MaxBlocks -> S]
  <2>1. h.head[l] \in S /\ \A b \in S : next[b] = Onward(h, b, n)
    OBVIOUS
  <2> DEFINE c == h.head[l]
  <2> HIDE DEF next, S, c
  <2>2. PICK f \in [0..MaxBlocks -> S] :
            f[0] = h.head[l] /\ \A k \in 1..MaxBlocks : f[k] = next[f[k - 1]]
    <3>1. PICK f : Iterates(f, S, c, MaxBlocks, next)
      BY <1>1, <1>5, <2>1, Orbit DEF c
    <3> QED
      BY <3>1 DEF Iterates, c
  <2>3. \A k \in 0..MaxBlocks : f[k] = IF k = 0 THEN h.head[l] ELSE Onward(h, f[k - 1], n)
    <3> SUFFICES ASSUME NEW k \in 0..MaxBlocks
                 PROVE  f[k] = IF k = 0 THEN h.head[l] ELSE Onward(h, f[k - 1], n)
      OBVIOUS
    <3>1. k # 0 => k \in 1..MaxBlocks /\ k - 1 \in 0..MaxBlocks /\ f[k - 1] \in S
      BY <1>1
    <3> QED
      BY <2>1, <2>2, <3>1
  <2>4. f = [k \in 0..MaxBlocks |-> IF k = 0 THEN h.head[l] ELSE Onward(h, f[k - 1], n)]
    BY <2>3
  <2>5. at = [k \in 0..MaxBlocks |-> IF k = 0 THEN h.head[l] ELSE Onward(h, at[k - 1], n)]
    BY <2>4
  <2> HIDE DEF at
  <2>6. 0 \in 0..MaxBlocks
    BY <1>1
  <2>7. at[0] = h.head[l] /\ \A k \in 1..MaxBlocks : at[k] = Onward(h, at[k - 1], n)
    BY <1>1, <2>5, <2>6
  <2>8. 0..MaxBlocks \subseteq {k \in 0..MaxBlocks : at[k] \in S}
    <3> DEFINE T == {k \in 0..MaxBlocks : at[k] \in S}
    <3>1. 0 \in T
      BY <2>1, <2>6, <2>7
    <3>2. ASSUME NEW k \in 0..(MaxBlocks - 1), k \in T PROVE k + 1 \in T
      <4>1. k + 1 \in 1..MaxBlocks /\ k + 1 \in 0..MaxBlocks /\ (k + 1) - 1 = k
        BY <1>1
      <4>2. at[k + 1] = Onward(h, at[k], n) /\ at[k] \in S
        BY <2>7, <3>2, <4>1
      <4>3. next[at[k]] \in S
        BY <1>5, <4>2
      <4> QED
        BY <2>1, <4>1, <4>2, <4>3
    <3> HIDE DEF T
    <3> QED
      BY <1>1, <3>1, <3>2, NatSetInduction DEF T
  <2> QED
    BY <2>5, <2>8
<1>7. SearchList(h, l, n) = IF at[MaxBlocks] = Null \/ Fits(h, at[MaxBlocks], n)
                            THEN at[MaxBlocks] ELSE Wild
  BY DEF SearchList
<1> HIDE DEF at, next
<1>8. \A k \in 0..MaxBlocks : at[k] \in S
  BY <1>6
<1>9. \A k \in 1..MaxBlocks : at[k] = Onward(h, at[k - 1], n) /\ k - 1 \in 0..MaxBlocks
  BY <1>1, <1>6
<1>10. at[MaxBlocks] = Null \/ Fits(h, at[MaxBlocks], n)
  <2> SUFFICES ASSUME at[MaxBlocks] # Null, ~Fits(h, at[MaxBlocks], n) PROVE FALSE
    OBVIOUS
  <2> DEFINE Stops(k) == at[k] = Null \/ Fits(h, at[k], n)
  <2>1. ASSUME NEW k \in 0..MaxBlocks, Stops(k) PROVE FALSE
    <3> DEFINE T == {i \in 0..MaxBlocks : Stops(i)}
    <3>1. k \in T /\ k \in Nat
      BY <2>1
    <3>2. ASSUME NEW i \in k..(MaxBlocks - 1), i \in T PROVE i + 1 \in T
      <4>1. i + 1 \in 1..MaxBlocks /\ i + 1 \in 0..MaxBlocks /\ (i + 1) - 1 = i /\ Stops(i)
        BY <1>1, <3>2
      <4>2. at[i + 1] = Onward(h, at[i], n)
        BY <1>9, <4>1
      <4>3. at[i + 1] = at[i]
        BY <1>4, <4>1, <4>2 DEF Onward
      <4> QED
        BY <4>1, <4>3
    <3>3. k..MaxBlocks \subseteq T
      <4> HIDE DEF T
      <4> QED
        BY <1>1, <3>1, <3>2, NatSetInduction
    <3>4. MaxBlocks \in k..MaxBlocks
      BY <1>1
    <3> QED
      BY <3>3, <3>4
  <2>2. \A k \in 0..MaxBlocks : at[k] \in F
    BY <1>8, <2>1
  <2>3. at \in [0..MaxBlocks -> F]
    BY <1>6, <2>2
  <2>4. \A k \in 1..MaxBlocks : at[k] = NextOf(h, at[k - 1])
    <3> SUFFICES ASSUME NEW k \in 1..MaxBlocks PROVE at[k] = NextOf(h, at[k - 1])
      OBVIOUS
    <3>1. at[k] = Onward(h, at[k - 1], n) /\ at[k - 1] \in F /\ ~Fits(h, at[k - 1], n)
      BY <1>9, <2>1, <2>2
    <3>2. IsTag(h, at[k - 1])
      BY <3>1
    <3> QED
      BY <3>1, <3>2 DEF Onward
  <2> QED
    BY <2>3, <2>4, ChainEnds
<1> QED
  BY <1>1, <1>7, <1>8, <1>10 DEF Fits

\* What is found is Null or a free block that is large enough.
LEMMA FirstFitFinds ==
    ASSUME NEW h \in Heaps, NEW B, Ordered(h, B), NEW n \in Nat
    PROVE  \/ FirstFit(h, n) = Null
           \/ FirstFit(h, n) \in Frees(h, B) /\ SizeAt(h, FirstFit(h, n)) >= n
<1> DEFINE F == Frees(h, B)
           found == [l \in Lists |-> SearchList(h, l, n)]
           some == {l \in Lists : found[l] # Null}
           first == CHOOSE l \in some : \A j \in some : l <= j
<1>1. Strung(h, F) /\ Heads(h, F) /\ Tiled(h, B)
  BY DEF Ordered, Linked
<1>2. \A b \in F : IsTag(h, b)
  BY <1>1, FreesAndAllocs, BlockRows
<1> HIDE DEF F
<1>3. \A l \in Lists : \/ found[l] = Null
                       \/ found[l] \in F /\ SizeAt(h, found[l]) >= n
  <2> SUFFICES ASSUME NEW l \in Lists
               PROVE  \/ SearchList(h, l, n) = Null
                      \/ SearchList(h, l, n) \in F /\ SizeAt(h, SearchList(h, l, n)) >= n
    OBVIOUS
  <2>1. h.head[l] \in F \cup {Null}
    BY <1>1 DEF Heads
  <2> QED
    BY <1>1, <1>2, <2>1, SearchFinds
<1>4. FirstFit(h, n) = IF some = {} THEN Null ELSE found[first]
  BY DEF FirstFit
<1> HIDE DEF found
<1>5. some # {} => first \in some
  <2> SUFFICES ASSUME some # {} PROVE \E l \in some : \A j \in some : l <= j
    OBVIOUS
  <2>1. some \subseteq Nat
    BY DEF Lists
  <2> HIDE DEF some
  <2> QED
    BY <2>1, LeastNumber
<1> QED
  BY <1>3, <1>4, <1>5 DEF F

-----------------------------------------------------------------------------
(* One call after another *)

\* A block that is served is where it was, with what it had.
LEMMA KeptBlock ==
    ASSUME NEW h \in Heaps, NEW g \in Heaps, NEW B, NEW C, Tiled(h, B), Tiled(g, C),
           NEW gone, NEW new, Served(h, B, g, C, gone, new), NEW b \in Allocs(h, B), b \notin gone
    PROVE  /\ b \in Allocs(g, C) /\ b \in B /\ b \in C
           /\ SizeAt(g, b) = SizeAt(h, b) /\ Foot(g, b) = Foot(h, b) /\ Extent(g, b) = Extent(h, b)
           /\ TagAt(g, b) = TagAt(h, b) /\ TagAt(g, Foot(g, b)) = TagAt(h, Foot(h, b))
           /\ \A n : Holds(h, b, n) => Holds(g, b, n)
<1>1. b \in Allocs(g, C) /\ b \in B /\ b \in C
  BY FreesAndAllocs DEF Served
<1>2. \A a \in Extent(h, b) : g.mem[a] = h.mem[a]
  BY DEF Served, Intact
<1>3. /\ b \in Extent(h, b) /\ Foot(h, b) \in Extent(h, b)
      /\ IsTag(h, b) /\ IsTag(h, Foot(h, b)) /\ IsTag(g, b) /\ IsTag(g, Foot(g, b))
  BY <1>1, BlockRows
<1>4. TagAt(g, b) = TagAt(h, b)
  BY <1>2, <1>3 DEF TagAt
<1>5. SizeAt(g, b) = SizeAt(h, b) /\ Foot(g, b) = Foot(h, b)
  BY <1>4 DEF SizeAt, Foot
<1>6. TagAt(g, Foot(g, b)) = TagAt(h, Foot(h, b))
  BY <1>2, <1>3, <1>5 DEF TagAt
<1>7. ASSUME NEW n, Holds(h, b, n) PROVE Holds(g, b, n)
  BY <1>3, <1>4, <1>5, <1>6, <1>7 DEF Holds, Valid
<1> QED
  BY <1>1, <1>4, <1>5, <1>6, <1>7 DEF Extent

LEMMA ServedThen ==
    ASSUME NEW h \in Heaps, NEW g \in Heaps, NEW k \in Heaps, NEW B, NEW C, NEW D,
           Tiled(h, B), Tiled(g, C), NEW gone, NEW new, NEW gone2, NEW new2,
           Served(h, B, g, C, gone, new), Served(g, C, k, D, gone2, new2)
    PROVE  Served(h, B, k, D, gone \cup gone2, (new \ gone2) \cup new2)
<1>1. D \in SUBSET Rows /\ Allocs(k, D) =
          (Allocs(h, B) \ (gone \cup gone2)) \cup ((new \ gone2) \cup new2)
  BY DEF Served
<1>2. Intact(h, k, Allocs(h, B) \ (gone \cup gone2))
  <2> SUFFICES ASSUME NEW b \in Allocs(h, B), b \notin gone, b \notin gone2,
                      NEW a \in Extent(h, b)
               PROVE  k.mem[a] = h.mem[a]
    BY DEF Intact
  <2>1. b \in Allocs(g, C) /\ a \in Extent(g, b)
    BY KeptBlock
  <2>2. g.mem[a] = h.mem[a]
    BY DEF Served, Intact
  <2>3. k.mem[a] = g.mem[a]
    BY <2>1 DEF Served, Intact
  <2> QED
    BY <2>2, <2>3
<1> QED
  BY <1>1, <1>2 DEF Served

LEMMA ServedSelf == ASSUME NEW h \in Heaps, NEW B, Tiled(h, B) PROVE Served(h, B, h, B, {}, {})
BY BlocksAreRows DEF Served, Intact

\* The heap is left in order: a free block b is allocated for size rows, and what was
\* allocated is as it was.
Grants(h, B, g, b, size) ==
    \E C \in SUBSET Rows :
        Ordered(g, C) /\ Served(h, B, g, C, {}, {b}) /\ Holds(g, b, size)
        /\ b \in Rows /\ b \notin Allocs(h, B)

LEMMA MakeBlockOrdered ==
    ASSUME NEW h \in Heaps, NEW B, Ordered(h, B), NEW b \in Frees(h, B), NEW size, NEW block,
           RoomFor(block, size), block <= SizeAt(h, b), Fine(MakeBlock(h, b, size, block))
    PROVE  Grants(h, B, MakeBlock(h, b, size, block), b, size)
<1> DEFINE g == MakeBlock(h, b, size, block)
<1>1. b \in Rows /\ b \notin Allocs(h, B) /\ SizeAt(h, b) \in Nat
  <2>1. Tiled(h, B) /\ b \in B
    BY FreesAndAllocs DEF Ordered
  <2> QED
    BY <2>1, FreesAndAllocs, BlockRows
<1>2. CASE Splits(h, b, block)
  <2>1. g = Split(h, b, size, block)
    BY <1>2 DEF MakeBlock
  <2>2. Fine(Split(h, b, size, block))
    BY <2>1
  <2> DEFINE C == B \cup {b + block}
  <2>3. Ordered(g, C) /\ Served(h, B, g, C, {}, {b}) /\ Holds(g, b, size)
    <3> HIDE DEF g
    <3> QED
      BY <1>2, <2>1, <2>2, SplitOrdered
  <2> HIDE DEF C, g
  <2>4. C \in SUBSET Rows
    BY <2>3 DEF Served
  <2> QED
    BY <1>1, <2>3, <2>4 DEF Grants, g
<1>3. CASE ~Splits(h, b, block)
  <2>1. g = Take(h, b, size)
    BY <1>3 DEF MakeBlock
  <2>2. Fine(Take(h, b, size)) /\ size + Overhead <= SizeAt(h, b) /\ size \in Nat
    BY <1>1, <2>1 DEF Overhead, RoomFor
  <2>3. Ordered(g, B) /\ Served(h, B, g, B, {}, {b}) /\ Holds(g, b, size)
    BY <2>1, <2>2, TakeOrdered
  <2> HIDE DEF g
  <2>4. B \in SUBSET Rows
    BY <2>3 DEF Served
  <2> QED
    BY <1>1, <2>3, <2>4 DEF Grants, g
<1> QED
  BY <1>2, <1>3

-----------------------------------------------------------------------------
(* initPage *)

LEMMA CoalesceTyped ==
    ASSUME NEW h \in Heaps, NEW left \in Int, NEW right \in Int, NEW listed \in Int
    PROVE  Coalesce(h, left, right, listed) \in Heaps
<1> DEFINE l == ListOf(SizeAt(h, listed))
           size == SizeAt(h, left) + SizeAt(h, right)
           h1 == Unlink(h, listed)
           h2 == IF h.head[l] = listed THEN SetHead(h1, l, NextOf(h, listed)) ELSE h1
           h3 == WriteTags(h2, left, FreeTag(size), FreeTag(size))
<1>1. Coalesce(h, left, right, listed) = Push(h3, left)
  BY DEF Coalesce
<1>2. h1 \in Heaps /\ NextOf(h, listed) \in Int
  BY UnlinkTyped, LinksTyped
<1>3. l \in Lists /\ FreeTag(size) \in Tags
  BY TagTyped, ListOfTyped, RowKinds
<1> HIDE DEF h1, l, size
<1>4. h2 \in Heaps
  BY <1>2, <1>3, SetHeadEffect
<1> HIDE DEF h2
<1>5. h3 \in Heaps
  BY <1>3, <1>4, WriteTagsTyped
<1> HIDE DEF h3
<1> QED
  BY <1>1, <1>5, PushTyped

\* One more page.
LEMMA PageAdded ==
    ASSUME NEW h \in Heaps, h.pages < MaxPages
    PROVE  LET p == [h EXCEPT !.pages = @ + 1]
           IN  /\ p \in Heaps /\ p.mem = h.mem /\ p.head = h.head /\ p.fault = h.fault
               /\ p.slips = h.slips /\ p.pages = h.pages + 1
               /\ End(p) = End(h) + PageSize
<1>1. h.pages \in Nat /\ PageSize \in Nat /\ MaxPages \in Nat
  BY EndBounds
<1>2. \A m, n \in Nat : (m + 1) * n = m * n + n
  OBVIOUS
<1> QED
  BY <1>1, <1>2 DEF Heaps, End

LEMMA InitPageTyped ==
    ASSUME NEW h \in Heaps, h.pages < MaxPages
    PROVE  InitPage(h) \in Heaps
<1> DEFINE page == End(h)
           tag == FreeTag(PageSize)
           p == [h EXCEPT !.pages = @ + 1]
           grown == Write(p, page, Unset(p, page, tag))
           left == page - SizeAt(h, page - 1)
           l == ListOf(PageSize)
           h0 == IF h.head[l] # Null THEN Write(grown, page + 1, Link(h.head[l])) ELSE grown
           h1 == SetHead(h0, l, page)
           stale == h.mem[page + 2] # Zero \/ (h.head[l] = Null /\ h.mem[page + 1] # Zero)
           h2 == Note(h1, "links", stale)
           h3 == Note(h2, "footer", page # 0)
           r == Require(grown, IsTag(h, page - 1) /\ IsTag(h, left))
<1>1. InitPage(h) = IF page > 0 /\ ~TagAt(h, page - 1).allocated
                    THEN Coalesce(r, left, page, left)
                    ELSE Write(h3, PageSize - 1, Unset(h3, PageSize - 1, tag))
  BY DEF InitPage
<1>2. PageSize \in Nat /\ page \in Nat /\ l \in Lists /\ tag \in Tags
  BY EndBounds, ListOfTyped, RowKinds
<1>3. left \in Int /\ h.head[l] \in Int /\ Link(h.head[l]) \in Contents
  <2>1. h.head[l] \in Int
    BY <1>2 DEF Heaps
  <2>2. SizeAt(h, page - 1) \in Nat
    BY <1>2, TagTyped
  <2> QED
    BY <1>2, <2>1, <2>2, RowKinds
<1>4. p \in Heaps
  BY PageAdded
<1>5. stale \in BOOLEAN /\ (page # 0) \in BOOLEAN /\ "links" \in Slips /\ "footer" \in Slips
  BY DEF Slips
<1>6. (IsTag(h, page - 1) /\ IsTag(h, left)) \in BOOLEAN
  OBVIOUS
<1> HIDE DEF page, tag, p, left, l, stale
<1>7. grown \in Heaps
  <2>1. Unset(p, page, tag) \in Contents /\ page \in Int
    BY <1>2, <1>4, UnsetTag
  <2> QED
    BY <1>4, <2>1, WriteTyped
<1> HIDE DEF grown
<1>8. h0 \in Heaps
  <2>1. page + 1 \in Int
    BY <1>2
  <2> QED
    BY <1>3, <1>7, <2>1, WriteTyped
<1> HIDE DEF h0
<1>9. h1 \in Heaps
  BY <1>2, <1>8, SetHeadEffect
<1> HIDE DEF h1
<1>10. h2 \in Heaps
  BY <1>5, <1>9, NoteTyped
<1> HIDE DEF h2
<1>11. h3 \in Heaps
  BY <1>5, <1>10, NoteTyped
<1> HIDE DEF h3
<1>12. Write(h3, PageSize - 1, Unset(h3, PageSize - 1, tag)) \in Heaps
  <2>1. PageSize - 1 \in Int
    BY <1>2
  <2>2. Unset(h3, PageSize - 1, tag) \in Contents
    BY <1>2, <1>11, <2>1, UnsetTag
  <2> QED
    BY <1>11, <2>1, <2>2, WriteTyped
<1>13. r \in Heaps
  BY <1>7, RequireTyped
<1> HIDE DEF r
<1>14. Coalesce(r, left, page, left) \in Heaps
  BY <1>2, <1>3, <1>13, CoalesceTyped
<1> QED
  BY <1>1, <1>12, <1>14

\* The block that ends where row a begins.
LEMMA LastBlock ==
    ASSUME NEW h \in Heaps, NEW B, Tiled(h, B), End(h) > 0
    PROVE  \E b \in B : /\ b + SizeAt(h, b) = End(h)
                        /\ Foot(h, b) = End(h) - 1
                        /\ \A c \in B : c <= b
<1>1. End(h) \in Nat
  BY EndBounds
<1> DEFINE T == {End(h) - b : b \in B}
<1>2. \A b \in B : b \in Nat /\ SizeAt(h, b) \in Nat /\ SizeAt(h, b) >= 4 /\ b < End(h)
                   /\ Foot(h, b) = b + SizeAt(h, b) - 1
  <2> SUFFICES ASSUME NEW b \in B
               PROVE  b \in Nat /\ SizeAt(h, b) \in Nat /\ SizeAt(h, b) >= 4 /\ b < End(h)
                      /\ Foot(h, b) = b + SizeAt(h, b) - 1
    OBVIOUS
  <2>1. b \in Nat /\ SizeAt(h, b) \in Nat /\ SizeAt(h, b) >= 4 /\ b + SizeAt(h, b) <= End(h)
        /\ Foot(h, b) = b + SizeAt(h, b) - 1
    BY BlockRows
  <2> QED
    BY <1>1, <2>1
<1>3. T \subseteq Nat /\ T # {}
  <2>1. 0 \in B
    BY DEF Tiled
  <2> QED
    BY <1>1, <1>2, <2>1
<1>4. PICK t \in T : \A y \in T : t <= y
  <2> HIDE DEF T
  <2> QED
    BY <1>3, LeastNumber
<1>5. PICK b \in B : t = End(h) - b
  BY <1>4
<1>6. \A c \in B : c <= b
  <2> SUFFICES ASSUME NEW c \in B PROVE c <= b
    OBVIOUS
  <2>1. End(h) - b <= End(h) - c
    BY <1>4, <1>5
  <2> QED
    BY <1>1, <1>2, <2>1
<1>7. b + SizeAt(h, b) \in B \cup {End(h)}
  BY DEF Tiled
<1>8. b + SizeAt(h, b) = End(h)
  <2>1. b + SizeAt(h, b) > b
    BY <1>2
  <2>2. b + SizeAt(h, b) \notin B
    BY <1>2, <1>6, <2>1
  <2> QED
    BY <1>7, <2>2
<1> QED
  BY <1>1, <1>2, <1>6, <1>8

\* A page joins the free block before it.
LEMMA PageJoins ==
    ASSUME NEW h \in Heaps, NEW B, Ordered(h, B), h.pages < MaxPages, NEW b \in Frees(h, B),
           b + SizeAt(h, b) = End(h), \A c \in B : c <= b
    PROVE  LET more == [h EXCEPT !.pages = @ + 1]
               grown == Write(more, End(h), Unset(more, End(h), FreeTag(PageSize)))
               g == Coalesce(grown, b, End(h), b)
           IN  Ordered(g, B) /\ Served(h, B, g, B, {}, {})
<1> DEFINE F == Frees(h, B)
           page == End(h)
           p == [h EXCEPT !.pages = @ + 1]
           tag == Unset(p, page, FreeTag(PageSize))
           grown == Write(p, page, tag)
           g == Coalesce(grown, b, page, b)
           s == SizeAt(h, b) + PageSize
           f == b + s - 1
           P == F \ {b}
           G == P \cup {b}
<1>0. Tiled(h, B) /\ Linked(h, F) /\ ~h.fault /\ (h.slips = {} => NoneDropped(h, F))
  BY DEF Ordered
<1>1. F \in SUBSET B /\ b \in B /\ b \in F /\ G = F /\ P \in SUBSET B
  BY FreesAndAllocs
<1>2. /\ b \in Nat /\ SizeAt(h, b) \in Nat /\ SizeAt(h, b) >= 4 /\ Aligned(SizeAt(h, b))
      /\ page \in Nat /\ PageSize \in Nat /\ PageSize >= 4 /\ Aligned(PageSize)
      /\ b + SizeAt(h, b) = page
  BY <1>0, <1>1, BlockRows, EndBounds DEF MinBlock
<1>3. /\ p \in Heaps /\ p.mem = h.mem /\ p.head = h.head /\ p.fault = h.fault
      /\ p.slips = h.slips /\ End(p) = page + PageSize
  BY PageAdded
<1>4. tag \in Contents /\ tag.size = PageSize /\ tag.kind = "tag"
  <2>1. FreeTag(PageSize) \in Tags /\ FreeTag(PageSize).size = PageSize /\ page \in Int
    BY <1>2, RowKinds DEF FreeTag, Tag
  <2> HIDE DEF p, page
  <2> QED
    BY <1>3, <2>1, UnsetTag
<1> HIDE DEF p, F, page, tag
<1>5. /\ grown \in Heaps /\ OnlyMem(p, grown)
      /\ \A r \in Rows : grown.mem[r] = IF r = page THEN tag ELSE h.mem[r]
      /\ page \in Rows
  <2>1. InHeap(p, page) /\ page \in Int
    BY <1>2, <1>3 DEF InHeap
  <2>2. /\ grown \in Heaps /\ OnlyMem(p, grown)
        /\ \A r \in Rows : grown.mem[r] = IF r = page THEN tag ELSE p.mem[r]
    BY <1>3, <1>4, <2>1, WriteEffect
  <2>3. page \in Rows
    BY <1>3, <2>1, RowsInHeap
  <2> QED
    BY <1>3, <2>2, <2>3
<1> HIDE DEF grown
<1>6. /\ grown.head = h.head /\ grown.fault = h.fault /\ grown.slips = h.slips
      /\ End(grown) = page + PageSize /\ End(h) = page /\ End(h) <= End(grown)
  BY <1>2, <1>3, <1>5 DEF OnlyMem, End, page
<1>7. \A c \in B : \A a \in Extent(h, c) : a \in Rows /\ a < page /\ grown.mem[a] = h.mem[a]
  <2> SUFFICES ASSUME NEW c \in B, NEW a \in Extent(h, c)
               PROVE  a \in Rows /\ a < page /\ grown.mem[a] = h.mem[a]
    OBVIOUS
  <2>1. a \in Rows /\ a \in Int /\ a <= Foot(h, c) /\ Foot(h, c) = c + SizeAt(h, c) - 1
        /\ c + SizeAt(h, c) <= page /\ c \in Nat /\ SizeAt(h, c) \in Nat
    BY <1>0, <1>6, BlockRows DEF Extent
  <2>2. a < page
    BY <1>2, <2>1
  <2> QED
    BY <1>2, <1>5, <2>1, <2>2
<1>8. \A c \in B : /\ c \in Extent(h, c) /\ c + 1 \in Extent(h, c) /\ c + 2 \in Extent(h, c)
                   /\ Foot(h, c) \in Extent(h, c)
  BY <1>0, BlockRows
<1>9. Linked(grown, F) /\ (NoneDropped(h, F) => NoneDropped(grown, F))
  <2>1. \A c \in F : grown.mem[c] = h.mem[c]
    BY <1>1, <1>7, <1>8
  <2>2. \A a \in Rows : LinkRow(F, a) => grown.mem[a] = h.mem[a]
    BY <1>1, <1>7, <1>8 DEF LinkRow
  <2> QED
    BY <1>0, <1>5, <1>6, <2>1, <2>2, LinkedFrame
<1>10. SizeAt(grown, b) = SizeAt(h, b) /\ SizeAt(grown, page) = PageSize
  <2>1. SizeAt(grown, b) = SizeAt(h, b)
    <3>1. InHeap(h, b) /\ b \in Int /\ grown.mem[b] = h.mem[b]
      BY <1>0, <1>1, <1>7, <1>8, BlockRows
    <3> QED
      BY <1>5, <1>6, <3>1, RowFrame
  <2>2. IsTag(grown, page)
    BY <1>2, <1>4, <1>5, <1>6 DEF IsTag, InHeap
  <2> QED
    BY <1>4, <1>5, <2>1, <2>2 DEF SizeAt, TagAt
<1>11. s \in Nat /\ s >= 4 /\ f = page + PageSize - 1 /\ b + s = End(grown) /\ f \in Nat
       /\ s = SizeAt(grown, b) + SizeAt(grown, page)
  BY <1>2, <1>6, <1>10
<1>12. Aligned(s) /\ Aligned(End(grown))
  <2>1. Aligned(page)
    BY <1>0 DEF Tiled, page
  <2>2. \A x, y \in Int : Aligned(x) /\ Aligned(y) => Aligned(x + y)
    BY AlignedSum
  <2>3. page \in Int /\ PageSize \in Int /\ SizeAt(h, b) \in Int
    BY <1>2
  <2> QED
    BY <1>2, <1>6, <2>1, <2>2, <2>3
<1> HIDE DEF s, f
<1>13. \A c \in B : f # c /\ f # c + 1 /\ f # c + 2 /\ f # Foot(h, c)
  <2> SUFFICES ASSUME NEW c \in B, f = c \/ f = c + 1 \/ f = c + 2 \/ f = Foot(h, c) PROVE FALSE
    OBVIOUS
  <2>1. f < page
    BY <1>7, <1>8
  <2> QED
    BY <1>2, <1>11, <2>1
<1>14. Joinable(grown, F, b, page, b, s)
  <2>1. Spaced(grown, G)
    BY <1>1, <1>9 DEF Linked, Strung
  <2>2. \A c \in P : f # c /\ ~LinkRow(P, f)
    BY <1>1, <1>13 DEF LinkRow
  <2>3. b + s - 1 = f /\ page \in Int /\ b + s <= End(grown) /\ s >= MinBlock
    BY <1>2, <1>6, <1>11 DEF f, MinBlock
  <2> QED
    BY <1>1, <1>2, <1>11, <2>1, <2>2, <2>3 DEF Joinable
<1>15. /\ g \in Heaps /\ g.pages = grown.pages /\ g.fault = grown.fault /\ g.slips = grown.slips
       /\ Linked(g, F) /\ (NoneDropped(grown, F) => NoneDropped(g, F))
       /\ Coalesced(grown, g, F, b, s)
  <2>1. F = (F \ {b}) \cup {b} /\ Linked(grown, F)
    BY <1>1, <1>9
  <2> QED
    BY <1>5, <1>14, <2>1, CoalesceLinked
<1> HIDE DEF g
<1>16. End(g) = End(grown)
  BY <1>15 DEF End
<1>17. \A c \in B : c # b => \A a \in Extent(h, c) : ~LinkRow(F, a) => g.mem[a] = h.mem[a]
  <2> SUFFICES ASSUME NEW c \in B, c # b, NEW a \in Extent(h, c), ~LinkRow(F, a)
               PROVE  g.mem[a] = h.mem[a]
    OBVIOUS
  <2>1. a # b
    BY <1>0, <1>1, <1>8, BlocksApart
  <2>2. a \in Rows /\ a < page /\ grown.mem[a] = h.mem[a]
    BY <1>7
  <2>3. a # f /\ b + s - 1 = f
    BY <1>2, <1>11, <2>2 DEF f
  <2> QED
    BY <1>15, <2>1, <2>2, <2>3 DEF Coalesced
<1>18. \A c \in B : c # b => g.mem[c] = h.mem[c] /\ g.mem[Foot(h, c)] = h.mem[Foot(h, c)]
  BY <1>0, <1>1, <1>8, <1>17, TagsNoLinks
<1>19. page \notin B
  <2> SUFFICES ASSUME page \in B PROVE FALSE
    OBVIOUS
  <2>1. page < page
    BY <1>7, <1>8
  <2> QED
    BY <1>2, <2>1
<1>20. Swallows(h, g, B, b, page, s)
  <2>1. \A c \in B : b < c /\ c # page => b + s <= c
    <3> SUFFICES ASSUME NEW c \in B, b < c PROVE FALSE
      OBVIOUS
    <3>1. c <= b /\ c \in Nat
      BY <1>0, BlockRows
    <3> QED
      BY <1>2, <3>1
  <2>2. g.mem[b] = FreeTag(s) /\ g.mem[b + s - 1] = FreeTag(s)
    BY <1>15 DEF Coalesced
  <2>3. b + s <= End(g) /\ b + s \in (B \ {page}) \cup {End(g)}
    BY <1>2, <1>11, <1>16
  <2>4. End(h) <= End(g) /\ page = End(h) /\ Aligned(End(g)) /\ page \in Int
    BY <1>2, <1>6, <1>12, <1>16
  <2>5. s \in Nat /\ Aligned(s) /\ s >= MinBlock
    BY <1>11, <1>12 DEF MinBlock
  <2>6. page = b + SizeAt(h, b)
    BY <1>2
  <2> QED
    BY <1>1, <1>18, <2>1, <2>2, <2>3, <2>4, <2>5, <2>6 DEF Swallows
<1>21. /\ Tiled(g, B) /\ TagAt(g, b) = FreeTag(s) /\ SameBlocks(h, g, B \ {b})
  <2>1. /\ Tiled(g, B \ {page}) /\ TagAt(g, b) = FreeTag(s)
        /\ SameBlocks(h, g, B \ {b, page})
    BY <1>0, <1>15, <1>20, MergeTiled
  <2>2. B \ {page} = B /\ B \ {b, page} = B \ {b}
    BY <1>19
  <2> QED
    BY <2>1, <2>2
<1>22. Frees(g, B) = F /\ Allocs(g, B) = Allocs(h, B)
  <2>1. ~FreeTag(s).allocated /\ ~TagAt(h, b).allocated
    BY DEF FreeTag, Tag, Frees
  <2> QED
    BY <1>1, <1>21, <2>1 DEF Frees, Allocs, SameBlocks, F
<1>23. Intact(h, g, Allocs(h, B))
  <2> SUFFICES ASSUME NEW c \in Allocs(h, B), NEW a \in Extent(h, c)
               PROVE  g.mem[a] = h.mem[a]
    BY DEF Intact
  <2>1. c \in B /\ c \notin F /\ c # b
    BY <1>1, FreesAndAllocs DEF F
  <2>2. ~LinkRow(F, a)
    BY <1>0, <1>1, <2>1, LinkRowOf
  <2> QED
    BY <1>17, <2>1, <2>2
<1>24. Ordered(g, B)
  BY <1>0, <1>6, <1>9, <1>15, <1>21, <1>22 DEF Ordered
<1>25. Served(h, B, g, B, {}, {})
  <2>1. B \in SUBSET Rows
    BY <1>0, BlocksAreRows
  <2> QED
    BY <1>22, <1>23, <2>1 DEF Served
<1> QED
  BY <1>24, <1>25 DEF g, grown, tag, p, page

\* The first page is one free block.
LEMMA FirstPage ==
    ASSUME NEW h \in Heaps, NEW B, Ordered(h, B), h.pages < MaxPages, End(h) = 0,
           Fine(InitPage(h))
    PROVE  Ordered(InitPage(h), {0}) /\ Served(h, B, InitPage(h), {0}, {}, {})
<1> DEFINE clean == FreeTag(PageSize)
           p == [h EXCEPT !.pages = @ + 1]
           tag == Unset(p, 0, clean)
           grown == Write(p, 0, tag)
           l == ListOf(PageSize)
           h1 == SetHead(grown, l, 0)
           stale == h.mem[2] # Zero \/ h.mem[1] # Zero
           h2 == Note(h1, "links", stale)
           last == Unset(h2, PageSize - 1, clean)
           g == Write(h2, PageSize - 1, last)
<1>0. Tiled(h, B) /\ Heads(h, Frees(h, B)) /\ ~h.fault
  BY DEF Ordered, Linked
<1>1. PageSize \in Nat /\ PageSize >= 4 /\ Aligned(PageSize) /\ l \in Lists
  BY EndBounds, ListOfTyped DEF MinBlock
<1>2. B = {}
  <2> SUFFICES ASSUME NEW b \in B PROVE FALSE
    OBVIOUS
  <2>1. b \in Nat /\ SizeAt(h, b) >= 4 /\ SizeAt(h, b) \in Nat /\ b + SizeAt(h, b) <= 0
    BY <1>0, BlockRows
  <2> QED
    BY <2>1
<1>3. \A k \in Lists : h.head[k] = Null
  BY <1>0, <1>2 DEF Heads, Frees
<1>4. InitPage(h) = g
  <2>1. End(h) = 0 /\ ~(End(h) > 0) /\ h.head[l] = Null /\ 0 + 2 = 2 /\ 0 + 1 = 1
    BY <1>1, <1>3
  <2> DEFINE t == h.mem[End(h) + 2] # Zero \/ (h.head[l] = Null /\ h.mem[End(h) + 1] # Zero)
             r0 == IF h.head[l] # Null
                   THEN Write(Write(p, End(h), Unset(p, End(h), clean)), End(h) + 1,
                              Link(h.head[l]))
                   ELSE Write(p, End(h), Unset(p, End(h), clean))
             r1 == SetHead(r0, l, End(h))
             r3 == Note(Note(r1, "links", t), "footer", End(h) # 0)
  <2>2. InitPage(h) = Write(r3, PageSize - 1, Unset(r3, PageSize - 1, clean))
    <3> HIDE DEF p, clean
    <3>1. InitPage(h) =
            IF End(h) > 0 /\ ~TagAt(h, End(h) - 1).allocated
            THEN Coalesce(Require(Write(p, End(h), Unset(p, End(h), clean)),
                                  IsTag(h, End(h) - 1) /\ IsTag(h, End(h) - SizeAt(h, End(h) - 1))),
                          End(h) - SizeAt(h, End(h) - 1), End(h),
                          End(h) - SizeAt(h, End(h) - 1))
            ELSE Write(r3, PageSize - 1, Unset(r3, PageSize - 1, clean))
      BY DEF InitPage, p, clean
    <3> HIDE DEF r3
    <3> QED
      BY <2>1, <3>1
  <2> HIDE DEF p, clean, l
  <2>3. t = stale
    BY <2>1
  <2>4. r0 = grown
    BY <2>1
  <2> HIDE DEF t, stale, r0, grown, tag
  <2>5. r1 = h1
    BY <2>1, <2>4
  <2> HIDE DEF r1, h1
  <2>6. r3 = h2
    BY <2>1, <2>3, <2>5 DEF Note
  <2> QED
    BY <2>2, <2>6
<1>5. /\ p \in Heaps /\ p.mem = h.mem /\ p.head = h.head /\ p.fault = h.fault
      /\ p.slips = h.slips /\ End(p) = PageSize
  <2>1. /\ p \in Heaps /\ p.mem = h.mem /\ p.head = h.head /\ p.fault = h.fault
        /\ p.slips = h.slips /\ End(p) = End(h) + PageSize
    BY PageAdded
  <2> QED
    BY <1>1, <2>1
<1>22. clean \in Tags /\ clean.size = PageSize /\ ~clean.allocated
  BY <1>1, RowKinds DEF FreeTag, Tag
<1> HIDE DEF p, clean, l, stale
<1>6. tag \in Tags /\ tag \in Contents /\ tag.size = PageSize /\ ~tag.allocated
      /\ tag.allocated = clean.allocated
  <2>1. 0 \in Int
    OBVIOUS
  <2> QED
    BY <1>5, <1>22, <2>1, UnsetTag
<1> HIDE DEF tag
<1>7. /\ grown \in Heaps /\ OnlyMem(p, grown) /\ 0 \in Rows
      /\ \A r \in Rows : grown.mem[r] = IF r = 0 THEN tag ELSE h.mem[r]
  <2>1. InHeap(p, 0)
    BY <1>1, <1>5 DEF InHeap
  <2>2. /\ grown \in Heaps /\ OnlyMem(p, grown)
        /\ \A r \in Rows : grown.mem[r] = IF r = 0 THEN tag ELSE p.mem[r]
    BY <1>5, <1>6, <2>1, WriteEffect
  <2>3. 0 \in Rows
    BY <1>5, <2>1, RowsInHeap
  <2> QED
    BY <1>5, <2>2, <2>3
<1> HIDE DEF grown
<1>8. /\ h1 \in Heaps /\ h1.mem = grown.mem /\ h1.pages = grown.pages /\ h1.fault = grown.fault
      /\ h1.slips = grown.slips
      /\ \A k \in Lists : h1.head[k] = IF k = l THEN 0 ELSE grown.head[k]
  BY <1>1, <1>7, SetHeadEffect
<1> HIDE DEF h1
<1>9. /\ h2 \in Heaps /\ h2.mem = h1.mem /\ h2.pages = h1.pages /\ h2.fault = h1.fault
      /\ h2.head = h1.head /\ h2.slips = IF stale THEN h1.slips \cup {"links"} ELSE h1.slips
  <2>1. "links" \in Slips /\ stale \in BOOLEAN
    BY DEF Slips, stale
  <2> QED
    BY <1>8, <2>1, NoteTyped
<1> HIDE DEF h2
<1>23. last \in Tags /\ last \in Contents /\ last.size = PageSize
       /\ last.allocated = clean.allocated
  <2>1. PageSize - 1 \in Int
    BY <1>1
  <2> QED
    BY <1>9, <1>22, <2>1, UnsetTag
<1> HIDE DEF last
<1>10. End(h2) = PageSize
  BY <1>5, <1>7, <1>8, <1>9 DEF OnlyMem, End
<1>11. /\ g \in Heaps /\ OnlyMem(h2, g) /\ PageSize - 1 \in Rows
       /\ \A r \in Rows : g.mem[r] = IF r = PageSize - 1 THEN last ELSE h2.mem[r]
  <2>1. InHeap(h2, PageSize - 1) /\ PageSize - 1 \in Int
    BY <1>1, <1>10 DEF InHeap
  <2>2. PageSize - 1 \in Rows
    BY <1>9, <2>1, RowsInHeap
  <2> QED
    BY <1>9, <1>23, <2>1, <2>2, WriteEffect
<1> HIDE DEF g
<1>12. ~stale /\ g.slips = h.slips /\ g.fault = h.fault /\ End(g) = PageSize
       /\ \A k \in Lists : g.head[k] = IF k = l THEN 0 ELSE Null
  <2>1. ~stale
    <3>1. stale => "links" \in g.slips
      BY <1>9, <1>11 DEF OnlyMem
    <3>2. "links" \notin g.slips
      BY <1>4 DEF Fine
    <3> QED
      BY <3>1, <3>2
  <2>2. End(g) = PageSize
    BY <1>10, <1>11 DEF OnlyMem, End
  <2> QED
    BY <1>3, <1>5, <1>7, <1>8, <1>9, <1>11, <2>1, <2>2 DEF OnlyMem
<1>13. g.mem[0] = tag /\ g.mem[PageSize - 1] = last /\ g.mem[1] = Zero /\ g.mem[2] = Zero
  <2>1. 1 \in Rows /\ 2 \in Rows
    <3>1. InHeap(g, 1) /\ InHeap(g, 2)
      BY <1>1, <1>12 DEF InHeap
    <3> QED
      BY <1>11, <3>1, RowsInHeap
  <2>2. 0 # PageSize - 1 /\ 1 # PageSize - 1 /\ 2 # PageSize - 1
    BY <1>1
  <2>3. h.mem[1] = Zero /\ h.mem[2] = Zero
    BY <1>12 DEF stale
  <2>4. h2.mem = grown.mem
    BY <1>8, <1>9
  <2>5. g.mem[PageSize - 1] = last
    BY <1>11
  <2>6. g.mem[0] = tag
    BY <1>7, <1>11, <2>2, <2>4
  <2>7. g.mem[1] = h.mem[1] /\ g.mem[2] = h.mem[2]
    <3>1. g.mem[1] = grown.mem[1] /\ g.mem[2] = grown.mem[2]
      BY <1>11, <2>1, <2>2, <2>4
    <3> QED
      BY <1>7, <2>1, <3>1
  <2> QED
    BY <2>3, <2>5, <2>6, <2>7
<1>14. NextOf(g, 0) = Null /\ PrevOf(g, 0) = Null
  <2>1. InHeap(g, 0 + 1) /\ InHeap(g, 0 + 2) /\ 0 + 1 = 1 /\ 0 + 2 = 2
    BY <1>1, <1>12 DEF InHeap
  <2>2. Follow(g, 1) = Null /\ Follow(g, 2) = Null
    BY <1>13, <2>1, FollowZero
  <2> QED
    BY <2>1, <2>2 DEF NextOf, PrevOf
<1>15. /\ BlockOf(g, 0) /\ Closed(g, 0) /\ SizeAt(g, 0) = PageSize /\ TagAt(g, 0) = tag
  <2>1. /\ 0 \in Nat /\ tag.size >= MinBlock /\ Aligned(tag.size) /\ 0 + tag.size <= End(g)
        /\ g.mem[0 + tag.size - 1] = last
    BY <1>1, <1>6, <1>12, <1>13 DEF MinBlock
  <2>2. /\ last.size = tag.size /\ last.allocated = tag.allocated
        /\ tag.allocated => last.padded = tag.padded
    BY <1>6, <1>23
  <2> QED
    BY <1>6, <1>11, <1>13, <1>23, <2>1, <2>2, NewBlock
<1>16. Class(g, 0) = l
  BY <1>15 DEF Class, l
<1>17. Tiled(g, {0})
  <2>1. Aligned(0) /\ Aligned(End(g))
    BY <1>1, <1>12 DEF Aligned
  <2>2. 0 + SizeAt(g, 0) = End(g)
    BY <1>1, <1>12, <1>15
  <2> QED
    BY <1>15, <2>1, <2>2 DEF Tiled
<1>18. Frees(g, {0}) = {0} /\ Allocs(g, {0}) = {} /\ Allocs(h, B) = {}
  BY <1>2, <1>6, <1>15 DEF Frees, Allocs
<1>19. Linked(g, {0}) /\ NoneDropped(g, {0})
  <2>1. Spaced(g, {0})
    BY <1>11, <1>17, BlocksSpaced
  <2>2. Chained(g, {0})
    BY <1>14 DEF Chained
  <2>3. Acyclic(g, {0})
    <3> SUFFICES ASSUME NEW S \in SUBSET {0}, S # {} PROVE \E b \in S : PrevOf(g, b) \notin S
      BY DEF Acyclic
    <3> DEFINE none == Null
    <3>0. none # 0
      BY DEF Null
    <3> HIDE DEF none
    <3>1. S = {0} /\ none \notin S
      BY <3>0
    <3>2. PrevOf(g, 0) = none
      BY <1>14 DEF none
    <3>3. 0 \in S /\ PrevOf(g, 0) \notin S
      BY <3>1, <3>2
    <3> QED
      BY <3>3
  <2>4. Classed(g, {0})
    BY <1>14 DEF Classed
  <2>5. Heads(g, {0})
    BY <1>12, <1>14, <1>16 DEF Heads
  <2>6. NoneDropped(g, {0})
    BY <1>1, <1>12, <1>16 DEF NoneDropped
  <2> QED
    BY <2>1, <2>2, <2>3, <2>4, <2>5, <2>6 DEF Linked, Strung
<1>20. Ordered(g, {0})
  BY <1>0, <1>11, <1>12, <1>17, <1>18, <1>19 DEF Ordered
<1>21. Served(h, B, g, {0}, {}, {})
  BY <1>7, <1>18 DEF Served, Intact
<1> QED
  BY <1>4, <1>20, <1>21

LEMMA InitPageOrdered ==
    ASSUME NEW h \in Heaps, NEW B, Ordered(h, B), h.pages < MaxPages, Fine(InitPage(h))
    PROVE  \E C \in SUBSET Rows : Ordered(InitPage(h), C) /\ Served(h, B, InitPage(h), C, {}, {})
<1>0. Tiled(h, B) /\ End(h) \in Nat
  BY EndBounds DEF Ordered
<1>1. CASE End(h) = 0
  <2>1. Ordered(InitPage(h), {0}) /\ Served(h, B, InitPage(h), {0}, {}, {})
    BY <1>1, FirstPage
  <2> QED
    BY <2>1 DEF Served
<1>2. CASE End(h) > 0 /\ ~TagAt(h, End(h) - 1).allocated
  <2>1. PICK b \in B : /\ b + SizeAt(h, b) = End(h) /\ Foot(h, b) = End(h) - 1
                       /\ \A c \in B : c <= b
    BY <1>0, <1>2, LastBlock
  <2>2. /\ IsTag(h, b) /\ IsTag(h, End(h) - 1) /\ b \in Nat /\ SizeAt(h, b) \in Nat
        /\ TagAt(h, End(h) - 1).size = SizeAt(h, b)
        /\ TagAt(h, End(h) - 1).allocated = TagAt(h, b).allocated
    <3>1. /\ IsTag(h, b) /\ IsTag(h, Foot(h, b)) /\ b \in Nat /\ SizeAt(h, b) \in Nat
      BY <1>0, <2>1, BlockRows
    <3>2. Closed(h, b)
      BY <1>0, <2>1 DEF Tiled
    <3>3. TagAt(h, Foot(h, b)).size = TagAt(h, b).size
          /\ TagAt(h, Foot(h, b)).allocated = TagAt(h, b).allocated
      BY <3>2 DEF Closed
    <3> QED
      BY <2>1, <3>1, <3>3 DEF SizeAt
  <2>3. b \in Frees(h, B)
    BY <1>2, <2>2 DEF Frees
  <2>4. End(h) - SizeAt(h, End(h) - 1) = b
    <3>1. SizeAt(h, End(h) - 1) = SizeAt(h, b)
      BY <2>2 DEF SizeAt
    <3> QED
      BY <1>0, <2>1, <2>2, <3>1
  <2> DEFINE more == [h EXCEPT !.pages = @ + 1]
             grown == Write(more, End(h), Unset(more, End(h), FreeTag(PageSize)))
             g == Coalesce(grown, b, End(h), b)
  <2>5. InitPage(h) = g
    <3>1. Require(grown, IsTag(h, End(h) - 1) /\ IsTag(h, b)) = grown
      BY <2>2 DEF Require
    <3> QED
      BY <1>2, <2>4, <3>1 DEF InitPage
  <2>6. Ordered(g, B) /\ Served(h, B, g, B, {}, {})
    BY <2>1, <2>3, PageJoins
  <2> HIDE DEF g
  <2> QED
    BY <2>5, <2>6 DEF Served
<1>3. CASE End(h) > 0 /\ TagAt(h, End(h) - 1).allocated
  <2> DEFINE tag == FreeTag(PageSize)
             l == ListOf(PageSize)
             more == [h EXCEPT !.pages = @ + 1]
             grown == Write(more, End(h), Unset(more, End(h), tag))
             h0 == IF h.head[l] # Null THEN Write(grown, End(h) + 1, Link(h.head[l])) ELSE grown
             h1 == SetHead(h0, l, End(h))
             h2 == Note(h1, "links", h.mem[End(h) + 2] # Zero
                                     \/ (h.head[l] = Null /\ h.mem[End(h) + 1] # Zero))
             h3 == Note(h2, "footer", End(h) # 0)
  <2>1. InitPage(h) = Write(h3, PageSize - 1, Unset(h3, PageSize - 1, tag))
    BY <1>3 DEF InitPage
  <2>2. [h EXCEPT !.pages = @ + 1] \in Heaps
    BY PageAdded
  <2>3. IsHeap([h EXCEPT !.pages = @ + 1])
    BY <2>2, HeapsAreHeaps
  <2> HIDE DEF tag, l
  <2>4. IsHeap(grown)
    BY <2>3, WriteLater DEF Later
  <2> HIDE DEF grown
  <2>5. IsHeap(h0)
    BY <2>4, WriteLater DEF Later
  <2> HIDE DEF h0
  <2>6. IsHeap(h1)
    BY <2>5, SetHeadLater DEF Later
  <2> HIDE DEF h1
  <2>7. IsHeap(h2)
    BY <2>6, NoteLater DEF Later
  <2> HIDE DEF h2
  <2>8. IsHeap(h3) /\ "footer" \in h3.slips
    <3>1. End(h) # 0
      BY <1>0, <1>3
    <3>2. h3 = [h2 EXCEPT !.slips = h2.slips \cup {"footer"}]
      BY <2>7, <3>1 DEF Note, IsHeap
    <3>3. h3.slips = h2.slips \cup {"footer"}
      BY <2>7, <3>2 DEF IsHeap
    <3> QED
      BY <2>7, <3>3, NoteLater DEF Later
  <2> HIDE DEF h3
  <2>9. "footer" \in InitPage(h).slips
    BY <2>1, <2>8, WriteLater DEF Later
  <2> QED
    BY <2>9 DEF Fine
<1> QED
  BY <1>0, <1>1, <1>2, <1>3

-----------------------------------------------------------------------------
(* sf_malloc *)

\* In g the blocks that were allocated in h are, as they were.
Keeps(h, B, g) == \E C \in SUBSET Rows : Ordered(g, C) /\ Served(h, B, g, C, {}, {})

LEMMA KeepsThen ==
    ASSUME NEW h \in Heaps, NEW B, Ordered(h, B), NEW g, NEW C, Ordered(g, C),
           Served(h, B, g, C, {}, {}), NEW k, Keeps(g, C, k)
    PROVE  Keeps(h, B, k)
<1>1. PICK D \in SUBSET Rows : Ordered(k, D) /\ Served(g, C, k, D, {}, {})
  BY DEF Keeps
<1>2. g \in Heaps /\ k \in Heaps /\ Tiled(h, B) /\ Tiled(g, C)
  BY <1>1 DEF Ordered
<1>3. Served(h, B, k, D, {} \cup {}, ({} \ {}) \cup {})
  BY <1>1, <1>2, ServedThen
<1>4. {} \cup {} = {} /\ ({} \ {}) \cup {} = {}
  OBVIOUS
<1>5. Served(h, B, k, D, {}, {})
  BY <1>3, <1>4
<1> QED
  BY <1>1, <1>5 DEF Keeps

LEMMA KeepsSelf == ASSUME NEW h \in Heaps, NEW B, Ordered(h, B) PROVE Keeps(h, B, h)
<1>1. Served(h, B, h, B, {}, {})
  BY ServedSelf DEF Ordered
<1> QED
  BY <1>1 DEF Keeps, Served

LEMMA GrowOrdered ==
    ASSUME NEW h \in Heaps, NEW n
    PROVE  /\ Grow(h, n) \in Heaps /\ Later(h, Grow(h, n))
           /\ \A B : Ordered(h, B) /\ Fine(Grow(h, n)) => Keeps(h, B, Grow(h, n))
<1>1. CASE Grow(h, n) = h
  BY <1>1, HeapsAreHeaps, KeepsSelf
<1>2. CASE h.pages < MaxPages /\ Grow(h, n) = InitPage(h)
  <2>1. IsHeap(h)
    BY HeapsAreHeaps
  <2>2. InitPage(h) \in Heaps /\ Later(h, InitPage(h))
    BY <1>2, <2>1, InitPageTyped, InitPageLater
  <2>3. ASSUME NEW B, Ordered(h, B), Fine(InitPage(h)) PROVE Keeps(h, B, InitPage(h))
    BY <1>2, <2>3, InitPageOrdered DEF Keeps
  <2> QED
    BY <1>2, <2>2, <2>3
<1> QED
  BY <1>1, <1>2 DEF Grow

\* The heaps that Provide goes through.
Growth(h, n, grown) ==
    /\ grown[0] = h
    /\ \A k \in 1..MaxPages : grown[k] = Grow(grown[k - 1], n)
    /\ Provide(h, n) = grown[MaxPages]

LEMMA ProvideGrows == ASSUME NEW h, NEW n PROVE \E grown : Growth(h, n, grown)
<1> DEFINE GoesOn(f, m) ==
               f = [k \in 0..m |-> f[k]] /\ f[0] = h /\ \A k \in 1..m : f[k] = Grow(f[k - 1], n)
           T == {m \in 0..MaxPages : \E f : GoesOn(f, m)}
           at == CHOOSE f : f = [k \in 0..MaxPages |-> IF k = 0 THEN h ELSE Grow(f[k - 1], n)]
<1>1. MaxPages \in Nat /\ 0 \in 0..MaxPages
  BY SfmmAssumption
<1>2. 0 \in T
  <2> DEFINE f == [k \in 0..0 |-> h]
  <2>1. f = [k \in 0..0 |-> f[k]] /\ f[0] = h
    OBVIOUS
  <2> HIDE DEF f
  <2>2. GoesOn(f, 0)
    BY <2>1
  <2> QED
    BY <1>1, <2>2
<1>3. ASSUME NEW m \in 0..(MaxPages - 1), m \in T PROVE m + 1 \in T
  <2>1. PICK f : GoesOn(f, m)
    BY <1>3
  <2> DEFINE g == [k \in 0..(m + 1) |-> IF k = m + 1 THEN Grow(f[m], n) ELSE f[k]]
  <2>2. m \in 0..MaxPages /\ m + 1 \in 0..MaxPages /\ m \in 0..m /\ m \in Nat
    BY <1>1
  <2>3. /\ g = [k \in 0..(m + 1) |-> g[k]] /\ g[m + 1] = Grow(f[m], n)
        /\ \A k \in 0..m : g[k] = f[k]
    BY <2>2
  <2> HIDE DEF g
  <2>4. ASSUME NEW k \in 1..(m + 1) PROVE g[k] = Grow(g[k - 1], n)
    <3>1. CASE k = m + 1
      <4>1. k - 1 = m
        BY <2>2, <3>1
      <4> QED
        BY <2>2, <2>3, <3>1, <4>1
    <3>2. CASE k # m + 1
      <4>1. k \in 1..m /\ k \in 0..m /\ k - 1 \in 0..m
        BY <2>2, <3>2
      <4> QED
        BY <2>1, <2>3, <4>1
    <3> QED
      BY <3>1, <3>2
  <2>5. g[0] = h
    BY <2>1, <2>2, <2>3
  <2>6. GoesOn(g, m + 1)
    BY <2>3, <2>4, <2>5
  <2> QED
    BY <2>2, <2>6
<1>4. MaxPages \in T
  <2> HIDE DEF T
  <2>1. 0..MaxPages \subseteq T
    BY <1>1, <1>2, <1>3, NatSetInduction
  <2> QED
    BY <1>1, <2>1
<1>5. PICK f : GoesOn(f, MaxPages)
  BY <1>4
<1>6. \A k \in 0..MaxPages : f[k] = IF k = 0 THEN h ELSE Grow(f[k - 1], n)
  BY <1>5
<1>7. f = [k \in 0..MaxPages |-> IF k = 0 THEN h ELSE Grow(f[k - 1], n)]
  BY <1>5, <1>6
<1>8. at = [k \in 0..MaxPages |-> IF k = 0 THEN h ELSE Grow(at[k - 1], n)]
  BY <1>7
<1>9. Provide(h, n) = at[MaxPages]
  BY DEF Provide
<1> HIDE DEF at
<1>10. at[0] = h
  BY <1>1, <1>8
<1>11. ASSUME NEW k \in 1..MaxPages PROVE at[k] = Grow(at[k - 1], n)
  <2>1. k \in 0..MaxPages /\ k # 0
    BY <1>1
  <2> QED
    BY <1>8, <2>1
<1> QED
  BY <1>9, <1>10, <1>11 DEF Growth

\* Whatever holds of the heap and stays so as a page is added holds in the end.
LEMMA ProvideLater == ASSUME NEW h, IsHeap(h), NEW n PROVE Later(h, Provide(h, n))
<1>1. PICK grown : Growth(h, n, grown)
  BY ProvideGrows
<1> DEFINE T == {k \in 0..MaxPages : Later(h, grown[k])}
<1>2. MaxPages \in Nat /\ 0 \in 0..MaxPages /\ MaxPages \in 0..MaxPages
  BY SfmmAssumption
<1>3. 0 \in T
  BY <1>1, <1>2 DEF Growth, Later
<1>4. ASSUME NEW k \in 0..(MaxPages - 1), k \in T PROVE k + 1 \in T
  <2>1. k + 1 \in 1..MaxPages /\ k + 1 \in 0..MaxPages /\ (k + 1) - 1 = k
    BY <1>2
  <2>2. grown[k + 1] = Grow(grown[k], n)
    BY <1>1, <2>1 DEF Growth
  <2>3. Later(h, grown[k])
    BY <1>4
  <2>4. Later(h, InitPage(grown[k]))
    BY <2>3, InitPageLater, LaterStill DEF Later
  <2>5. Later(h, grown[k + 1])
    BY <2>2, <2>3, <2>4 DEF Grow
  <2> QED
    BY <2>1, <2>5
<1>5. 0..MaxPages \subseteq T
  <2> HIDE DEF T
  <2> QED
    BY <1>2, <1>3, <1>4, NatSetInduction
<1>6. Later(h, grown[MaxPages])
  BY <1>2, <1>5
<1> QED
  BY <1>1, <1>6 DEF Growth

LEMMA ProvideOrdered ==
    ASSUME NEW h \in Heaps, NEW n
    PROVE  /\ Provide(h, n) \in Heaps /\ Later(h, Provide(h, n))
           /\ \A B : Ordered(h, B) /\ Fine(Provide(h, n)) => Keeps(h, B, Provide(h, n))
<1>0. PICK grown : Growth(h, n, grown)
  BY ProvideGrows
<1>2. MaxPages \in Nat /\ 0 \in 0..MaxPages /\ MaxPages \in 0..MaxPages
  BY EndBounds
<1>7. 0..MaxPages \subseteq {k \in 0..MaxPages : grown[k] \in Heaps}
  <2> DEFINE T == {k \in 0..MaxPages : grown[k] \in Heaps}
  <2>1. 0 \in T
    BY <1>0, <1>2 DEF Growth
  <2>2. ASSUME NEW k \in 0..(MaxPages - 1), k \in T PROVE k + 1 \in T
    <3>1. k + 1 \in 1..MaxPages /\ k + 1 \in 0..MaxPages /\ (k + 1) - 1 = k
      BY <1>2
    <3>2. grown[k + 1] = Grow(grown[k], n) /\ grown[k] \in Heaps
      BY <1>0, <2>2, <3>1 DEF Growth
    <3> QED
      BY <3>1, <3>2, GrowOrdered
  <2> HIDE DEF T
  <2> QED
    BY <1>2, <2>1, <2>2, NatSetInduction DEF T
<1>1. /\ \A k \in 0..MaxPages : grown[k] \in Heaps
      /\ grown[0] = h
      /\ \A k \in 1..MaxPages : grown[k] = Grow(grown[k - 1], n)
      /\ Provide(h, n) = grown[MaxPages]
  BY <1>0, <1>7 DEF Growth
<1>3. ASSUME NEW k \in 0..(MaxPages - 1)
      PROVE  /\ k \in 0..MaxPages /\ k + 1 \in 0..MaxPages /\ k \in Nat /\ k + 1 \in Nat
             /\ grown[k] \in Heaps /\ grown[k + 1] = Grow(grown[k], n)
  <2>1. k + 1 \in 1..MaxPages /\ k \in 0..MaxPages /\ (k + 1) - 1 = k /\ k + 1 \in 0..MaxPages
        /\ k \in Nat /\ k + 1 \in Nat
    BY <1>2
  <2> QED
    BY <1>1, <2>1
<1>4. ASSUME NEW i \in 0..MaxPages
      PROVE  \A k \in i..MaxPages : Later(grown[i], grown[k])
  <2> DEFINE T == {k \in 0..MaxPages : Later(grown[i], grown[k])}
  <2>1. i \in T /\ i \in Nat
    BY <1>1, <1>2, HeapsAreHeaps
  <2>2. ASSUME NEW k \in i..(MaxPages - 1), k \in T PROVE k + 1 \in T
    <3>1. k \in 0..(MaxPages - 1)
      BY <1>2
    <3>2. Later(grown[k], grown[k + 1])
      BY <1>3, <3>1, GrowOrdered
    <3>3. Later(grown[i], grown[k + 1])
      BY <2>2, <3>2, LaterStill
    <3> QED
      BY <1>3, <3>1, <3>3
  <2>3. i..MaxPages \subseteq T
    <3> HIDE DEF T
    <3> QED
      BY <1>2, <2>1, <2>2, NatSetInduction
  <2> QED
    BY <2>3
<1>5. Provide(h, n) \in Heaps /\ Later(h, Provide(h, n))
  <2>1. Later(grown[0], grown[MaxPages])
    BY <1>2, <1>4
  <2> QED
    BY <1>1, <1>2, <2>1
<1>6. ASSUME NEW B, Ordered(h, B), Fine(Provide(h, n)) PROVE Keeps(h, B, Provide(h, n))
  <2> DEFINE T == {k \in 0..MaxPages : Keeps(h, B, grown[k])}
  <2>1. 0 \in T
    BY <1>1, <1>2, <1>6, KeepsSelf
  <2>2. ASSUME NEW k \in 0..(MaxPages - 1), k \in T PROVE k + 1 \in T
    <3>1. Fine(grown[k + 1])
      <4>1. MaxPages \in (k + 1)..MaxPages
        BY <1>2
      <4>2. Later(grown[k + 1], grown[MaxPages])
        BY <1>3, <1>4, <4>1
      <4> QED
        BY <1>1, <1>6, <4>2 DEF Fine, Later
    <3>2. Keeps(h, B, grown[k])
      BY <2>2
    <3>3. PICK C \in SUBSET Rows : Ordered(grown[k], C) /\ Served(h, B, grown[k], C, {}, {})
      BY <3>2 DEF Keeps
    <3>4. Keeps(grown[k], C, grown[k + 1])
      BY <1>3, <3>1, <3>3, GrowOrdered
    <3>5. Keeps(h, B, grown[k + 1])
      BY <1>6, <3>3, <3>4, KeepsThen
    <3> QED
      BY <1>3, <3>5
  <2>3. 0..MaxPages \subseteq T
    <3> HIDE DEF T
    <3> QED
      BY <1>2, <2>1, <2>2, NatSetInduction
  <2> QED
    BY <1>1, <1>2, <2>3
<1> QED
  BY <1>5, <1>6

LEMMA KeepsGrants ==
    ASSUME NEW h \in Heaps, NEW B, Ordered(h, B), NEW g, NEW C, Ordered(g, C),
           Served(h, B, g, C, {}, {}), NEW k, NEW b, NEW size, Grants(g, C, k, b, size)
    PROVE  Grants(h, B, k, b, size)
<1>1. PICK D \in SUBSET Rows :
          Ordered(k, D) /\ Served(g, C, k, D, {}, {b}) /\ Holds(k, b, size)
          /\ b \in Rows /\ b \notin Allocs(g, C)
  BY DEF Grants
<1>2. g \in Heaps /\ k \in Heaps /\ Tiled(h, B) /\ Tiled(g, C)
  BY <1>1 DEF Ordered
<1>3. Served(h, B, k, D, {} \cup {}, ({} \ {}) \cup {b})
  BY <1>1, <1>2, ServedThen
<1>4. {} \cup {} = {} /\ ({} \ {}) \cup {b} = {b}
  OBVIOUS
<1>5. Served(h, B, k, D, {}, {b})
  BY <1>3, <1>4
<1>6. b \notin Allocs(h, B)
  BY <1>1 DEF Served
<1> QED
  BY <1>1, <1>5, <1>6 DEF Grants

LEMMA BlockForFits ==
    ASSUME NEW size \in Nat, size # 0
    PROVE  RoomFor(BlockFor(size), size)
BY DEF RoomFor, BlockFor, RoundUp, Overhead, Aligned, MinBlock

LEMMA MallocLater ==
    ASSUME NEW h, IsHeap(h), NEW size
    PROVE  Later(h, Malloc(h, size).heap)
<1> DEFINE p == Provide(h, BlockFor(size))
           r == FindAndPlace(p, size, BlockFor(size))
<1>1. Later(h, p)
  BY ProvideLater
<1> HIDE DEF p
<1>2. Later(p, r.heap)
  BY <1>1, PlaceLater DEF FindAndPlace, Later
<1>3. Later(h, r.heap)
  BY <1>1, <1>2, LaterStill
<1>4. Malloc(h, size) = IF size = 0 \/ size >= MaxPages * PageSize THEN Result(h, Null) ELSE r
  BY DEF Malloc, p
<1> HIDE DEF r
<1>5. Result(h, Null).heap = h
  BY DEF Result
<1> QED
  BY <1>3, <1>4, <1>5 DEF Later

\* sf_malloc gives a block that was free, or nothing.
LEMMA MallocOrdered ==
    ASSUME NEW h \in Heaps, NEW B, Ordered(h, B), NEW size \in Nat,
           NEW r, r = Malloc(h, size), Fine(r.heap)
    PROVE  \/ r.block = Null /\ Keeps(h, B, r.heap)
           \/ r.block # Null /\ Grants(h, B, r.heap, r.block, size)
<1> DEFINE n == BlockFor(size)
           p == Provide(h, n)
           b == FirstFit(p, n)
<1>1. CASE size = 0 \/ size >= MaxPages * PageSize
  <2>1. r.heap = h /\ r.block = Null
    BY <1>1 DEF Malloc, Result
  <2> QED
    BY <2>1, KeepsSelf
<1>2. CASE size # 0 /\ ~(size >= MaxPages * PageSize)
  <2>1. RoomFor(n, size) /\ n \in Nat
    BY <1>2, BlockForFits DEF RoomFor
  <2>2. r = Place(p, b, size, n)
    BY <1>2 DEF Malloc, FindAndPlace
  <2> HIDE DEF n
  <2>3. p \in Heaps /\ Later(h, p) /\ (Fine(p) => Keeps(h, B, p))
    BY ProvideOrdered
  <2>4. Later(p, r.heap)
    BY <2>2, <2>3, PlaceLater DEF Later
  <2>5. PICK C \in SUBSET Rows : Ordered(p, C) /\ Served(h, B, p, C, {}, {})
    BY <2>3, <2>4 DEF Fine, Later, Keeps
  <2> HIDE DEF p
  <2>6. \/ b = Null
        \/ b \in Frees(p, C) /\ SizeAt(p, b) >= n
    BY <2>1, <2>3, <2>5, FirstFitFinds
  <2> HIDE DEF b
  <2>7. CASE b = Null
    <3>1. r.heap = p /\ r.block = Null
      BY <2>2, <2>7 DEF Place, Result
    <3> QED
      BY <2>5, <3>1 DEF Keeps
  <2>8. CASE b # Null
    <3>1. b \in Frees(p, C) /\ n <= SizeAt(p, b) /\ b \in Nat
      <4>1. b \in Frees(p, C) /\ SizeAt(p, b) >= n
        BY <2>6, <2>8
      <4>2. Tiled(p, C) /\ b \in C
        BY <2>5, <4>1, FreesAndAllocs, <2>3 DEF Ordered
      <4>3. b \in Nat /\ SizeAt(p, b) \in Nat
        BY <2>3, <4>2, BlockRows
      <4> QED
        BY <2>1, <4>1, <4>3
    <3>2. b # Wild /\ ~p.fault
      BY <2>5, <3>1 DEF Wild, Ordered
    <3>3. r = Result(MakeBlock(p, b, size, n), b)
      BY <2>2, <2>8, <3>2 DEF Place
    <3>4. r.heap = MakeBlock(p, b, size, n)
      BY <3>3 DEF Result
    <3>5. Grants(p, C, MakeBlock(p, b, size, n), b, size)
      BY <2>1, <2>3, <2>5, <3>1, <3>4, MakeBlockOrdered
    <3>6. r.block = b
      BY <3>3, <3>5 DEF Result, Grants, Ordered
    <3>7. Grants(h, B, r.heap, b, size)
      BY <2>5, <3>4, <3>5, KeepsGrants
    <3> QED
      BY <2>8, <3>6, <3>7
  <2> QED
    BY <2>7, <2>8
<1> QED
  BY <1>1, <1>2

-----------------------------------------------------------------------------
(* An allocated block is written to *)

\* In g block b has another header and another footer, and any payload.
Rewritten(h, g, B, b, header, footer) ==
    /\ OnlyMem(h, g) /\ b \in Allocs(h, B)
    /\ Pair(header, footer, SizeAt(h, b)) /\ header.allocated
    /\ g.mem[b] = header /\ g.mem[Foot(h, b)] = footer
    /\ \A a \in Rows : a \notin Extent(h, b) => g.mem[a] = h.mem[a]

LEMMA RewrittenOrdered ==
    ASSUME NEW h \in Heaps, NEW g \in Heaps, NEW B, Ordered(h, B), NEW b, NEW header, NEW footer,
           Rewritten(h, g, B, b, header, footer)
    PROVE  /\ Ordered(g, B) /\ Served(h, B, g, B, {b}, {b})
           /\ Allocs(g, B) = Allocs(h, B)
           /\ SizeAt(g, b) = SizeAt(h, b) /\ Foot(g, b) = Foot(h, b)
           /\ TagAt(g, b) = header /\ TagAt(g, Foot(g, b)) = footer
<1> DEFINE F == Frees(h, B)
<1>0. Tiled(h, B) /\ Linked(h, F) /\ ~h.fault /\ (h.slips = {} => NoneDropped(h, F))
  BY DEF Ordered
<1>1. /\ OnlyMem(h, g) /\ b \in Allocs(h, B)
      /\ Pair(header, footer, SizeAt(h, b)) /\ header.allocated
      /\ g.mem[b] = header /\ g.mem[Foot(h, b)] = footer
      /\ \A a \in Rows : a \notin Extent(h, b) => g.mem[a] = h.mem[a]
  BY DEF Rewritten
<1>2. F \in SUBSET B /\ b \in B /\ b \notin F
  BY <1>1, FreesAndAllocs
<1>3. End(g) = End(h) /\ End(h) <= End(g) /\ g.head = h.head
  BY <1>1, EndBounds DEF OnlyMem, End
<1>4. \A c \in B : c # b => \A a \in Extent(h, c) : g.mem[a] = h.mem[a]
  <2> SUFFICES ASSUME NEW c \in B, c # b, NEW a \in Extent(h, c) PROVE g.mem[a] = h.mem[a]
    OBVIOUS
  <2>1. a \in Rows /\ a \notin Extent(h, b)
    BY <1>0, <1>2, BlockRows, BlocksApart
  <2> QED
    BY <1>1, <2>1
<1>5. \A c \in B : c # b => g.mem[c] = h.mem[c] /\ g.mem[Foot(h, c)] = h.mem[Foot(h, c)]
  BY <1>0, <1>4, BlockRows
<1>6. /\ Tiled(g, B)
      /\ TagAt(g, b) = header /\ TagAt(g, Foot(g, b)) = footer
      /\ \A c \in B : SizeAt(g, c) = SizeAt(h, c) /\ Foot(g, c) = Foot(h, c)
      /\ SameBlocks(h, g, B \ {b})
  <2>1. Retagged(h, g, B, b, header, footer)
    BY <1>1, <1>2, <1>3, <1>5 DEF Retagged
  <2> QED
    BY <1>0, <2>1, RetagTiled
<1>7. Frees(g, B) = F /\ Allocs(g, B) = Allocs(h, B)
  <2>1. \A c \in B : c # b => TagAt(g, c) = TagAt(h, c)
    BY <1>6 DEF SameBlocks
  <2>2. TagAt(g, b).allocated /\ TagAt(h, b).allocated
    BY <1>1, <1>6 DEF Allocs
  <2> QED
    BY <2>1, <2>2 DEF Frees, Allocs
<1>8. Linked(g, F) /\ (NoneDropped(h, F) => NoneDropped(g, F))
  <2>1. \A c \in F : g.mem[c] = h.mem[c]
    BY <1>2, <1>5
  <2>2. \A a \in Rows : LinkRow(F, a) => g.mem[a] = h.mem[a]
    <3> SUFFICES ASSUME NEW a \in Rows, LinkRow(F, a) PROVE g.mem[a] = h.mem[a]
      OBVIOUS
    <3>1. a \notin Extent(h, b)
      BY <1>0, <1>2, LinkRowOf
    <3> QED
      BY <1>1, <3>1
  <2> HIDE DEF F
  <2> QED
    BY <1>0, <1>3, <2>1, <2>2, LinkedFrame
<1>9. Ordered(g, B)
  BY <1>0, <1>1, <1>6, <1>7, <1>8 DEF Ordered, OnlyMem
<1>10. Served(h, B, g, B, {b}, {b})
  <2>1. B \in SUBSET Rows
    BY <1>0, BlocksAreRows
  <2>2. Intact(h, g, Allocs(h, B) \ {b})
    BY <1>4, FreesAndAllocs DEF Intact
  <2>3. Allocs(g, B) = (Allocs(h, B) \ {b}) \cup {b}
    BY <1>1, <1>7
  <2> QED
    BY <2>1, <2>2, <2>3 DEF Served
<1> QED
  BY <1>2, <1>6, <1>7, <1>9, <1>10

\* The rows of a payload lie between the header and the footer.
LEMMA PayloadInside ==
    ASSUME NEW h \in Heaps, NEW B, Tiled(h, B), NEW b \in B, NEW n \in Nat,
           n <= SizeAt(h, b) - Overhead, NEW i \in 1..n
    PROVE  /\ b + i \in Extent(h, b) /\ b + i \in Rows /\ b + i # b /\ b + i # Foot(h, b)
<1>1. /\ b \in Nat /\ SizeAt(h, b) \in Nat /\ Foot(h, b) = b + SizeAt(h, b) - 1
      /\ Extent(h, b) \subseteq Rows
  BY BlockRows
<1>2. b + i \in Extent(h, b)
  BY <1>1 DEF Extent, Overhead
<1> QED
  BY <1>1, <1>2 DEF Overhead

\* In g block b has any payload.
Filled(h, g, b) ==
    /\ OnlyMem(h, g)
    /\ \A a \in Rows : a \notin Extent(h, b) \/ a = b \/ a = Foot(h, b)
                       => g.mem[a] = h.mem[a]

LEMMA FilledOrdered ==
    ASSUME NEW h \in Heaps, NEW g \in Heaps, NEW B, Ordered(h, B), NEW b \in Allocs(h, B),
           Filled(h, g, b)
    PROVE  /\ Ordered(g, B) /\ Served(h, B, g, B, {b}, {b}) /\ Allocs(g, B) = Allocs(h, B)
           /\ SizeAt(g, b) = SizeAt(h, b) /\ Foot(g, b) = Foot(h, b)
           /\ \A n : Holds(h, b, n) => Holds(g, b, n)
<1>1. Tiled(h, B) /\ b \in B /\ TagAt(h, b).allocated
  BY DEF Ordered, Allocs
<1>2. /\ IsTag(h, b) /\ IsTag(h, Foot(h, b)) /\ b \in Rows /\ Foot(h, b) \in Rows
      /\ b \in Int /\ Foot(h, b) \in Int
  BY <1>1, BlockRows
<1>3. TagAt(h, b) = h.mem[b] /\ TagAt(h, Foot(h, b)) = h.mem[Foot(h, b)]
  BY <1>2 DEF TagAt
<1>4. Pair(h.mem[b], h.mem[Foot(h, b)], SizeAt(h, b)) /\ h.mem[b].allocated
  <2>1. Closed(h, b)
    BY <1>1 DEF Tiled
  <2>2. TagAt(h, b) \in Tags /\ TagAt(h, Foot(h, b)) \in Tags
    BY <1>2, TagTyped
  <2> QED
    BY <1>1, <1>3, <2>1, <2>2 DEF Pair, Closed, SizeAt
<1>5. Rewritten(h, g, B, b, h.mem[b], h.mem[Foot(h, b)])
  BY <1>2, <1>4 DEF Rewritten, Filled
<1>6. /\ Ordered(g, B) /\ Served(h, B, g, B, {b}, {b}) /\ Allocs(g, B) = Allocs(h, B)
      /\ SizeAt(g, b) = SizeAt(h, b) /\ Foot(g, b) = Foot(h, b)
      /\ TagAt(g, b) = TagAt(h, b) /\ TagAt(g, Foot(g, b)) = TagAt(h, Foot(h, b))
  <2>1. /\ Ordered(g, B) /\ Served(h, B, g, B, {b}, {b}) /\ Allocs(g, B) = Allocs(h, B)
        /\ SizeAt(g, b) = SizeAt(h, b) /\ Foot(g, b) = Foot(h, b)
        /\ TagAt(g, b) = h.mem[b] /\ TagAt(g, Foot(g, b)) = h.mem[Foot(h, b)]
    BY <1>5, RewrittenOrdered, ZenonT(60)
  <2> QED
    BY <1>3, <2>1
<1>7. ASSUME NEW n, Holds(h, b, n) PROVE Holds(g, b, n)
  <2>1. IsTag(g, b) /\ IsTag(g, Foot(g, b))
    BY <1>1, <1>6, BlockRows DEF Ordered
  <2> QED
    BY <1>6, <1>7, <2>1 DEF Holds, Valid
<1> QED
  BY <1>6, <1>7

\* An allocated block that stays where it is, for another request.
Reallocated(h, B, g, b, size) ==
    /\ Ordered(g, B) /\ g.slips = h.slips /\ Served(h, B, g, B, {b}, {b})
    /\ Allocs(g, B) = Allocs(h, B) /\ Holds(g, b, size)
    /\ SizeAt(g, b) = SizeAt(h, b) /\ Foot(g, b) = Foot(h, b)
    /\ \A a \in Rows : a # b /\ a # Foot(h, b) => g.mem[a] = h.mem[a]

LEMMA AllocateOrdered ==
    ASSUME NEW h \in Heaps, NEW B, Ordered(h, B), NEW b \in Allocs(h, B), NEW size \in Nat,
           size + Overhead <= SizeAt(h, b), NEW g, g = Allocate(h, b, size, SizeAt(h, b))
    PROVE  Reallocated(h, B, g, b, size)
<1> DEFINE block == SizeAt(h, b)
           header == Header(size, block)
           footer == Footer(size, block)
<1>1. Tiled(h, B) /\ b \in B
  BY DEF Ordered, Allocs
<1>2. /\ b \in Nat /\ block \in Nat /\ block >= 4 /\ Foot(h, b) = b + block - 1
      /\ InHeap(h, b) /\ InHeap(h, Foot(h, b)) /\ b \in Extent(h, b) /\ Foot(h, b) \in Extent(h, b)
  BY <1>1, BlockRows
<1> HIDE DEF block
<1>3. /\ header \in Tags /\ footer \in Tags /\ header.size = block /\ footer.size = block
      /\ header.allocated /\ footer.allocated /\ header.padded = footer.padded
      /\ g = WriteTags(h, b, header, footer)
  BY <1>2, AllocTags DEF block
<1>4. Pair(header, footer, SizeAt(h, b))
  BY <1>3 DEF Pair, block, Tags
<1> HIDE DEF header, footer
<1>5. /\ g \in Heaps /\ OnlyMem(h, g)
      /\ g.mem[b] = header /\ g.mem[Foot(h, b)] = footer
      /\ \A r \in Rows : r # b /\ r # Foot(h, b) => g.mem[r] = h.mem[r]
  <2>1. InHeap(h, b) /\ InHeap(h, b + header.size - 1) /\ header.size >= MinBlock /\ b \in Int
    BY <1>2, <1>3 DEF MinBlock
  <2>2. b + header.size - 1 = Foot(h, b)
    BY <1>2, <1>3
  <2>3. /\ g \in Heaps /\ OnlyMem(h, g)
        /\ g.mem[b] = header /\ g.mem[b + header.size - 1] = footer
        /\ \A r \in Rows : r # b /\ r # b + header.size - 1 => g.mem[r] = h.mem[r]
    BY <1>3, <2>1, WriteTagsEffect
  <2> QED
    BY <2>2, <2>3
<1>6. Rewritten(h, g, B, b, header, footer)
  BY <1>2, <1>3, <1>4, <1>5 DEF Rewritten
<1>7. /\ Ordered(g, B) /\ Served(h, B, g, B, {b}, {b}) /\ Allocs(g, B) = Allocs(h, B)
      /\ SizeAt(g, b) = SizeAt(h, b) /\ Foot(g, b) = Foot(h, b)
      /\ TagAt(g, b) = header /\ TagAt(g, Foot(g, b)) = footer
  <2>1. g \in Heaps
    BY <1>5
  <2> QED
    BY <1>6, <2>1, RewrittenOrdered
<1>8. Holds(g, b, size)
  <2>1. IsTag(g, b) /\ IsTag(g, Foot(g, b)) /\ b \in Int /\ size + Overhead <= block
    BY <1>1, <1>2, <1>5, <1>7, BlockRows DEF Ordered, block
  <2> QED
    BY <1>2, <1>5, <1>7, <2>1, NewHolds DEF header, footer
<1> QED
  BY <1>5, <1>7, <1>8 DEF Reallocated, OnlyMem

-----------------------------------------------------------------------------
(* sf_realloc *)

\* The heap is left in order: block b of n rows is now c, of size rows, with what
\* fits of its data, and all others are as they were.
Moved(h, B, g, b, c, size, n) ==
    \E C \in SUBSET Rows :
        /\ Ordered(g, C) /\ Served(h, B, g, C, {b}, {c}) /\ Holds(g, c, size)
        /\ c \in Rows /\ (c = b \/ c \notin Allocs(h, B))
        /\ \A i \in 1..n : i <= size => g.mem[c + i] = h.mem[b + i]

LEMMA StaysOrdered ==
    ASSUME NEW h \in Heaps, NEW B, Ordered(h, B), NEW b \in Allocs(h, B), NEW size \in Nat,
           NEW n \in Nat, Holds(h, b, n),
           size + Overhead <= SizeAt(h, b), NEW g, g = Allocate(h, b, size, SizeAt(h, b))
    PROVE  Moved(h, B, g, b, b, size, n)
<1>1. /\ Ordered(g, B) /\ Served(h, B, g, B, {b}, {b}) /\ Holds(g, b, size)
      /\ \A a \in Rows : a # b /\ a # Foot(h, b) => g.mem[a] = h.mem[a]
  BY AllocateOrdered DEF Reallocated
<1>2. Tiled(h, B) /\ b \in B /\ n <= SizeAt(h, b) - Overhead
  BY DEF Ordered, Allocs, Holds
<1>3. ASSUME NEW i \in 1..n PROVE g.mem[b + i] = h.mem[b + i]
  BY <1>1, <1>2, PayloadInside
<1>4. B \in SUBSET Rows /\ b \in Rows
  BY <1>2, BlocksAreRows
<1> QED
  BY <1>1, <1>3, <1>4 DEF Moved

LEMMA ServedAlso ==
    ASSUME NEW h, NEW B, NEW g, NEW C, NEW gone, NEW new, Served(h, B, g, C, gone, new),
           NEW lost, NEW made, Allocs(h, B) \ lost = Allocs(h, B) \ gone, made = new
    PROVE  Served(h, B, g, C, lost, made)
BY DEF Served

\* In g block b keeps its first block rows, for a request of size rows, and the
\* other s rows are an allocated block of their own.
Trimmed(h, B, g, b, size, block, s, tag) ==
    /\ b \in Allocs(h, B) /\ RoomFor(block, size)
    /\ s \in Nat /\ s >= MinBlock /\ SizeAt(h, b) = block + s
    /\ tag \in Tags /\ tag.size = s /\ tag.allocated /\ tag.padded /\ tag.requested = 0
    /\ g \in Heaps /\ OnlyMem(h, g)
    /\ g.mem[b] = Header(size, block) /\ g.mem[b + block - 1] = Footer(size, block)
    /\ g.mem[b + block] = tag /\ g.mem[Foot(h, b)] = tag
    /\ \A a \in Rows : a # b /\ a # b + block - 1 /\ a # b + block /\ a # Foot(h, b)
                       => g.mem[a] = h.mem[a]

\* Rows for the tags of two blocks, at b and at d.
Apart(h, b, c, d, e, t1, t2, t3) ==
    /\ b \in Int /\ c \in Int /\ d \in Int /\ e \in Int
    /\ t1 \in Tags /\ t2 \in Tags /\ t3 \in Tags
    /\ InHeap(h, b) /\ InHeap(h, c) /\ InHeap(h, d) /\ InHeap(h, e)
    /\ t1.size >= MinBlock /\ t3.size >= MinBlock
    /\ c = b + t1.size - 1 /\ e = d + t3.size - 1
    /\ b # d /\ b # e /\ c # d /\ c # e

LEMMA FourTags ==
    ASSUME NEW h \in Heaps, NEW b, NEW c, NEW d, NEW e, NEW t1, NEW t2, NEW t3,
           Apart(h, b, c, d, e, t1, t2, t3)
    PROVE  LET g == WriteTags(WriteTags(h, b, t1, t2), d, t3, t3)
           IN  /\ g \in Heaps /\ OnlyMem(h, g)
               /\ g.mem[b] = t1 /\ g.mem[c] = t2 /\ g.mem[d] = t3 /\ g.mem[e] = t3
               /\ \A a \in Rows : a # b /\ a # c /\ a # d /\ a # e => g.mem[a] = h.mem[a]
<1> DEFINE u == WriteTags(h, b, t1, t2)
           g == WriteTags(u, d, t3, t3)
<1>0. /\ b \in Int /\ c \in Int /\ d \in Int /\ e \in Int
      /\ t1 \in Tags /\ t2 \in Tags /\ t3 \in Tags
      /\ InHeap(h, b) /\ InHeap(h, c) /\ InHeap(h, d) /\ InHeap(h, e)
      /\ t1.size >= MinBlock /\ t3.size >= MinBlock
      /\ c = b + t1.size - 1 /\ e = d + t3.size - 1
      /\ b # d /\ b # e /\ c # d /\ c # e
  BY DEF Apart
<1>1. InHeap(h, b + t1.size - 1)
  BY <1>0
<1>2. /\ u \in Heaps /\ OnlyMem(h, u) /\ b \in Rows /\ c \in Rows
      /\ u.mem[b] = t1 /\ u.mem[c] = t2
      /\ \A a \in Rows : a # b /\ a # c => u.mem[a] = h.mem[a]
  BY <1>0, <1>1, WriteTagsEffect, SMTT(60)
<1> HIDE DEF u
<1>3. InHeap(u, d) /\ InHeap(u, d + t3.size - 1)
  BY <1>0, <1>2 DEF OnlyMem, InHeap, End
<1>4. /\ g \in Heaps /\ OnlyMem(u, g)
      /\ g.mem[d] = t3 /\ g.mem[e] = t3
      /\ \A a \in Rows : a # d /\ a # e => g.mem[a] = u.mem[a]
  BY <1>0, <1>2, <1>3, WriteTagsEffect
<1> HIDE DEF g
<1>5. g.mem[b] = t1 /\ g.mem[c] = t2
  BY <1>0, <1>2, <1>4
<1>6. OnlyMem(h, g)
  BY <1>2, <1>4 DEF OnlyMem
<1> QED
  BY <1>2, <1>4, <1>5, <1>6 DEF g, u

LEMMA ShrinkTrims ==
    ASSUME NEW h \in Heaps, NEW B, Tiled(h, B), NEW b \in Allocs(h, B),
           NEW size, NEW block, RoomFor(block, size), NEW s \in Nat, s >= MinBlock,
           SizeAt(h, b) = block + s
    PROVE  LET tag == Tag(TRUE, TRUE, s, 0)
           IN  Trimmed(h, B, WriteTags(Allocate(h, b, size, block), b + block, tag, tag),
                       b, size, block, s, tag)
<1> DEFINE tag == Tag(TRUE, TRUE, s, 0)
           header == Header(size, block)
           footer == Footer(size, block)
           c == b + block - 1
           d == b + block
           e == Foot(h, b)
           g == WriteTags(WriteTags(h, b, header, footer), d, tag, tag)
<1>1. block \in Nat /\ block >= 4 /\ size \in Nat /\ s >= 4
  BY DEF RoomFor, MinBlock
<1>2. b \in B
  BY FreesAndAllocs
<1>3. b \in Nat /\ e = b + SizeAt(h, b) - 1 /\ b + SizeAt(h, b) <= End(h)
  BY <1>2, BlockRows
<1>4. End(h) \in Nat
  BY EndBounds
<1>5. tag \in Tags /\ tag.size = s /\ tag.allocated /\ tag.padded /\ tag.requested = 0
  BY RowKinds DEF Tag
<1>6. /\ header \in Tags /\ footer \in Tags /\ header.size = block
      /\ Allocate(h, b, size, block) = WriteTags(h, b, header, footer)
  BY <1>1, AllocTags
<1> HIDE DEF tag, header, footer, e
<1>7. /\ b \in Int /\ c \in Int /\ d \in Int /\ e \in Int
      /\ c = b + header.size - 1 /\ e = d + tag.size - 1 /\ b # d /\ b # e /\ c # d /\ c # e
      /\ header.size >= MinBlock /\ tag.size >= MinBlock
  BY <1>1, <1>3, <1>5, <1>6 DEF MinBlock
<1>8. InHeap(h, b) /\ InHeap(h, c) /\ InHeap(h, d) /\ InHeap(h, e)
  BY <1>1, <1>3, <1>4 DEF InHeap
<1>9. /\ g \in Heaps /\ OnlyMem(h, g)
      /\ g.mem[b] = header /\ g.mem[c] = footer /\ g.mem[d] = tag /\ g.mem[e] = tag
      /\ \A a \in Rows : a # b /\ a # c /\ a # d /\ a # e => g.mem[a] = h.mem[a]
  <2>1. Apart(h, b, c, d, e, header, footer, tag)
    BY <1>5, <1>6, <1>7, <1>8 DEF Apart
  <2> HIDE DEF c, d
  <2> QED
    BY <2>1, FourTags
<1> HIDE DEF g
<1>10. Trimmed(h, B, g, b, size, block, s, tag)
  BY <1>5, <1>9 DEF Trimmed, header, footer, e
<1> QED
  BY <1>6, <1>10 DEF g, tag

\* The heap g is in order and has the blocks C: block b keeps the rows before rest,
\* which is allocated too.
Parted(h, B, g, C, b, rest, size) ==
    /\ Ordered(g, C) /\ Holds(g, b, size)
    /\ rest \in Allocs(g, C) /\ Valid(g, rest) /\ rest \notin B
    /\ Served(h, B, g, C, {b}, {b, rest})
    /\ Extent(g, b) = b..(rest - 1)
    /\ \A a \in Rows : a \in Extent(g, b) /\ a # b /\ a # rest - 1 => g.mem[a] = h.mem[a]

LEMMA ShrinkCuts ==
    ASSUME NEW h \in Heaps, NEW B, Ordered(h, B), NEW b, NEW size, NEW block, NEW s, NEW tag,
           NEW g, Trimmed(h, B, g, b, size, block, s, tag)
    PROVE  Parted(h, B, g, B \cup {b + block}, b, b + block, size)
<1> DEFINE F == Frees(h, B)
           rest == b + block
           C == B \cup {rest}
           header == Header(size, block)
           footer == Footer(size, block)
<1>a. /\ size \in Nat /\ block \in Nat /\ Aligned(block) /\ block >= MinBlock
      /\ size + Overhead <= block
  BY DEF RoomFor, Trimmed
<1>b. /\ s \in Nat /\ s >= 4 /\ SizeAt(h, b) = block + s /\ block >= 4 /\ b \in Allocs(h, B)
  BY <1>a DEF Trimmed, MinBlock
<1>0. Tiled(h, B) /\ Linked(h, F) /\ ~h.fault /\ (h.slips = {} => NoneDropped(h, F))
  BY DEF Ordered
<1>1. F \in SUBSET B /\ b \in B /\ b \notin F
  BY <1>b, FreesAndAllocs
<1>2. /\ b \in Nat /\ Foot(h, b) = b + SizeAt(h, b) - 1 /\ Extent(h, b) \subseteq Rows
      /\ Foot(h, b) \in Nat
  BY <1>0, <1>1, BlockRows
<1>3. /\ rest \in Nat /\ Foot(h, b) = rest + s - 1 /\ b + block - 1 \in Nat
      /\ rest \in Extent(h, b)
      /\ b + block - 1 \in Extent(h, b) /\ Foot(h, b) \in Extent(h, b) /\ b \in Extent(h, b)
  <2>1. rest \in Nat /\ Foot(h, b) = rest + s - 1 /\ b + block - 1 \in Nat
    BY <1>a, <1>b, <1>2
  <2> QED
    BY <1>a, <1>b, <1>2, <2>1 DEF Extent
<1>4. /\ tag \in Tags /\ tag.size = s /\ tag.allocated /\ tag.padded /\ tag.requested = 0
      /\ Pair(tag, tag, s)
  BY DEF Trimmed, Pair
<1>5. /\ header.allocated /\ Pair(header, footer, block)
  <2>1. /\ header \in Tags /\ footer \in Tags
        /\ header.size = block /\ footer.size = block
        /\ header.allocated /\ footer.allocated
        /\ header.padded = footer.padded
    BY <1>a, AllocTags
  <2>2. footer.allocated = header.allocated
    BY <2>1 DEF Tags
  <2> QED
    BY <2>1, <2>2 DEF Pair
<1>6. /\ g \in Heaps /\ OnlyMem(h, g)
      /\ g.mem[b] = header /\ g.mem[b + block - 1] = footer
      /\ g.mem[rest] = tag /\ g.mem[Foot(h, b)] = tag
  BY DEF Trimmed
<1> HIDE DEF F, header, footer
<1>10. End(g) = End(h) /\ End(h) <= End(g)
  <2>1. End(g) = End(h)
    BY <1>6 DEF OnlyMem, End
  <2> QED
    BY <2>1, EndBounds
<1>11. \A a \in Rows : a # b /\ a # b + block - 1 /\ a # rest /\ a # Foot(h, b)
                       => g.mem[a] = h.mem[a]
  BY DEF Trimmed
<1>13. \A c \in B : c # b => \A a \in Extent(h, c) : g.mem[a] = h.mem[a]
  <2> SUFFICES ASSUME NEW c \in B, c # b, NEW a \in Extent(h, c) PROVE g.mem[a] = h.mem[a]
    OBVIOUS
  <2>1. a \in Rows /\ a \notin Extent(h, b)
    BY <1>0, <1>1, BlockRows, BlocksApart
  <2>2. a # b /\ a # b + block - 1 /\ a # rest /\ a # Foot(h, b)
    BY <1>3, <2>1
  <2> QED
    BY <1>11, <2>1, <2>2
<1>14. \A c \in B : c # b => g.mem[c] = h.mem[c] /\ g.mem[Foot(h, c)] = h.mem[Foot(h, c)]
  BY <1>0, <1>13, BlockRows
<1>15. /\ rest \notin B /\ rest \in Rows /\ Tiled(g, C)
       /\ SizeAt(g, b) = block /\ Foot(g, b) = b + block - 1
       /\ SizeAt(g, rest) = s /\ Foot(g, rest) = Foot(h, b)
       /\ TagAt(g, b) = header /\ TagAt(g, Foot(g, b)) = footer
       /\ TagAt(g, rest) = tag /\ TagAt(g, Foot(g, rest)) = tag
       /\ SameBlocks(h, g, B \ {b})
  <2>1. Cut(h, g, B, b, block, header, footer, tag, tag)
    <3>1. SizeAt(h, b) - block = s /\ s >= MinBlock
      BY <1>a, <1>b DEF MinBlock
    <3>2. g.mem[b + block] = tag
      BY <1>6
    <3> QED
      BY <1>a, <1>1, <1>4, <1>5, <1>6, <1>14, <1>10, <3>1, <3>2 DEF Cut
  <2>2. SizeAt(h, b) - block = s
    BY <1>a, <1>b
  <2>3. /\ b + block \notin B /\ b + block \in Rows /\ Tiled(g, B \cup {b + block})
        /\ SizeAt(g, b) = block /\ Foot(g, b) = b + block - 1
        /\ SizeAt(g, b + block) = SizeAt(h, b) - block /\ Foot(g, b + block) = Foot(h, b)
        /\ TagAt(g, b) = header /\ TagAt(g, Foot(g, b)) = footer
        /\ TagAt(g, b + block) = tag /\ TagAt(g, Foot(g, b + block)) = tag
        /\ SameBlocks(h, g, B \ {b})
    <3>1. g \in Heaps
      BY <1>6
    <3> HIDE DEF rest, C
    <3> QED
      BY <1>0, <2>1, <3>1, SplitTiled
  <2> QED
    BY <2>2, <2>3
<1>16. Frees(g, C) = F /\ Allocs(g, C) = (Allocs(h, B) \ {b}) \cup {b, rest}
  <2>1. \A c \in B : c # b => TagAt(g, c) = TagAt(h, c)
    BY <1>15 DEF SameBlocks
  <2>2. TagAt(h, b).allocated
    BY <1>b DEF Allocs
  <2> HIDE DEF rest
  <2> QED
    BY <1>1, <1>4, <1>5, <1>15, <2>1, <2>2 DEF Frees, Allocs, F
<1>17. Linked(g, F) /\ (NoneDropped(h, F) => NoneDropped(g, F))
  <2>1. \A c \in F : g.mem[c] = h.mem[c]
    BY <1>1, <1>14
  <2>2. \A a \in Rows : LinkRow(F, a) => g.mem[a] = h.mem[a]
    <3> SUFFICES ASSUME NEW a \in Rows, LinkRow(F, a) PROVE g.mem[a] = h.mem[a]
      OBVIOUS
    <3>1. a \notin Extent(h, b)
      BY <1>0, <1>1, LinkRowOf
    <3>2. a # b /\ a # b + block - 1 /\ a # rest /\ a # Foot(h, b)
      BY <1>3, <3>1
    <3> QED
      BY <1>11, <3>2
  <2> QED
    BY <1>0, <1>6, <1>10, <2>1, <2>2, LinkedFrame DEF OnlyMem
<1>18. Ordered(g, C)
  <2> HIDE DEF C
  <2> QED
    BY <1>0, <1>6, <1>10, <1>15, <1>16, <1>17 DEF Ordered, OnlyMem
<1>19. Served(h, B, g, C, {b}, {b, rest})
  <2>1. C \in SUBSET Rows
    BY <1>6, <1>15, BlocksAreRows
  <2>2. Intact(h, g, Allocs(h, B) \ {b})
    BY <1>13, FreesAndAllocs DEF Intact
  <2> HIDE DEF C, rest
  <2> QED
    BY <1>16, <2>1, <2>2 DEF Served
<1>20. Holds(g, b, size)
  <2>1. IsTag(g, b) /\ IsTag(g, Foot(g, b)) /\ b \in Int
    BY <1>1, <1>2, <1>6, <1>15, BlockRows
  <2> QED
    BY <1>a, <1>6, <1>15, <2>1, NewHolds DEF header, footer
<1>21. rest \in Allocs(g, C) /\ Valid(g, rest)
  <2>1. IsTag(g, rest) /\ IsTag(g, Foot(g, rest)) /\ rest \in C
    <3>1. rest \in C
      OBVIOUS
    <3> HIDE DEF C, rest
    <3> QED
      BY <1>6, <1>15, <3>1, BlockRows
  <2>2. tag.padded = Padded(tag.requested, tag.size)
    <3>1. tag.padded = TRUE
      BY <1>4 DEF Tags
    <3>2. Padded(0, s) = TRUE
      BY <1>b DEF Padded, Overhead
    <3> QED
      BY <1>4, <3>1, <3>2
  <2> HIDE DEF C, rest
  <2> QED
    BY <1>4, <1>15, <2>1, <2>2 DEF Valid, Allocs
<1>22. Extent(g, b) = b..(b + block - 1)
  BY <1>15 DEF Extent
<1>23. ASSUME NEW a \in Rows, a \in Extent(g, b), a # b, a # b + block - 1
       PROVE  g.mem[a] = h.mem[a]
  <2>1. a # b + block - 1 /\ a # rest /\ a # Foot(h, b)
    BY <1>a, <1>b, <1>2, <1>3, <1>22, <1>23
  <2> QED
    BY <1>11, <1>23, <2>1
<1>24. rest - 1 = b + block - 1
  BY <1>a, <1>2
<1> HIDE DEF rest, C
<1>25. Parted(h, B, g, C, b, rest, size)
  BY <1>15, <1>18, <1>19, <1>20, <1>21, <1>22, <1>23, <1>24 DEF Parted
<1> QED
  BY <1>25 DEF rest, C

LEMMA ShrinkOrdered ==
    ASSUME NEW h \in Heaps, NEW B, Ordered(h, B), NEW b \in Allocs(h, B), NEW size \in Nat,
           NEW n \in Nat, Holds(h, b, n), size # 0,
           SizeAt(h, b) - Overhead - RoundUp(size) >= MinBlock
    PROVE  Moved(h, B, Shrink(h, b, size), b, b, size, n)
<1> DEFINE block == RoundUp(size) + Overhead
           s == SizeAt(h, b) - block
           tag == Tag(TRUE, TRUE, s, 0)
           k == WriteTags(Allocate(h, b, size, block), b + block, tag, tag)
           rest == b + block
           C == B \cup {rest}
           g == Free(k, rest)
<1>1. Shrink(h, b, size) = g
  BY DEF Shrink
<1>2. Tiled(h, B) /\ b \in B /\ n <= SizeAt(h, b) - Overhead
  BY DEF Ordered, Allocs, Holds
<1>3. b \in Nat /\ SizeAt(h, b) \in Nat /\ b \in Rows
  BY <1>2, BlockRows
<1>4. /\ RoomFor(block, size) /\ block \in Nat /\ s \in Nat /\ s >= MinBlock
      /\ SizeAt(h, b) = block + s /\ size <= block - 2
  <2>1. /\ RoundUp(size) \in Nat /\ Aligned(RoundUp(size)) /\ size <= RoundUp(size)
        /\ RoundUp(size) >= 2
    BY DEF RoundUp, Aligned
  <2>2. Aligned(block)
    BY <2>1 DEF Aligned, Overhead
  <2> QED
    BY <1>3, <2>1, <2>2 DEF RoomFor, Overhead, MinBlock
<1> HIDE DEF block, s
<1>5. Trimmed(h, B, k, b, size, block, s, tag)
  BY <1>2, <1>4, ShrinkTrims
<1> HIDE DEF tag, k
<1>6. /\ Ordered(k, C) /\ Holds(k, b, size)
      /\ rest \in Allocs(k, C) /\ Valid(k, rest)
      /\ rest \notin B
      /\ Served(h, B, k, C, {b}, {b, rest})
      /\ Extent(k, b) = b..(rest - 1)
      /\ \A a \in Rows : a \in Extent(k, b) /\ a # b /\ a # rest - 1
                         => k.mem[a] = h.mem[a]
  <2>1. Parted(h, B, k, C, b, rest, size)
    BY <1>5, ShrinkCuts
  <2> HIDE DEF C, rest
  <2> QED
    BY <2>1 DEF Parted
<1>7. k \in Heaps /\ Tiled(k, C)
  BY <1>6 DEF Ordered
<1> HIDE DEF C, rest
<1>8. PICK D \in SUBSET Rows : Ordered(g, D) /\ Served(k, C, g, D, {rest}, {})
  BY <1>6, <1>7, FreeOrdered
<1>9. g \in Heaps /\ Tiled(g, D)
  BY <1>8 DEF Ordered
<1>10. rest # b
  BY <1>2, <1>6
<1>11. Served(h, B, g, D, {b}, {b})
  <2>1. Served(h, B, g, D, {b} \cup {rest}, ({b, rest} \ {rest}) \cup {})
    BY <1>2, <1>6, <1>7, <1>8, <1>9, ServedThen
  <2>2. Allocs(h, B) \ {b} = Allocs(h, B) \ ({b} \cup {rest})
    BY <1>6, FreesAndAllocs
  <2>3. {b} = ({b, rest} \ {rest}) \cup {}
    BY <1>10
  <2> QED
    BY <2>1, <2>2, <2>3, ServedAlso
<1>12. b \in Allocs(k, C)
  BY <1>6 DEF Served
<1>13. Holds(g, b, size)
  BY <1>6, <1>7, <1>8, <1>9, <1>10, <1>12, KeptBlock
<1>14. ASSUME NEW i \in 1..n, i <= size PROVE g.mem[b + i] = h.mem[b + i]
  <2>1. b + i \in Rows
    BY <1>2, PayloadInside
  <2>2. b + i \in Extent(k, b) /\ b + i # b /\ b + i # rest - 1
    BY <1>3, <1>4, <1>6, <1>14 DEF rest
  <2>3. k.mem[b + i] = h.mem[b + i]
    BY <1>6, <2>1, <2>2
  <2>4. g.mem[b + i] = k.mem[b + i]
    BY <1>8, <1>10, <1>12, <2>2 DEF Served, Intact
  <2> QED
    BY <2>3, <2>4
<1> HIDE DEF g
<1>15. Moved(h, B, g, b, b, size, n)
  BY <1>3, <1>8, <1>11, <1>13, <1>14 DEF Moved
<1> QED
  BY <1>1, <1>15

LEMMA CopyLater == ASSUME NEW h, IsHeap(h), NEW b, NEW c, NEW n PROVE Later(h, Copy(h, b, c, n))
<1>1. ASSUME NEW x PROVE Later(h, [h EXCEPT !.mem = x])
  BY FieldsLater
<1> QED
  BY <1>1 DEF Copy

LEMMA MoveLater ==
    ASSUME NEW given, IsHeap(given.heap), NEW b, NEW size
    PROVE  Later(given.heap, Move(given, b, size).heap)
<1> DEFINE h == given.heap
           n == TagAt(h, Foot(h, b)).requested
           c == given.block
           k == Copy(h, b, c, n)
           h1 == Allocate(k, c, size, SizeAt(h, c))
<1>1. Later(h, k) /\ IsHeap(k)
  BY CopyLater DEF Later
<1>2. Move(given, b, size) = IF c = Null THEN given ELSE Result(Free(h1, b), c)
  BY DEF Move
<1> HIDE DEF k
<1>3. Later(k, h1) /\ IsHeap(h1)
  BY <1>1, AllocateLater DEF Later
<1> HIDE DEF h1
<1>4. Later(h1, Free(h1, b))
  BY <1>3, FreeLater
<1>5. Later(h, Free(h1, b))
  BY <1>1, <1>3, <1>4, LaterStill
<1>6. Later(h, h)
  BY DEF Later
<1> QED
  BY <1>2, <1>5, <1>6 DEF Result

LEMMA ResizeLater ==
    ASSUME NEW h, IsHeap(h), NEW b, NEW size
    PROVE  Later(h, Resize(h, b, size).heap)
<1>1. IsHeap(h)
  OBVIOUS
<1>2. Later(h, Free(h, b)) /\ Later(h, Allocate(h, b, size, SizeAt(h, b)))
  BY <1>1, FreeLater, AllocateLater
<1>3. Later(h, Move(Malloc(h, size), b, size).heap)
  <2>1. Later(h, Malloc(h, size).heap)
    BY MallocLater
  <2>2. Later(Malloc(h, size).heap, Move(Malloc(h, size), b, size).heap)
    BY <2>1, MoveLater DEF Later
  <2> QED
    BY <2>1, <2>2, LaterStill
<1>4. Later(h, Shrink(h, b, size))
  <2> DEFINE block == RoundUp(size) + Overhead
             rest == b + block
             tag == Tag(TRUE, TRUE, SizeAt(h, b) - block, 0)
             h1 == Allocate(h, b, size, block)
             h2 == WriteTags(h1, rest, tag, tag)
  <2>1. Shrink(h, b, size) = Free(h2, rest)
    BY DEF Shrink
  <2> HIDE DEF block, rest, tag
  <2>2. Later(h, h1) /\ IsHeap(h1)
    BY <1>1, AllocateLater DEF Later
  <2> HIDE DEF h1
  <2>3. Later(h1, h2) /\ IsHeap(h2)
    BY <2>2, WriteTagsLater DEF Later
  <2> HIDE DEF h2
  <2>4. Later(h2, Free(h2, rest))
    BY <2>3, FreeLater
  <2> QED
    BY <2>1, <2>2, <2>3, <2>4, LaterStill
<1> DEFINE payload == RoundUp(size)
           requested == TagAt(h, Foot(h, b)).requested
           room == SizeAt(h, b) - Overhead
<1>5. Resize(h, b, size) =
        IF size = 0 THEN Result(Free(h, b), Null)
        ELSE IF payload >= requested /\ payload > room THEN Move(Malloc(h, size), b, size)
        ELSE IF payload >= requested \/ room - payload < MinBlock
             THEN Result(Allocate(h, b, size, SizeAt(h, b)), b)
        ELSE Result(Shrink(h, b, size), b)
  BY DEF Resize
<1> HIDE DEF payload, requested, room
<1>6. \A k, c : Result(k, c).heap = k
  BY DEF Result
<1> QED
  BY <1>2, <1>3, <1>4, <1>5, <1>6

LEMMA CopyEffect ==
    ASSUME NEW h \in Heaps, NEW B, Tiled(h, B), NEW b \in B, NEW c \in B, NEW n \in Nat,
           n <= SizeAt(h, b) - Overhead, n <= SizeAt(h, c) - Overhead
    PROVE  LET g == Copy(h, b, c, n)
           IN  /\ g \in Heaps /\ Filled(h, g, c)
               /\ \A i \in 1..n : g.mem[c + i] = h.mem[b + i]
<1> DEFINE m == [a \in Rows |-> IF c < a /\ a <= c + n THEN h.mem[b + (a - c)] ELSE h.mem[a]]
           g == [h EXCEPT !.mem = m]
<1>1. Copy(h, b, c, n) = g
  BY DEF Copy
<1>2. b \in Nat /\ c \in Nat
  BY BlockRows
<1>3. \A a \in Rows : c < a /\ a <= c + n =>
          /\ a - c \in 1..n /\ a = c + (a - c)
          /\ b + (a - c) \in Rows /\ a \in Extent(h, c) /\ a # c /\ a # Foot(h, c)
  <2> SUFFICES ASSUME NEW a \in Rows, c < a, a <= c + n
               PROVE  /\ a - c \in 1..n /\ a = c + (a - c)
                      /\ b + (a - c) \in Rows /\ a \in Extent(h, c) /\ a # c /\ a # Foot(h, c)
    OBVIOUS
  <2>1. a - c \in 1..n /\ a = c + (a - c)
    BY <1>2 DEF Rows
  <2>2. b + (a - c) \in Rows
    BY <2>1, PayloadInside
  <2>3. c + (a - c) \in Extent(h, c) /\ c + (a - c) # c /\ c + (a - c) # Foot(h, c)
    BY <2>1, PayloadInside
  <2> QED
    BY <2>1, <2>2, <2>3
<1>4. m \in [Rows -> Contents]
  BY <1>3 DEF Heaps
<1>5. g \in Heaps /\ OnlyMem(h, g) /\ g.mem = m
  <2> HIDE DEF m
  <2> QED
    BY <1>4 DEF Heaps, OnlyMem
<1> HIDE DEF g
<1>6. ASSUME NEW i \in 1..n PROVE g.mem[c + i] = h.mem[b + i]
  <2>1. c + i \in Rows
    BY PayloadInside
  <2>2. c < c + i /\ c + i <= c + n /\ b + ((c + i) - c) = b + i
    BY <1>2
  <2> QED
    BY <1>5, <2>1, <2>2
<1>7. ASSUME NEW a \in Rows, a \notin Extent(h, c) \/ a = c \/ a = Foot(h, c)
      PROVE  g.mem[a] = h.mem[a]
  <2>1. ~(c < a /\ a <= c + n)
    BY <1>3, <1>7
  <2> QED
    BY <1>5, <2>1
<1> QED
  BY <1>1, <1>5, <1>6, <1>7 DEF Filled

LEMMA MoveOrdered ==
    ASSUME NEW h \in Heaps, NEW B, Ordered(h, B), NEW b \in Allocs(h, B), NEW size \in Nat,
           NEW n \in Nat, Holds(h, b, n), n <= RoundUp(size),
           NEW given, given.block # Null, Grants(h, B, given.heap, given.block, size),
           NEW r, r = Move(given, b, size)
    PROVE  r.block # Null /\ Moved(h, B, r.heap, b, r.block, size, n)
<1> DEFINE g == given.heap
           c == given.block
           k == Copy(g, b, c, n)
           h1 == Allocate(k, c, size, SizeAt(g, c))
           f == Free(h1, b)
<1>1. PICK C \in SUBSET Rows :
          Ordered(g, C) /\ Served(h, B, g, C, {}, {c}) /\ Holds(g, c, size)
          /\ c \in Rows /\ c \notin Allocs(h, B)
  BY DEF Grants
<1>2. /\ g \in Heaps /\ Tiled(g, C) /\ Tiled(h, B) /\ b \in B /\ b # c
      /\ n <= SizeAt(h, b) - Overhead
  BY <1>1 DEF Ordered, Allocs, Holds
<1>3. /\ b \in Allocs(g, C) /\ b \in C /\ SizeAt(g, b) = SizeAt(h, b) /\ Holds(g, b, n)
  BY <1>1, <1>2, KeptBlock
<1>4. TagAt(g, Foot(g, b)).requested = n
  BY <1>3 DEF Holds
<1>5. c \in Allocs(g, C) /\ c \in C
  BY <1>1, <1>2, FreesAndAllocs DEF Served
<1>6. n <= SizeAt(g, c) - Overhead /\ size + Overhead <= SizeAt(g, c)
  <2>1. SizeAt(g, c) \in Nat /\ Aligned(SizeAt(g, c)) /\ size <= SizeAt(g, c) - Overhead
    BY <1>1, <1>2, <1>5, BlockRows DEF Holds
  <2>2. RoundUp(size) <= SizeAt(g, c) - Overhead
    <3> DEFINE s == SizeAt(g, c)
    <3>1. s \in Nat /\ s % 2 = 0 /\ size <= s - 2
      BY <2>1 DEF Aligned, Overhead
    <3> HIDE DEF s
    <3>2. size + (size % 2) <= s - 2
      BY <3>1
    <3> QED
      BY <3>2 DEF RoundUp, Overhead, s
  <2> QED
    BY <2>1, <2>2, Rounded DEF Overhead
<1>7. r = Result(f, c)
  BY <1>4 DEF Move
<1> HIDE DEF g, c
<1>8. /\ k \in Heaps /\ Filled(g, k, c)
      /\ \A i \in 1..n : k.mem[c + i] = g.mem[b + i]
  BY <1>2, <1>3, <1>5, <1>6, CopyEffect
<1> HIDE DEF k
<1>9. /\ Ordered(k, C) /\ Served(g, C, k, C, {c}, {c}) /\ Allocs(k, C) = Allocs(g, C)
      /\ SizeAt(k, c) = SizeAt(g, c) /\ Foot(k, c) = Foot(g, c)
  BY <1>1, <1>2, <1>5, <1>8, FilledOrdered, ZenonT(60)
<1>10. /\ Ordered(h1, C) /\ Served(k, C, h1, C, {c}, {c}) /\ Allocs(h1, C) = Allocs(k, C)
       /\ Holds(h1, c, size) /\ SizeAt(h1, c) = SizeAt(k, c) /\ Foot(h1, c) = Foot(k, c)
       /\ \A a \in Rows : a # c /\ a # Foot(k, c) => h1.mem[a] = k.mem[a]
  <2>1. h1 = Allocate(k, c, size, SizeAt(k, c)) /\ size + Overhead <= SizeAt(k, c)
    BY <1>6, <1>9
  <2>2. c \in Allocs(k, C) /\ k \in Heaps /\ Ordered(k, C)
    BY <1>5, <1>8, <1>9
  <2> HIDE DEF h1
  <2>3. Reallocated(k, C, h1, c, size)
    BY <2>1, <2>2, AllocateOrdered
  <2> QED
    BY <2>3 DEF Reallocated
<1> HIDE DEF h1
<1>11. h1 \in Heaps /\ Tiled(h1, C) /\ Tiled(k, C)
  BY <1>9, <1>10 DEF Ordered
<1>12. b \in Allocs(k, C) /\ b \in Allocs(h1, C) /\ Holds(h1, b, n) /\ Valid(h1, b)
  <2>1. b \in Allocs(k, C) /\ Holds(k, b, n)
    BY <1>2, <1>3, <1>8, <1>9, <1>11, KeptBlock
  <2>2. b \in Allocs(h1, C) /\ Holds(h1, b, n)
    BY <1>2, <1>8, <1>10, <1>11, <2>1, KeptBlock
  <2> QED
    BY <2>1, <2>2 DEF Holds
<1>13. PICK D \in SUBSET Rows : Ordered(f, D) /\ Served(h1, C, f, D, {b}, {})
  BY <1>10, <1>11, <1>12, FreeOrdered
<1> HIDE DEF f
<1>14. f \in Heaps /\ Tiled(f, D) /\ ~f.fault
  BY <1>13 DEF Ordered
<1>15. c \in Allocs(h1, C)
  BY <1>5, <1>9, <1>10
<1>16. Holds(f, c, size)
  BY <1>2, <1>10, <1>11, <1>13, <1>14, <1>15, KeptBlock
<1>17. Served(h, B, f, D, {b}, {c})
  <2>1. Served(h, B, k, C, {} \cup {c}, ({c} \ {c}) \cup {c})
    BY <1>1, <1>2, <1>8, <1>9, ServedThen
  <2>2. Served(h, B, k, C, {}, {c})
    <3>1. Allocs(h, B) \ {} = Allocs(h, B) \ ({} \cup {c}) /\ {c} = ({c} \ {c}) \cup {c}
      BY <1>1
    <3> QED
      BY <2>1, <3>1, ServedAlso
  <2>3. Served(h, B, h1, C, {} \cup {c}, ({c} \ {c}) \cup {c})
    BY <1>2, <1>8, <1>10, <1>11, <2>2, ServedThen
  <2>4. Served(h, B, h1, C, {}, {c})
    <3>1. Allocs(h, B) \ {} = Allocs(h, B) \ ({} \cup {c}) /\ {c} = ({c} \ {c}) \cup {c}
      BY <1>1
    <3> QED
      BY <2>3, <3>1, ServedAlso
  <2>5. Served(h, B, f, D, {} \cup {b}, ({c} \ {b}) \cup {})
    BY <1>2, <1>11, <1>13, <1>14, <2>4, ServedThen
  <2>6. {b} = {} \cup {b} /\ {c} = ({c} \ {b}) \cup {}
    BY <1>2
  <2> QED
    BY <2>5, <2>6, ServedAlso
<1>18. ASSUME NEW i \in 1..n PROVE f.mem[c + i] = h.mem[b + i]
  <2>1. /\ c + i \in Extent(g, c) /\ c + i \in Rows /\ c + i # c /\ c + i # Foot(g, c)
    BY <1>2, <1>5, <1>6, PayloadInside
  <2>2. b + i \in Extent(h, b)
    BY <1>2, PayloadInside
  <2>3. g.mem[b + i] = h.mem[b + i]
    BY <1>1, <2>2 DEF Served, Intact
  <2>4. h1.mem[c + i] = k.mem[c + i]
    BY <1>9, <1>10, <2>1
  <2>5. c + i \in Extent(h1, c)
    BY <1>9, <1>10, <2>1 DEF Extent
  <2>6. f.mem[c + i] = h1.mem[c + i]
    BY <1>2, <1>13, <1>15, <2>5 DEF Served, Intact
  <2> QED
    BY <1>8, <2>3, <2>4, <2>6
<1>19. r.heap = f /\ r.block = c
  BY <1>7, <1>14 DEF Result
<1>20. Moved(h, B, f, b, c, size, n)
  BY <1>1, <1>13, <1>16, <1>17, <1>18 DEF Moved
<1> QED
  BY <1>19, <1>20 DEF c

\* The heap is left in order: block b is free, and all others are as they were.
Released(h, B, g, b) ==
    \E C \in SUBSET Rows : Ordered(g, C) /\ Served(h, B, g, C, {b}, {})

\* What becomes of block b of n rows when size rows are asked for: it is freed, it
\* stays as it is, or it moves.
Resized(h, B, r, b, size, n) ==
    \/ size = 0 /\ r.block = Null /\ Released(h, B, r.heap, b)
    \/ size # 0 /\ r.block = Null /\ Keeps(h, B, r.heap)
    \/ size # 0 /\ r.block # Null /\ Moved(h, B, r.heap, b, r.block, size, n)

LEMMA ResizeOrdered ==
    ASSUME NEW h \in Heaps, NEW B, Ordered(h, B), NEW b \in Allocs(h, B), NEW size \in Nat,
           NEW n \in Nat, Holds(h, b, n), NEW r, r = Resize(h, b, size), Fine(r.heap)
    PROVE  Resized(h, B, r, b, size, n)
<1> DEFINE payload == RoundUp(size)
           room == SizeAt(h, b) - Overhead
<1>1. Tiled(h, B) /\ b \in B /\ Valid(h, b) /\ n <= room /\ TagAt(h, Foot(h, b)).requested = n
  BY DEF Ordered, Allocs, Holds
<1>2. SizeAt(h, b) \in Nat /\ b \in Nat
  BY <1>1, BlockRows
<1>3. payload \in Nat /\ size <= payload
  BY Rounded
<1>4. r = IF size = 0 THEN Result(Free(h, b), Null)
          ELSE IF payload >= n /\ payload > room THEN Move(Malloc(h, size), b, size)
          ELSE IF payload >= n \/ room - payload < MinBlock
               THEN Result(Allocate(h, b, size, SizeAt(h, b)), b)
          ELSE Result(Shrink(h, b, size), b)
  BY <1>1 DEF Resize
<1>5. CASE size = 0
  <2>1. r.heap = Free(h, b) /\ r.block = Null
    BY <1>4, <1>5 DEF Result
  <2>2. Released(h, B, r.heap, b)
    BY <1>1, <2>1, FreeOrdered DEF Released
  <2> QED
    BY <1>5, <2>1, <2>2 DEF Resized
<1>6. CASE size # 0 /\ payload >= n /\ payload > room
  <2> DEFINE given == Malloc(h, size)
  <2>1. r = Move(given, b, size)
    BY <1>4, <1>6
  <2>2. given = Malloc(h, size)
    OBVIOUS
  <2>3. Later(h, given.heap)
    BY HeapsAreHeaps, MallocLater
  <2> HIDE DEF given
  <2>4. Fine(given.heap)
    BY <2>1, <2>3, MoveLater DEF Later, Fine
  <2>5. \/ given.block = Null /\ Keeps(h, B, given.heap)
        \/ given.block # Null /\ Grants(h, B, given.heap, given.block, size)
    BY <2>2, <2>4, MallocOrdered
  <2>6. CASE given.block = Null
    <3>1. r = given
      BY <2>1, <2>6 DEF Move
    <3> QED
      BY <1>6, <2>5, <2>6, <3>1 DEF Resized
  <2>7. CASE given.block # Null
    <3>1. n <= RoundUp(size)
      BY <1>3, <1>6
    <3>2. Grants(h, B, given.heap, given.block, size)
      BY <2>5, <2>7
    <3>3. r.block # Null /\ Moved(h, B, r.heap, b, r.block, size, n)
      BY <2>1, <2>7, <3>1, <3>2, MoveOrdered
    <3> QED
      BY <1>6, <3>3 DEF Resized
  <2> QED
    BY <2>6, <2>7
<1>7. CASE size # 0 /\ ~(payload >= n /\ payload > room)
           /\ (payload >= n \/ room - payload < MinBlock)
  <2> DEFINE g == Allocate(h, b, size, SizeAt(h, b))
  <2>1. r = Result(g, b)
    BY <1>4, <1>7
  <2>2. size + Overhead <= SizeAt(h, b)
    BY <1>1, <1>2, <1>3, <1>7 DEF Overhead
  <2>3. Moved(h, B, g, b, b, size, n)
    BY <2>2, StaysOrdered
  <2> HIDE DEF g
  <2>4. r.heap = g /\ r.block = b
    BY <2>1, <2>3 DEF Result, Moved, Ordered
  <2>5. b # Null
    BY <1>2 DEF Null
  <2> QED
    BY <1>7, <2>3, <2>4, <2>5 DEF Resized
<1>8. CASE size # 0 /\ ~(payload >= n /\ payload > room)
           /\ ~(payload >= n \/ room - payload < MinBlock)
  <2> DEFINE g == Shrink(h, b, size)
  <2>1. r = Result(g, b)
    BY <1>4, <1>8
  <2>2. SizeAt(h, b) - Overhead - RoundUp(size) >= MinBlock
    BY <1>2, <1>3, <1>8 DEF Overhead, MinBlock
  <2>3. Moved(h, B, g, b, b, size, n)
    BY <1>8, <2>2, ShrinkOrdered
  <2> HIDE DEF g
  <2>4. r.heap = g /\ r.block = b
    BY <2>1, <2>3 DEF Result, Moved, Ordered
  <2>5. b # Null
    BY <1>2 DEF Null
  <2> QED
    BY <1>8, <2>3, <2>4, <2>5 DEF Resized
<1> QED
  BY <1>5, <1>6, <1>7, <1>8

LEMMA KeepsResized ==
    ASSUME NEW h \in Heaps, NEW B, Ordered(h, B), NEW g, NEW C, Ordered(g, C),
           Served(h, B, g, C, {}, {}), NEW b \in Allocs(h, B), NEW n \in Nat, Holds(h, b, n),
           NEW r, NEW size, Resized(g, C, r, b, size, n)
    PROVE  Resized(h, B, r, b, size, n)
<1>0. g \in Heaps /\ Tiled(h, B) /\ Tiled(g, C)
  BY DEF Ordered
<1>1. CASE size = 0 /\ r.block = Null /\ Released(g, C, r.heap, b)
  <2>1. PICK D \in SUBSET Rows : Ordered(r.heap, D) /\ Served(g, C, r.heap, D, {b}, {})
    BY <1>1 DEF Released
  <2>2. r.heap \in Heaps
    BY <2>1 DEF Ordered
  <2>3. Served(h, B, r.heap, D, {} \cup {b}, ({} \ {b}) \cup {})
    BY <1>0, <2>1, <2>2, ServedThen
  <2>4. {b} = {} \cup {b} /\ {} = ({} \ {b}) \cup {}
    OBVIOUS
  <2>5. Served(h, B, r.heap, D, {b}, {})
    BY <2>3, <2>4, ServedAlso
  <2> QED
    BY <1>1, <2>1, <2>5 DEF Resized, Released
<1>2. CASE size # 0 /\ r.block = Null /\ Keeps(g, C, r.heap)
  BY <1>2, KeepsThen DEF Resized
<1>3. CASE size # 0 /\ r.block # Null /\ Moved(g, C, r.heap, b, r.block, size, n)
  <2> DEFINE k == r.heap
             c == r.block
  <2>1. PICK D \in SUBSET Rows :
            /\ Ordered(k, D) /\ Served(g, C, k, D, {b}, {c}) /\ Holds(k, c, size)
            /\ c \in Rows /\ (c = b \/ c \notin Allocs(g, C))
            /\ \A i \in 1..n : i <= size => k.mem[c + i] = g.mem[b + i]
    BY <1>3 DEF Moved
  <2> HIDE DEF k, c
  <2>2. k \in Heaps
    BY <2>1 DEF Ordered
  <2>3. Served(h, B, k, D, {} \cup {b}, ({} \ {b}) \cup {c})
    BY <1>0, <2>1, <2>2, ServedThen
  <2>4. {b} = {} \cup {b} /\ {c} = ({} \ {b}) \cup {c}
    OBVIOUS
  <2>5. Served(h, B, k, D, {b}, {c})
    BY <2>3, <2>4, ServedAlso
  <2>6. c = b \/ c \notin Allocs(h, B)
    BY <2>1 DEF Served
  <2>7. ASSUME NEW i \in 1..n, i <= size PROVE k.mem[c + i] = h.mem[b + i]
    <3>1. b \in B /\ n <= SizeAt(h, b) - Overhead
      BY FreesAndAllocs DEF Holds
    <3>2. b + i \in Extent(h, b)
      BY <1>0, <3>1, PayloadInside
    <3>3. g.mem[b + i] = h.mem[b + i]
      BY <3>2 DEF Served, Intact
    <3> QED
      BY <2>1, <2>7, <3>3
  <2>8. Moved(h, B, k, b, c, size, n)
    BY <2>1, <2>5, <2>6, <2>7 DEF Moved
  <2> QED
    BY <1>3, <2>8 DEF Resized, k, c
<1> QED
  BY <1>1, <1>2, <1>3 DEF Resized

LEMMA ReallocLater ==
    ASSUME NEW p, IsHeap(p), NEW fit, NEW b, NEW size,
           NEW r, r = ResizeIfFit(p, fit, b, size)
    PROVE  Later(p, r.heap)
<1>1. \/ r = Result(Note(p, "kept", size = 0), Null)
      \/ r = Result(Require(p, FALSE), Null)
      \/ r = Resize(p, b, size)
  BY DEF ResizeIfFit
<1>2. CASE r = Result(Note(p, "kept", size = 0), Null)
  <2>1. r.heap = Note(p, "kept", size = 0)
    BY <1>2 DEF Result
  <2>2. Later(p, Note(p, "kept", size = 0))
    BY NoteLater
  <2> QED
    BY <2>1, <2>2
<1>3. CASE r = Result(Require(p, FALSE), Null)
  <2>1. r.heap = Require(p, FALSE)
    BY <1>3 DEF Result
  <2>2. Later(p, Require(p, FALSE))
    BY RequireLater
  <2> QED
    BY <2>1, <2>2
<1>4. CASE r = Resize(p, b, size)
  BY <1>4, ResizeLater
<1> QED
  BY <1>1, <1>2, <1>3, <1>4

\* sf_realloc frees a block, leaves it as it is or moves what fits of it.
LEMMA ReallocOrdered ==
    ASSUME NEW h \in Heaps, NEW B, Ordered(h, B), NEW b \in Allocs(h, B), NEW size \in Nat,
           NEW n \in Nat, Holds(h, b, n), NEW r, r = Realloc(h, b, size), Fine(r.heap)
    PROVE  Resized(h, B, r, b, size, n)
<1> DEFINE m == RoundUp(size)
           p == Provide(h, m)
           fit == FirstFit(p, m)
<1>1. m \in Nat
  BY Rounded
<1>2. r = ResizeIfFit(p, fit, b, size)
  BY DEF Realloc, FindAndResize
<1> HIDE DEF m
<1>3. p \in Heaps /\ Later(h, p) /\ (Fine(p) => Keeps(h, B, p))
  BY ProvideOrdered
<1> HIDE DEF p
<1>4. Later(p, r.heap)
  <2>1. IsHeap(p)
    BY <1>3, HeapsAreHeaps
  <2> HIDE DEF fit
  <2> QED
    BY <1>2, <2>1, ReallocLater
<1>5. PICK C \in SUBSET Rows : Ordered(p, C) /\ Served(h, B, p, C, {}, {})
  BY <1>3, <1>4 DEF Fine, Later, Keeps
<1>6. fit = Null \/ fit \in Frees(p, C)
  BY <1>1, <1>3, <1>5, FirstFitFinds
<1> HIDE DEF fit
<1>7. Tiled(h, B) /\ Tiled(p, C) /\ ~p.fault
  BY <1>5 DEF Ordered
<1>8. b \in Allocs(p, C) /\ Holds(p, b, n) /\ Valid(p, b)
  <2>1. b \in Allocs(p, C) /\ Holds(p, b, n)
    BY <1>3, <1>5, <1>7, KeptBlock
  <2> QED
    BY <2>1 DEF Holds
<1>9. CASE fit = Null
  <2>1. r = Result(Note(p, "kept", size = 0), Null)
    BY <1>2, <1>7, <1>9 DEF ResizeIfFit
  <2>2. r.heap = Note(p, "kept", size = 0) /\ r.block = Null
    BY <2>1 DEF Result
  <2>3. "kept" \in Slips /\ (size = 0) \in BOOLEAN
    BY DEF Slips
  <2>4. size # 0
    <3>1. size = 0 => "kept" \in r.heap.slips
      BY <1>3, <2>2, <2>3, NoteTyped
    <3> QED
      BY <3>1 DEF Fine
  <2>5. r.heap = p
    BY <2>2, <2>4 DEF Note
  <2> QED
    BY <1>5, <2>2, <2>4, <2>5 DEF Resized, Keeps
<1>10. CASE fit # Null
  <2>1. fit # Wild
    <3>1. fit \in C
      BY <1>3, <1>6, <1>10, FreesAndAllocs
    <3>2. fit \in Nat
      BY <1>3, <1>7, <3>1, BlockRows
    <3> QED
      BY <3>2 DEF Wild
  <2>2. r = Resize(p, b, size)
    BY <1>2, <1>7, <1>8, <1>10, <2>1 DEF ResizeIfFit
  <2>3. Resized(p, C, r, b, size, n)
    BY <1>3, <1>5, <1>8, <2>2, ResizeOrdered
  <2> QED
    BY <1>5, <2>3, KeepsResized
<1> QED
  BY <1>9, <1>10

-----------------------------------------------------------------------------
(* The client *)

\* What is known of a block that is served stays so.
LEMMA KnownStays ==
    ASSUME NEW h \in Heaps, NEW g \in Heaps, NEW B, NEW C, Tiled(h, B), Tiled(g, C),
           NEW gone, NEW new, Served(h, B, g, C, gone, new), NEW b \in Allocs(h, B), b \notin gone,
           NEW e, Known(h, b, e)
    PROVE  Known(g, b, e)
<1>1. b \in B /\ Holds(g, b, e.requested)
  BY KeptBlock DEF Known
<1>2. e.requested \in Nat /\ e.requested <= SizeAt(h, b) - Overhead
  BY DEF Known, Holds, Entries
<1>3. ASSUME NEW i \in 1..e.written PROVE g.mem[b + i] = Data(i, e.padded)
  <2>1. i \in 1..e.requested
    BY DEF Known, Entries
  <2>2. b + i \in Extent(h, b)
    BY <1>1, <1>2, <2>1, PayloadInside
  <2>3. g.mem[b + i] = h.mem[b + i]
    BY <2>2 DEF Served, Intact
  <2> QED
    BY <2>3 DEF Known
<1> QED
  BY <1>1, <1>3 DEF Known

\* The payloads of two blocks have no row in common.
LEMMA PayloadsApart ==
    ASSUME NEW h \in Heaps, NEW B, Tiled(h, B), NEW b \in B, NEW c \in B, b # c,
           NEW m \in Nat, NEW n \in Nat, Holds(h, b, m), Holds(h, c, n)
    PROVE  Payload(b, m) \cap Payload(c, n) = {}
<1> SUFFICES ASSUME NEW a \in Payload(b, m), a \in Payload(c, n) PROVE FALSE
  OBVIOUS
<1>1. b \in Nat /\ c \in Nat
  BY BlockRows
<1>2. a - b \in 1..m /\ a - c \in 1..n /\ b + (a - b) = a /\ c + (a - c) = a
  BY <1>1 DEF Payload
<1>3. m <= SizeAt(h, b) - Overhead /\ n <= SizeAt(h, c) - Overhead
  BY DEF Holds
<1>4. b + (a - b) \in Extent(h, b)
  BY <1>2, <1>3, PayloadInside
<1>5. c + (a - c) \in Extent(h, c)
  BY <1>2, <1>3, PayloadInside
<1> QED
  BY <1>2, <1>4, <1>5, BlocksApart

\* others is what the client holds but for what is gone.
Rest(own, gone, others) ==
    DOMAIN others = DOMAIN own \ gone /\ \A q \in DOMAIN others : others[q] = own[q]

\* Block c of the client's is no memory of its others.
Gets(g, C, own, c, requested, written, padded, others) ==
    /\ Client(g, Holding(c, requested, written, padded, others), C)
    /\ \A q \in DOMAIN others : Payload(c, requested) \cap Payload(q, own[q].requested) = {}

\* What a call gives the client beside what it keeps, others, is no memory of these.
LEMMA ClientGets ==
    ASSUME NEW h \in Heaps, NEW B, Ordered(h, B), NEW own, Client(h, own, B),
           NEW g, NEW C, Ordered(g, C), NEW gone, NEW c, Served(h, B, g, C, gone, {c}),
           c \in gone \/ c \notin Allocs(h, B),
           NEW others, Rest(own, gone, others),
           NEW requested, NEW written, NEW padded,
           Known(g, c, [requested |-> requested, written |-> written, padded |-> padded])
    PROVE  Gets(g, C, own, c, requested, written, padded, others)
<1>0. DOMAIN others = DOMAIN own \ gone /\ \A q \in DOMAIN others : others[q] = own[q]
  BY DEF Rest
<1> DEFINE e == [requested |-> requested, written |-> written, padded |-> padded]
           all == Holding(c, requested, written, padded, others)
<1>1. g \in Heaps /\ Tiled(h, B) /\ Tiled(g, C)
  BY DEF Ordered
<1>2. DOMAIN own = Allocs(h, B) /\ \A p \in DOMAIN own : Known(h, p, own[p])
  BY DEF Client
<1>3. Allocs(g, C) = (Allocs(h, B) \ gone) \cup {c}
  BY DEF Served
<1>4. c \notin DOMAIN others
  BY <1>0, <1>2
<1>5. /\ DOMAIN all = {c} \cup DOMAIN others /\ all[c] = e
      /\ \A q \in DOMAIN others : all[q] = others[q]
  BY <1>4 DEF Holding
<1> HIDE DEF all
<1>6. ASSUME NEW q \in DOMAIN others PROVE Known(g, q, own[q])
  <2>1. q \in Allocs(h, B) /\ q \notin gone /\ Known(h, q, own[q])
    BY <1>0, <1>2
  <2> QED
    BY <1>1, <2>1, KnownStays
<1> HIDE DEF e
<1>7. Client(g, all, C)
  <2>1. DOMAIN all = Allocs(g, C)
    BY <1>0, <1>2, <1>3, <1>5
  <2>2. ASSUME NEW p \in DOMAIN all PROVE Known(g, p, all[p])
    <3>1. CASE p = c
      BY <1>5, <3>1 DEF e
    <3>2. CASE p # c
      BY <1>0, <1>5, <1>6, <3>2
    <3> QED
      BY <3>1, <3>2
  <2> QED
    BY <2>1, <2>2 DEF Client
<1>8. ASSUME NEW q \in DOMAIN others
      PROVE  Payload(c, requested) \cap Payload(q, own[q].requested) = {}
  <2>1. c \in C /\ q \in C /\ c # q
    BY <1>0, <1>1, <1>2, <1>3, <1>4, FreesAndAllocs
  <2>2. requested \in Nat /\ Holds(g, c, requested)
    BY DEF Known, Entries
  <2>3. own[q].requested \in Nat /\ Holds(g, q, own[q].requested)
    BY <1>6 DEF Known, Entries
  <2> QED
    BY <1>1, <2>1, <2>2, <2>3, PayloadsApart
<1> QED
  BY <1>7, <1>8 DEF all, Gets

\* Or the client keeps what it does not give away.
LEMMA ClientKeeps ==
    ASSUME NEW h \in Heaps, NEW B, Ordered(h, B), NEW own, Client(h, own, B),
           NEW g, NEW C, Ordered(g, C), NEW gone, Served(h, B, g, C, gone, {}),
           NEW others, Rest(own, gone, others)
    PROVE  Client(g, others, C)
<1>0. DOMAIN others = DOMAIN own \ gone /\ \A q \in DOMAIN others : others[q] = own[q]
  BY DEF Rest
<1>1. g \in Heaps /\ Tiled(h, B) /\ Tiled(g, C)
  BY DEF Ordered
<1>2. DOMAIN own = Allocs(h, B) /\ \A p \in DOMAIN own : Known(h, p, own[p])
  BY DEF Client
<1>3. DOMAIN others = Allocs(g, C)
  BY <1>0, <1>2 DEF Served
<1>4. ASSUME NEW q \in DOMAIN others PROVE Known(g, q, others[q])
  <2>1. q \in Allocs(h, B) /\ q \notin gone /\ Known(h, q, own[q])
    BY <1>0, <1>2
  <2>2. Known(g, q, own[q])
    BY <1>1, <2>1, KnownStays
  <2> QED
    BY <1>0, <2>2
<1> QED
  BY <1>3, <1>4 DEF Client

\* n rows of block p are written; this is what the client knows then.
Wrote(h, p, n, padded) ==
    [h EXCEPT !.mem = [a \in Rows |-> IF a \in Payload(p, n) THEN Data(a - p, padded)
                                      ELSE h.mem[a]]]
Told(own, p, n, padded) == [own EXCEPT ![p].written = n, ![p].padded = padded]

\* Memory the client does not write of a block is as it was.
LEMMA ClientFills ==
    ASSUME NEW h \in Heaps, NEW B, Ordered(h, B), NEW own, Client(h, own, B),
           NEW p \in DOMAIN own, NEW n \in Nat, n <= own[p].requested,
           NEW padded \in BOOLEAN
    PROVE  \E C \in SUBSET Rows :
              Ordered(Wrote(h, p, n, padded), C)
              /\ Client(Wrote(h, p, n, padded), Told(own, p, n, padded), C)
<1> DEFINE g == Wrote(h, p, n, padded)
           r == own[p].requested
           e == [own[p] EXCEPT !.written = n, !.padded = padded]
           next == Told(own, p, n, padded)
           mem == [a \in Rows |-> IF a \in Payload(p, n)
                                  THEN Data(a - p, padded) ELSE h.mem[a]]
<1>1. Tiled(h, B)
  BY DEF Ordered
<1>2. DOMAIN own = Allocs(h, B) /\ \A q \in DOMAIN own : Known(h, q, own[q])
  BY DEF Client
<1>3. p \in Allocs(h, B) /\ p \in B /\ p \in Nat
  BY <1>1, <1>2, BlockRows, FreesAndAllocs
<1>4. /\ own[p] \in Entries /\ r \in Nat /\ n \in Nat /\ n <= r
      /\ Holds(h, p, r) /\ r <= SizeAt(h, p) - Overhead
  BY <1>2 DEF Known, Holds, Entries
<1>5. /\ DOMAIN next = DOMAIN own /\ next[p] = e
      /\ \A q \in DOMAIN own : q # p => next[q] = own[q]
  BY DEF Told
<1>6. e \in Entries /\ e.requested = r /\ e.written = n /\ e.padded = padded
  BY <1>4 DEF Entries
<1>15. n <= SizeAt(h, p) - Overhead
  <2>1. SizeAt(h, p) \in Nat /\ Overhead \in Nat
    BY <1>3, TagTyped DEF Overhead
  <2> QED
    BY <1>4, <2>1
<1> HIDE DEF r, e, next
<1>7. mem \in [Rows -> Contents]
  <2> SUFFICES ASSUME NEW a \in Rows PROVE mem[a] \in Contents
    OBVIOUS
  <2>1. a \in Int /\ a - p \in Int
    BY <1>3, EndBounds DEF Rows
  <2>2. Data(a - p, padded) \in Contents
    BY <2>1, RowKinds
  <2>3. h.mem[a] \in Contents
    BY DEF Heaps
  <2> QED
    BY <2>2, <2>3
<1>8. \A a \in Rows : mem[a] = IF a \in Payload(p, n) THEN Data(a - p, padded) ELSE h.mem[a]
  OBVIOUS
<1>9. g = [h EXCEPT !.mem = mem]
  BY DEF Wrote
<1> HIDE DEF mem, g
<1>10. g \in Heaps /\ OnlyMem(h, g) /\ g.mem = mem
  BY <1>7, <1>9 DEF Heaps, OnlyMem
<1>11. Filled(h, g, p)
  <2> SUFFICES ASSUME NEW a \in Rows, a \in Payload(p, n)
               PROVE  a \in Extent(h, p) /\ a # p /\ a # Foot(h, p)
    BY <1>8, <1>10 DEF Filled
  <2>1. a - p \in 1..n /\ p + (a - p) = a
    BY <1>3, <1>4 DEF Payload
  <2>2. /\ p + (a - p) \in Extent(h, p) /\ p + (a - p) # p /\ p + (a - p) # Foot(h, p)
    BY <1>1, <1>3, <1>4, <1>15, <2>1, PayloadInside
  <2> QED
    BY <2>1, <2>2
<1>12. /\ Ordered(g, B) /\ Served(h, B, g, B, {p}, {p}) /\ Allocs(g, B) = Allocs(h, B)
       /\ Holds(g, p, r)
  BY <1>3, <1>4, <1>10, <1>11, FilledOrdered
<1>13. Client(g, next, B)
  <2>1. DOMAIN next = Allocs(g, B)
    BY <1>2, <1>5, <1>12
  <2>2. ASSUME NEW q \in DOMAIN next PROVE Known(g, q, next[q])
    <3>1. CASE q = p
      <4>1. next[q] = e
        BY <1>5, <2>2, <3>1
      <4>2. ASSUME NEW i \in 1..n PROVE g.mem[p + i] = Data(i, padded)
        <5>1. p + i \in Rows
          BY <1>1, <1>3, <1>4, <1>15, PayloadInside
        <5>2. p + i \in Payload(p, n) /\ (p + i) - p = i
          BY <1>3, <1>4 DEF Payload
        <5> QED
          BY <1>8, <1>10, <5>1, <5>2
      <4> QED
        BY <1>4, <1>6, <1>12, <3>1, <4>1, <4>2 DEF Known
    <3>2. CASE q # p
      <4>1. q \in Allocs(h, B) /\ next[q] = own[q] /\ Known(h, q, own[q])
        BY <1>2, <1>5, <2>2, <3>2
      <4>2. q \notin {p} /\ Tiled(g, B)
        BY <1>12, <3>2 DEF Ordered
      <4>3. Known(g, q, own[q])
        BY <1>1, <1>10, <1>12, <4>1, <4>2, KnownStays
      <4> QED
        BY <4>1, <4>3
    <3> QED
      BY <3>1, <3>2
  <2> QED
    BY <2>1, <2>2 DEF Client
<1>14. B \in SUBSET Rows
  BY <1>1, BlocksAreRows
<1> QED
  BY <1>12, <1>13, <1>14 DEF next, g

\* One entry is missing.
LEMMA WithoutOne ==
    ASSUME NEW p
    PROVE  Rest(held, {p}, Without(p)) /\ Rest(held, {}, held)
BY DEF Without, Rest

\* What the client knows after a call, as long as nothing but drops has slipped.
Fair(g, own) ==
    Fine(g) => \E C \in SUBSET Rows : Ordered(g, C) /\ Client(g, own, C)

LEMMA FillFair ==
    ASSUME NEW p \in DOMAIN held, NEW padded \in BOOLEAN, writes \in Nat, Fill(p, padded), NEW B, Ordered(heap, B), Client(heap, held, B)
    PROVE  Fair(heap', held') /\ (~clash => ~clash')
<1>1. heap \in Heaps
  BY DEF Ordered
<1>2. \E C \in SUBSET Rows :
         Ordered(heap', C) /\ Client(heap', held', C)
  <2> DEFINE n == Reach(p)
  <2>1. held[p].requested \in Nat
    BY DEF Client, Known, Entries
  <2>2. n \in Nat /\ n <= held[p].requested
    BY <2>1 DEF Reach
  <2>3. heap' = Wrote(heap, p, n, padded) /\ held' = Told(held, p, n, padded)
    BY DEF Fill, Wrote, Told
  <2> HIDE DEF n
  <2>4. \E C \in SUBSET Rows :
           Ordered(Wrote(heap, p, n, padded), C)
           /\ Client(Wrote(heap, p, n, padded), Told(held, p, n, padded), C)
    BY <1>1, <2>2, ClientFills
  <2> QED
    BY <2>3, <2>4
<1> QED
  BY <1>2 DEF Fill, Fair

LEMMA FreeFair ==
    ASSUME NEW p \in DOMAIN held, CallFree(p), NEW B, Ordered(heap, B), Client(heap, held, B)
    PROVE  Fair(heap', held') /\ (~clash => ~clash')
<1>1. heap \in Heaps
  BY DEF Ordered
<1>2. p \in Allocs(heap, B) /\ Valid(heap, p)
  BY DEF Client, Known, Holds
<1>3. PICK C \in SUBSET Rows :
          Ordered(Free(heap, p), C) /\ Served(heap, B, Free(heap, p), C, {p}, {})
  BY <1>1, <1>2, FreeOrdered
<1>4. Rest(held, {p}, Without(p))
  BY WithoutOne
<1>5. Client(Free(heap, p), Without(p), C)
  BY <1>1, <1>3, <1>4, ClientKeeps
<1> QED
  BY <1>3, <1>5 DEF CallFree, Fair

LEMMA MallocFair ==
    ASSUME NEW size \in Nat, CallMalloc(size), NEW B, Ordered(heap, B), Client(heap, held, B)
    PROVE  Fair(heap', held') /\ (Fine(heap') /\ ~clash => ~clash')
<1> SUFFICES ASSUME Fine(heap')
             PROVE  /\ \E C \in SUBSET Rows : Ordered(heap', C) /\ Client(heap', held', C)
                    /\ ~clash => ~clash'
  BY DEF Fair
<1> DEFINE r == Malloc(heap, size)
<1>0. r = Malloc(heap, size)
  OBVIOUS
<1>1. heap \in Heaps
  BY DEF Ordered
<1>2. /\ heap' = r.heap
      /\ \/ r.block = Null /\ held' = held /\ clash' = clash
         \/ /\ r.block # Null
            /\ clash' = Clashes(r.block, size, DOMAIN held)
            /\ held' = Holding(r.block, size, 0, FALSE, held)
  BY DEF CallMalloc, Answered
<1> HIDE DEF r
<1>3. \/ r.block = Null /\ Keeps(heap, B, r.heap)
      \/ r.block # Null /\ Grants(heap, B, r.heap, r.block, size)
  BY <1>0, <1>1, <1>2, MallocOrdered
<1>4. Rest(held, {}, held)
  BY WithoutOne
<1>5. CASE r.block = Null
  <2>1. PICK C \in SUBSET Rows : Ordered(r.heap, C) /\ Served(heap, B, r.heap, C, {}, {})
    BY <1>3, <1>5 DEF Keeps
  <2>2. Client(r.heap, held, C)
    BY <1>1, <1>4, <2>1, ClientKeeps
  <2> QED
    BY <1>2, <1>5, <2>1, <2>2
<1>6. CASE r.block # Null
  <2> DEFINE c == r.block
  <2>1. PICK C \in SUBSET Rows :
            /\ Ordered(r.heap, C) /\ Served(heap, B, r.heap, C, {}, {c})
            /\ Holds(r.heap, c, size) /\ c \notin Allocs(heap, B)
    BY <1>3, <1>6 DEF Grants
  <2> HIDE DEF c
  <2>2. Known(r.heap, c, [requested |-> size, written |-> 0, padded |-> FALSE])
    BY <2>1 DEF Known, Entries
  <2>3. Gets(r.heap, C, held, c, size, 0, FALSE, held)
    BY <1>1, <1>4, <2>1, <2>2, ClientGets
  <2>4. ~Clashes(c, size, DOMAIN held)
    BY <2>3 DEF Clashes, Gets
  <2> QED
    BY <1>2, <1>6, <2>1, <2>3, <2>4 DEF c, Gets
<1> QED
  BY <1>5, <1>6

LEMMA ReallocFair ==
    ASSUME NEW p \in DOMAIN held, NEW size \in Nat, CallRealloc(p, size),
           NEW B, Ordered(heap, B), Client(heap, held, B)
    PROVE  Fair(heap', held') /\ (Fine(heap') /\ ~clash => ~clash')
<1> SUFFICES ASSUME Fine(heap')
             PROVE  /\ \E C \in SUBSET Rows : Ordered(heap', C) /\ Client(heap', held', C)
                    /\ ~clash => ~clash'
  BY DEF Fair
<1> DEFINE r == Realloc(heap, p, size)
           n == held[p].requested
           kept == IF held[p].written < size THEN held[p].written ELSE size
<1>0. r = Realloc(heap, p, size)
  OBVIOUS
<1>1. heap \in Heaps
  BY DEF Ordered
<1>2. /\ heap' = r.heap
      /\ \/ r.block = Null /\ held' = (IF size = 0 THEN Without(p) ELSE held) /\ clash' = clash
         \/ /\ r.block # Null
            /\ clash' = Clashes(r.block, size, DOMAIN Without(p))
            /\ held' = Holding(r.block, size, kept, held[p].padded, Without(p))
  BY DEF CallRealloc, Answered
<1> HIDE DEF r
<1>3. p \in Allocs(heap, B) /\ Known(heap, p, held[p])
  BY DEF Client
<1>4. /\ n \in Nat /\ Holds(heap, p, n) /\ held[p].written \in Nat /\ held[p].written <= n
      /\ held[p].padded \in BOOLEAN
  BY <1>3 DEF Known, Entries
<1>5. kept \in Nat /\ kept <= size /\ kept <= held[p].written
  BY <1>4
<1>6. Rest(held, {p}, Without(p)) /\ Rest(held, {}, held)
  BY WithoutOne
<1> HIDE DEF n, kept
<1>7. Resized(heap, B, r, p, size, n)
  BY <1>0, <1>1, <1>2, <1>3, <1>4, ReallocOrdered
<1>8. CASE size = 0 /\ r.block = Null /\ Released(heap, B, r.heap, p)
  <2>1. PICK C \in SUBSET Rows : Ordered(r.heap, C) /\ Served(heap, B, r.heap, C, {p}, {})
    BY <1>8 DEF Released
  <2>2. Client(r.heap, Without(p), C)
    BY <1>1, <1>6, <2>1, ClientKeeps
  <2> QED
    BY <1>2, <1>8, <2>1, <2>2
<1>9. CASE size # 0 /\ r.block = Null /\ Keeps(heap, B, r.heap)
  <2>1. PICK C \in SUBSET Rows : Ordered(r.heap, C) /\ Served(heap, B, r.heap, C, {}, {})
    BY <1>9 DEF Keeps
  <2>2. Client(r.heap, held, C)
    BY <1>1, <1>6, <2>1, ClientKeeps
  <2> QED
    BY <1>2, <1>9, <2>1, <2>2
<1>10. CASE size # 0 /\ r.block # Null /\ Moved(heap, B, r.heap, p, r.block, size, n)
  <2> DEFINE c == r.block
             e == [requested |-> size, written |-> kept, padded |-> held[p].padded]
  <2>1. PICK C \in SUBSET Rows :
            /\ Ordered(r.heap, C) /\ Served(heap, B, r.heap, C, {p}, {c})
            /\ Holds(r.heap, c, size) /\ (c = p \/ c \notin Allocs(heap, B))
            /\ \A i \in 1..n : i <= size => r.heap.mem[c + i] = heap.mem[p + i]
    BY <1>10 DEF Moved
  <2> HIDE DEF c
  <2>2. ASSUME NEW i \in 1..kept PROVE r.heap.mem[c + i] = Data(i, held[p].padded)
    <3>1. i \in 1..n /\ i <= size /\ i \in 1..held[p].written
      BY <1>4, <1>5
    <3>2. heap.mem[p + i] = Data(i, held[p].padded)
      BY <1>3, <3>1 DEF Known
    <3> QED
      BY <2>1, <3>1, <3>2
  <2>3. e \in Entries /\ e.written <= e.requested
        /\ e.requested = size /\ e.written = kept /\ e.padded = held[p].padded
    BY <1>4, <1>5 DEF Entries
  <2> HIDE DEF e
  <2>4. Known(r.heap, c, e)
    BY <2>1, <2>2, <2>3 DEF Known
  <2>5. c \in {p} \/ c \notin Allocs(heap, B)
    BY <2>1
  <2>6. Known(r.heap, c, [requested |-> size, written |-> kept, padded |-> held[p].padded])
    BY <2>4 DEF e
  <2>7. Gets(r.heap, C, held, c, size, kept, held[p].padded, Without(p))
    BY <1>1, <1>6, <2>1, <2>5, <2>6, ClientGets
  <2>8. ~Clashes(c, size, DOMAIN Without(p))
    BY <2>7 DEF Clashes, Gets
  <2> QED
    BY <1>2, <1>10, <2>1, <2>7, <2>8 DEF c, Gets
<1> QED
  BY <1>7, <1>8, <1>9, <1>10 DEF Resized

-----------------------------------------------------------------------------
(* The invariant *)

LEMMA InitInvariant == Init => IInv
<1> SUFFICES ASSUME Init PROVE IInv
  OBVIOUS
<1>10. PICK zeros \in Clean :
          heap.mem = [a \in Rows |-> IF a \in zeros THEN Zero ELSE Data(0, TRUE)]
  BY DEF Init
<1> DEFINE mem == [a \in Rows |-> IF a \in zeros THEN Zero ELSE Data(0, TRUE)]
<1>1. heap = [mem |-> mem, head |-> [l \in Lists |-> Null], pages |-> 0,
              fault |-> FALSE, slips |-> {}]
  BY <1>10 DEF Init
<1>2. IsHeap(heap)
  BY <1>1 DEF IsHeap
<1>3. heap \in Heaps
  <2>1. mem \in [Rows -> Contents]
    <3>1. Zero \in Contents /\ Data(0, TRUE) \in Contents
      <4>1. 0 \in Int /\ TRUE \in BOOLEAN
        OBVIOUS
      <4> QED
        BY <4>1, RowKinds
    <3> QED
      BY <3>1
  <2>2. Null \in Int /\ 0 \in 0..MaxPages
    BY SfmmAssumption DEF Null
  <2> QED
    BY <1>1, <2>1, <2>2 DEF Heaps
<1>4. End(heap) = 0
  BY <1>1, SfmmAssumption DEF End
<1>5. Frees(heap, {}) = {} /\ Allocs(heap, {}) = {}
  BY DEF Frees, Allocs
<1>6. Tiled(heap, {})
  BY <1>4 DEF Tiled, Aligned
<1>7. Linked(heap, {}) /\ NoneDropped(heap, {})
  <2>1. Strung(heap, {}) /\ Classed(heap, {}) /\ NoneDropped(heap, {})
    BY DEF Strung, Spaced, Chained, Acyclic, Classed, NoneDropped
  <2>2. Heads(heap, {})
    BY <1>1 DEF Heads
  <2> QED
    BY <2>1, <2>2 DEF Linked
<1>8. Ordered(heap, {})
  BY <1>1, <1>3, <1>5, <1>6, <1>7 DEF Ordered
<1>9. Client(heap, held, {})
  BY <1>5 DEF Init, Client
<1> QED
  BY <1>2, <1>8, <1>9 DEF IInv, Init

\* No call makes a slip undone.
LEMMA CallsLater ==
    ASSUME IsHeap(heap), Next
    PROVE  Later(heap, heap')
<1>1. CASE \E p \in Unwritten, padded \in Bits : Fill(p, padded)
  <2>1. PICK mem : heap' = [heap EXCEPT !.mem = mem]
    BY <1>1 DEF Fill
  <2>2. Later(heap, [heap EXCEPT !.mem = mem])
    BY FieldsLater
  <2> QED
    BY <2>1, <2>2
<1>2. CASE \E size \in Sizes : CallMalloc(size)
  BY <1>2, MallocLater DEF CallMalloc, Answered
<1>3. CASE \E p \in DOMAIN held : CallFree(p)
  BY <1>3, FreeLater DEF CallFree
<1>4. ASSUME NEW p \in DOMAIN held, NEW size \in Sizes, CallRealloc(p, size)
      PROVE  Later(heap, heap')
  <2> DEFINE m == RoundUp(size)
             k == Provide(heap, m)
             r == ResizeIfFit(k, FirstFit(k, m), p, size)
  <2>1. heap' = r.heap
    BY <1>4 DEF CallRealloc, Answered, Realloc, FindAndResize
  <2>2. Later(heap, k)
    BY ProvideLater
  <2> HIDE DEF k
  <2>3. Later(k, r.heap)
    BY <2>2, ReallocLater DEF Later
  <2> HIDE DEF r
  <2> QED
    BY <2>1, <2>2, <2>3, LaterStill
<1> QED
  BY <1>1, <1>2, <1>3, <1>4 DEF Next, Call

LEMMA StepKeepsInvariant == IInv /\ [Next]_vars => IInv'
<1> SUFFICES ASSUME IInv, [Next]_vars PROVE IInv'
  OBVIOUS
<1>1. CASE UNCHANGED vars
  BY <1>1 DEF vars, IInv, Only, Ordered, Client
<1>2. CASE Next
  <2>1. IsHeap(heap) /\ Later(heap, heap')
    BY <1>2, CallsLater DEF IInv
  <2>2. SUFFICES ASSUME Fine(heap')
                 PROVE  /\ ~clash'
                        /\ \E B \in SUBSET Rows : Ordered(heap', B) /\ Client(heap', held', B)
    BY <1>2, <2>1 DEF IInv, Only, Fine, Later, Next
  <2>3. Fine(heap)
    BY <2>1, <2>2 DEF Fine, Later
  <2>4. PICK B \in SUBSET Rows : Ordered(heap, B) /\ Client(heap, held, B)
    BY <2>3 DEF IInv, Only, Fine
  <2>5. ~clash
    BY <2>3 DEF IInv, Only, Fine
  <2>6. Sizes \subseteq Nat /\ Bits \subseteq BOOLEAN
    BY SfmmAssumption
  <2>8. writes \in Nat
    BY SfmmAssumption DEF IInv
  <2>7. Fair(heap', held') /\ ~clash'
    <3>1. CASE \E p \in Unwritten, padded \in Bits : Fill(p, padded)
      BY <2>4, <2>5, <2>6, <2>8, <3>1, FillFair DEF Unwritten
    <3>2. CASE \E size \in Sizes : CallMalloc(size)
      BY <2>2, <2>4, <2>5, <2>6, <3>2, MallocFair
    <3>3. CASE \E p \in DOMAIN held : CallFree(p)
      BY <2>4, <2>5, <3>3, FreeFair
    <3>4. CASE \E p \in DOMAIN held : \E size \in Sizes : CallRealloc(p, size)
      BY <2>2, <2>4, <2>5, <2>6, <3>4, ReallocFair
    <3> QED
      BY <1>2, <3>1, <3>2, <3>3, <3>4 DEF Next, Call
  <2> QED
    BY <2>2, <2>7 DEF Fair
<1> QED
  BY <1>1, <1>2

\* The invariant holds after any calls of sf_malloc, sf_free and sf_realloc.
THEOREM HeapInOrder == Spec => []IInv
BY InitInvariant, StepKeepsInvariant, PTL DEF Spec

-----------------------------------------------------------------------------
(* What the properties see by walking through the heap *)

Stations == [at : Int, seen : SUBSET Int]

FromBlock(w) ==
    IF w.at < End(heap) THEN [at |-> Onto(w.at), seen |-> w.seen \cup {w.at}] ELSE w

\* The walk that finds the blocks.
BlocksWalk(walk) ==
    /\ walk[0] = [at |-> 0, seen |-> {}] /\ \A n \in 1..MaxBlocks : walk[n] = FromBlock(walk[n - 1])
    /\ Blocks = walk[MaxBlocks].seen

LEMMA BlocksAreWalked == ASSUME heap \in Heaps PROVE \E walk : BlocksWalk(walk)
<1> DEFINE start == [at |-> 0, seen |-> {}]
           next == [w \in Stations |-> FromBlock(w)]
           at == CHOOSE f : f = [n \in 0..MaxBlocks |->
                                    IF n = 0 THEN [at |-> 0, seen |-> {}]
                                    ELSE LET w == f[n - 1]
                                         IN  IF w.at < End(heap)
                                             THEN [at |-> Onto(w.at), seen |-> w.seen \cup {w.at}]
                                             ELSE w]
<1>1. MaxBlocks \in Nat
  BY EndBounds DEF MaxBlocks, MinBlock
<1>2. start \in Stations
  BY DEF Stations
<1>3. \A w \in Stations : FromBlock(w) \in Stations
  <2> SUFFICES ASSUME NEW w \in Stations PROVE FromBlock(w) \in Stations
    OBVIOUS
  <2>1. w.at \in Int /\ w.seen \in SUBSET Int
    BY DEF Stations
  <2>2. Onto(w.at) \in Int
    <3>1. SizeAt(heap, w.at) \in Nat
      BY <2>1, TagTyped
    <3> QED
      BY <2>1, <3>1 DEF Onto
  <2>3. w.seen \cup {w.at} \in SUBSET Int
    BY <2>1
  <2> QED
    BY <2>2, <2>3 DEF FromBlock, Stations
<1>4. next \in [Stations -> Stations] /\ \A w \in Stations : next[w] = FromBlock(w)
  BY <1>3
<1>5. PICK f : Iterates(f, Stations, start, MaxBlocks, next)
  <2> HIDE DEF start, next
  <2> QED
    BY <1>1, <1>2, <1>4, Orbit
<1>6. \A n \in 0..MaxBlocks : f[n] = IF n = 0 THEN start ELSE FromBlock(f[n - 1])
  <2> HIDE DEF start, next
  <2> SUFFICES ASSUME NEW n \in 0..MaxBlocks
               PROVE  f[n] = IF n = 0 THEN start ELSE FromBlock(f[n - 1])
    OBVIOUS
  <2>1. f[0] = start
    BY <1>5 DEF Iterates
  <2>2. n # 0 => n \in 1..MaxBlocks /\ n - 1 \in 0..MaxBlocks
    BY <1>1
  <2>3. n # 0 => f[n] = next[f[n - 1]] /\ f[n - 1] \in Stations
    BY <1>5, <2>2 DEF Iterates
  <2> QED
    BY <1>4, <2>1, <2>3
<1>7. f = [n \in 0..MaxBlocks |-> IF n = 0 THEN start ELSE FromBlock(f[n - 1])]
  <2> HIDE DEF start, next
  <2> QED
    BY <1>5, <1>6 DEF Iterates
<1>8. at = [n \in 0..MaxBlocks |-> IF n = 0 THEN start ELSE FromBlock(at[n - 1])]
  BY <1>7 DEF FromBlock
<1>9. Blocks = at[MaxBlocks].seen
  BY DEF Blocks
<1> HIDE DEF at
<1>10. at[0] = start
  BY <1>1, <1>8
<1>11. ASSUME NEW n \in 1..MaxBlocks PROVE at[n] = FromBlock(at[n - 1])
  <2>1. n \in 0..MaxBlocks /\ n # 0
    BY <1>1
  <2> HIDE DEF start
  <2> QED
    BY <1>8, <2>1
<1> QED
  BY <1>9, <1>10, <1>11 DEF BlocksWalk

\* They are the blocks of a heap in order.
LEMMA BlocksFound == ASSUME NEW B, Ordered(heap, B) PROVE Blocks = B
<1> DEFINE N == PageSize * MaxPages
           Passed(n, w) ==
               /\ w.at \in B \cup {End(heap)} /\ w.seen = {c \in B : c < w.at}
               /\ w.at = End(heap) \/ w.at >= 4 * n
<1>0. heap \in Heaps /\ Tiled(heap, B)
  BY DEF Ordered
<1>1. PICK walk : BlocksWalk(walk)
  BY <1>0, BlocksAreWalked
<1>2. /\ N \in Nat /\ MaxBlocks \in Nat /\ MaxBlocks = N \div 4
      /\ End(heap) \in Nat /\ End(heap) <= N
  <2>1. N \in Nat /\ End(heap) \in Nat /\ End(heap) <= N
    BY <1>0, EndBounds
  <2> QED
    BY <2>1 DEF MaxBlocks, MinBlock
<1> HIDE DEF N
<1>3. ASSUME NEW b \in B
      PROVE  /\ b \in Nat /\ SizeAt(heap, b) \in Nat /\ SizeAt(heap, b) >= 4
             /\ b + SizeAt(heap, b) <= End(heap) /\ b + SizeAt(heap, b) \in B \cup {End(heap)}
             /\ Onto(b) = b + SizeAt(heap, b)
  <2>1. /\ b \in Nat /\ SizeAt(heap, b) \in Nat /\ SizeAt(heap, b) >= 4
        /\ b + SizeAt(heap, b) <= End(heap)
    BY <1>0, BlockRows
  <2> QED
    BY <1>0, <2>1 DEF Tiled, Onto, MinBlock
<1>4. \A b, c \in B : b < c => b + SizeAt(heap, b) <= c
  BY <1>0 DEF Tiled
<1> DEFINE T == {n \in 0..MaxBlocks : Passed(n, walk[n])}
<1>5. 0 \in T
  <2>1. walk[0].at = 0 /\ walk[0].seen = {}
    BY <1>1 DEF BlocksWalk
  <2>2. 0 \in B \cup {End(heap)}
    BY <1>0, <1>2 DEF Tiled
  <2>3. {c \in B : c < 0} = {}
    BY <1>3
  <2> QED
    BY <1>2, <2>1, <2>2, <2>3
<1>6. ASSUME NEW n \in 0..(MaxBlocks - 1), n \in T PROVE n + 1 \in T
  <2> DEFINE w == walk[n]
             v == walk[n + 1]
  <2>1. n \in Nat /\ n + 1 \in 1..MaxBlocks /\ n + 1 \in 0..MaxBlocks /\ (n + 1) - 1 = n
    BY <1>2
  <2>2. v = FromBlock(w)
    BY <1>1, <2>1 DEF BlocksWalk
  <2>3. Passed(n, w)
    BY <1>6
  <2> HIDE DEF w, v
  <2>4. CASE w.at < End(heap)
    <3>1. w.at \in B
      BY <1>2, <2>3, <2>4
    <3>2. v.at = Onto(w.at) /\ v.seen = w.seen \cup {w.at}
      BY <2>2, <2>4 DEF FromBlock
    <3> DEFINE a == w.at
               s == SizeAt(heap, a)
    <3>3. a \in Nat /\ s \in Nat /\ s >= 4 /\ a + s \in B \cup {End(heap)} /\ v.at = a + s
      BY <1>3, <3>1, <3>2
    <3>4. a >= 4 * n
      BY <1>2, <2>3, <2>4
    <3>5. \A c \in B : a < c => a + s <= c
      BY <1>4, <3>1
    <3> HIDE DEF s
    <3>6. ASSUME NEW c \in B PROVE c < a + s <=> c < a \/ c = a
      <4>1. c \in Nat /\ (a < c => a + s <= c)
        BY <1>3, <3>5
      <4> HIDE DEF a
      <4> QED
        BY <3>3, <4>1
    <3>7. v.seen = {c \in B : c < v.at}
      <4>1. v.seen = {c \in B : c < a} \cup {a}
        BY <2>3, <3>2
      <4> QED
        BY <3>1, <3>3, <3>6, <4>1
    <3>8. v.at >= 4 * (n + 1)
      <4> HIDE DEF a
      <4> QED
        BY <2>1, <3>3, <3>4
    <3>9. v.at \in B \cup {End(heap)}
      BY <3>3
    <3>10. Passed(n + 1, v)
      BY <3>7, <3>8, <3>9
    <3> QED
      BY <2>1, <3>10 DEF v
  <2>5. CASE ~(w.at < End(heap))
    <3>1. w.at = End(heap)
      <4>1. w.at \in B => w.at < End(heap)
        BY <1>2, <1>3
      <4> QED
        BY <2>3, <2>5, <4>1
    <3>2. v = w
      BY <2>2, <2>5 DEF FromBlock
    <3>3. Passed(n + 1, v)
      BY <2>3, <3>1, <3>2
    <3> QED
      BY <2>1, <3>3 DEF v
  <2> QED
    BY <2>4, <2>5
<1>7. Passed(MaxBlocks, walk[MaxBlocks])
  <2>1. 0..MaxBlocks \subseteq T
    <3> HIDE DEF T
    <3> QED
      BY <1>2, <1>5, <1>6, NatSetInduction
  <2>2. MaxBlocks \in 0..MaxBlocks
    BY <1>2
  <2> QED
    BY <2>1, <2>2
<1>8. walk[MaxBlocks].at = End(heap)
  <2> DEFINE a == walk[MaxBlocks].at
  <2>1. ASSUME a \in B PROVE a \in Nat /\ a + 4 <= End(heap)
    <3> DEFINE s == SizeAt(heap, a)
    <3>1. a \in Nat /\ s \in Nat /\ s >= 4 /\ a + s <= End(heap)
      BY <1>3, <2>1
    <3> HIDE DEF a, s
    <3> QED
      BY <1>2, <3>1
  <2>2. a \in B \cup {End(heap)} /\ (a = End(heap) \/ a >= 4 * MaxBlocks)
    BY <1>7
  <2>3. N < 4 * MaxBlocks + 4
    BY <1>2
  <2> HIDE DEF a
  <2>4. CASE a \in B
    BY <1>2, <2>1, <2>2, <2>3, <2>4
  <2> QED
    BY <2>2, <2>4 DEF a
<1>9. \A c \in B : c < End(heap)
  BY <1>2, <1>3
<1> QED
  BY <1>1, <1>7, <1>8, <1>9 DEF BlocksWalk

FromListed(w) ==
    IF w.at >= 0 THEN [at |-> NextOf(heap, w.at), seen |-> w.seen \cup {w.at}] ELSE w

\* The walk through a list.
ListWalk(l, walk) ==
    /\ walk[0] = [at |-> heap.head[l], seen |-> {}]
    /\ \A n \in 1..MaxBlocks : walk[n] = FromListed(walk[n - 1])
    /\ Listed(l) = walk[MaxBlocks].seen

LEMMA ListsAreWalked ==
    ASSUME heap \in Heaps, NEW l \in Lists
    PROVE  \E walk : ListWalk(l, walk)
<1> DEFINE start == [at |-> heap.head[l], seen |-> {}]
           next == [w \in Stations |-> FromListed(w)]
           at == CHOOSE f : f = [n \in 0..MaxBlocks |->
                                    IF n = 0 THEN [at |-> heap.head[l], seen |-> {}]
                                    ELSE LET w == f[n - 1]
                                         IN  IF w.at >= 0
                                             THEN [at |-> NextOf(heap, w.at),
                                                   seen |-> w.seen \cup {w.at}]
                                             ELSE w]
<1>1. MaxBlocks \in Nat
  BY EndBounds DEF MaxBlocks, MinBlock
<1>2. start \in Stations
  BY DEF Stations, Heaps
<1>3. \A w \in Stations : FromListed(w) \in Stations
  <2> SUFFICES ASSUME NEW w \in Stations PROVE FromListed(w) \in Stations
    OBVIOUS
  <2>1. w.at \in Int /\ w.seen \in SUBSET Int
    BY DEF Stations
  <2>2. NextOf(heap, w.at) \in Int
    BY <2>1, LinksTyped
  <2>3. w.seen \cup {w.at} \in SUBSET Int
    BY <2>1
  <2> QED
    BY <2>2, <2>3 DEF FromListed, Stations
<1>4. next \in [Stations -> Stations] /\ \A w \in Stations : next[w] = FromListed(w)
  BY <1>3
<1>5. PICK f : Iterates(f, Stations, start, MaxBlocks, next)
  <2> HIDE DEF start, next
  <2> QED
    BY <1>1, <1>2, <1>4, Orbit
<1>6. \A n \in 0..MaxBlocks : f[n] = IF n = 0 THEN start ELSE FromListed(f[n - 1])
  <2> HIDE DEF start, next
  <2> SUFFICES ASSUME NEW n \in 0..MaxBlocks
               PROVE  f[n] = IF n = 0 THEN start ELSE FromListed(f[n - 1])
    OBVIOUS
  <2>1. f[0] = start
    BY <1>5 DEF Iterates
  <2>2. n # 0 => n \in 1..MaxBlocks /\ n - 1 \in 0..MaxBlocks
    BY <1>1
  <2>3. n # 0 => f[n] = next[f[n - 1]] /\ f[n - 1] \in Stations
    BY <1>5, <2>2 DEF Iterates
  <2> QED
    BY <1>4, <2>1, <2>3
<1>7. f = [n \in 0..MaxBlocks |-> IF n = 0 THEN start ELSE FromListed(f[n - 1])]
  <2> HIDE DEF start, next
  <2> QED
    BY <1>5, <1>6 DEF Iterates
<1>8. at = [n \in 0..MaxBlocks |-> IF n = 0 THEN start ELSE FromListed(at[n - 1])]
  BY <1>7 DEF FromListed
<1>9. Listed(l) = at[MaxBlocks].seen
  BY DEF Listed
<1> HIDE DEF at
<1>10. at[0] = start
  BY <1>1, <1>8
<1>11. ASSUME NEW n \in 1..MaxBlocks PROVE at[n] = FromListed(at[n - 1])
  <2>1. n \in 0..MaxBlocks /\ n # 0
    BY <1>1
  <2> HIDE DEF start
  <2> QED
    BY <1>8, <2>1
<1> QED
  BY <1>9, <1>10, <1>11 DEF ListWalk

\* A block of list l is led to by another that is listed, or it is the first.
InList(l, F, b, listed) ==
    /\ b \in F /\ Class(heap, b) = l
    /\ \/ heap.head[l] = b /\ PrevOf(heap, b) = Null
       \/ /\ heap.head[l] # b
          /\ PrevOf(heap, b) \in listed /\ NextOf(heap, PrevOf(heap, b)) = b

\* A list goes through blocks of F, from its head to the last.
Through(l, F, listed) ==
    /\ \A b \in listed : InList(l, F, b, listed)
    /\ \A b \in listed : NextOf(heap, b) # Null => NextOf(heap, b) \in listed
    /\ heap.head[l] # Null => heap.head[l] \in listed

LEMMA ListFound ==
    ASSUME NEW F, heap \in Heaps, Linked(heap, F), NEW l \in Lists
    PROVE  Through(l, F, Listed(l))
<1> DEFINE Passed(w) ==
               /\ w.at = Null \/ InList(l, F, w.at, w.seen)
               /\ \A b \in w.seen : InList(l, F, b, w.seen)
               /\ \A b \in w.seen :
                     NextOf(heap, b) # Null => NextOf(heap, b) \in w.seen \cup {w.at}
               /\ heap.head[l] # Null => heap.head[l] \in w.seen \cup {w.at}
<1>1. PICK walk : ListWalk(l, walk)
  BY ListsAreWalked
<1>2. MaxBlocks \in Nat
  BY EndBounds DEF MaxBlocks, MinBlock
<1>3. /\ \A b \in F : b \in Nat
      /\ \A b \in F : NextOf(heap, b) # Null =>
            /\ NextOf(heap, b) \in F /\ PrevOf(heap, NextOf(heap, b)) = b
            /\ Class(heap, NextOf(heap, b)) = Class(heap, b)
  BY DEF Linked, Strung, Spaced, Chained, Classed
<1>4. heap.head[l] # Null =>
         heap.head[l] \in F /\ Class(heap, heap.head[l]) = l /\ PrevOf(heap, heap.head[l]) = Null
  BY DEF Linked, Heads
<1>5. Passed(walk[0])
  <2>1. walk[0].at = heap.head[l] /\ walk[0].seen = {}
    BY <1>1 DEF ListWalk
  <2> QED
    BY <1>4, <2>1 DEF InList
<1>6. ASSUME NEW w, NEW v, v = FromListed(w), Passed(w) PROVE Passed(v)
  <2>1. CASE w.at = Null
    BY <1>6, <2>1 DEF FromListed, Null
  <2>2. CASE w.at # Null
    <3> DEFINE a == w.at
    <3>1. InList(l, F, a, w.seen)
      BY <1>6, <2>2
    <3>2. a \in F /\ a \in Nat /\ Class(heap, a) = l
      BY <1>3, <3>1 DEF InList
    <3>3. v.at = NextOf(heap, a) /\ v.seen = w.seen \cup {a}
      BY <1>6, <3>2 DEF FromListed
    <3>4. \A b : InList(l, F, b, w.seen) => InList(l, F, b, v.seen)
      BY <3>3 DEF InList
    <3>5. v.at = Null \/ InList(l, F, v.at, v.seen)
      <4> SUFFICES ASSUME v.at # Null PROVE InList(l, F, v.at, v.seen)
        OBVIOUS
      <4>1. v.at \in F /\ PrevOf(heap, v.at) = a /\ Class(heap, v.at) = l /\ a \in v.seen
        BY <1>3, <3>2, <3>3
      <4>2. heap.head[l] # v.at
        BY <1>4, <2>2, <4>1
      <4> QED
        BY <3>3, <4>1, <4>2 DEF InList
    <3>6. \A b \in v.seen : InList(l, F, b, v.seen)
      BY <1>6, <3>1, <3>3, <3>4
    <3>7. \A b \in v.seen : NextOf(heap, b) # Null => NextOf(heap, b) \in v.seen \cup {v.at}
      BY <1>6, <3>3
    <3>8. heap.head[l] # Null => heap.head[l] \in v.seen \cup {v.at}
      BY <1>6, <3>3
    <3> QED
      BY <3>5, <3>6, <3>7, <3>8
  <2> QED
    BY <2>1, <2>2
<1> HIDE DEF Passed
<1>7. ASSUME NEW n \in 1..MaxBlocks
      PROVE  walk[n] = FromListed(walk[n - 1]) /\ n - 1 \in 0..MaxBlocks /\ n \in 0..MaxBlocks
  BY <1>1, <1>2 DEF ListWalk
<1>8. \A n \in 0..MaxBlocks : Passed(walk[n])
  <2> DEFINE T == {n \in 0..MaxBlocks : Passed(walk[n])}
  <2>1. 0 \in T
    BY <1>2, <1>5
  <2>2. ASSUME NEW n \in 0..(MaxBlocks - 1), n \in T PROVE n + 1 \in T
    <3>1. n + 1 \in 1..MaxBlocks /\ (n + 1) - 1 = n
      BY <1>2
    <3>2. walk[n + 1] = FromListed(walk[n]) /\ n + 1 \in 0..MaxBlocks
      BY <1>7, <3>1
    <3>3. Passed(walk[n + 1])
      BY <1>6, <2>2, <3>2
    <3> QED
      BY <3>2, <3>3
  <2>3. 0..MaxBlocks \subseteq T
    <3> HIDE DEF T
    <3> QED
      BY <1>2, <2>1, <2>2, NatSetInduction
  <2> QED
    BY <2>3
<1>9. walk[MaxBlocks].at = Null
  <2> SUFFICES ASSUME walk[MaxBlocks].at # Null PROVE FALSE
    OBVIOUS
  <2>1. ASSUME NEW k \in 0..MaxBlocks, walk[k].at = Null PROVE FALSE
    <3> DEFINE T == {i \in 0..MaxBlocks : walk[i].at = Null}
    <3>1. k \in T /\ k \in Nat
      BY <2>1
    <3>2. ASSUME NEW i \in k..(MaxBlocks - 1), i \in T PROVE i + 1 \in T
      <4>1. i + 1 \in 1..MaxBlocks /\ (i + 1) - 1 = i
        BY <1>2
      <4>2. walk[i + 1] = FromListed(walk[i]) /\ i + 1 \in 0..MaxBlocks
        BY <1>7, <4>1
      <4>3. walk[i + 1].at = Null
        BY <3>2, <4>2 DEF FromListed, Null
      <4> QED
        BY <4>2, <4>3
    <3>3. k..MaxBlocks \subseteq T
      <4> HIDE DEF T
      <4> QED
        BY <1>2, <3>1, <3>2, NatSetInduction
    <3>4. MaxBlocks \in k..MaxBlocks
      BY <1>2
    <3> QED
      BY <3>3, <3>4
  <2> DEFINE at == [n \in 0..MaxBlocks |-> walk[n].at]
  <2>2. ASSUME NEW n \in 0..MaxBlocks PROVE walk[n].at \in F /\ walk[n].at \in Nat
    <3>1. walk[n].at # Null /\ Passed(walk[n])
      BY <1>8, <2>1
    <3> QED
      BY <1>3, <3>1 DEF Passed, InList
  <2>3. at \in [0..MaxBlocks -> F]
    BY <2>2
  <2>4. ASSUME NEW n \in 1..MaxBlocks PROVE at[n] = NextOf(heap, at[n - 1])
    <3>1. walk[n - 1].at \in Nat /\ n \in 0..MaxBlocks /\ n - 1 \in 0..MaxBlocks
      BY <1>7, <2>2
    <3>2. walk[n - 1].at >= 0
      BY <3>1
    <3>3. walk[n] = FromListed(walk[n - 1])
      BY <1>7
    <3>4. walk[n].at = NextOf(heap, walk[n - 1].at)
      BY <3>2, <3>3 DEF FromListed
    <3> QED
      BY <3>1, <3>4
  <2> HIDE DEF at
  <2>5. Strung(heap, F)
    BY DEF Linked
  <2> QED
    BY <2>3, <2>4, <2>5, ChainEnds
<1>10. MaxBlocks \in 0..MaxBlocks
  BY <1>2
<1>11. ASSUME NEW b \in Listed(l), NextOf(heap, b) # Null PROVE NextOf(heap, b) \in Listed(l)
  BY <1>1, <1>8, <1>9, <1>10, <1>11 DEF Passed, ListWalk
<1>12. heap.head[l] # Null => heap.head[l] \in Listed(l)
  BY <1>1, <1>8, <1>9, <1>10 DEF Passed, ListWalk
<1>13. \A b \in Listed(l) : InList(l, F, b, Listed(l))
  BY <1>1, <1>8, <1>10 DEF Passed, ListWalk
<1> QED
  BY <1>11, <1>12, <1>13 DEF Through

\* Nothing that is free is missing from the lists, as long as nothing was dropped.
LEMMA AllListed ==
    ASSUME NEW F, heap \in Heaps, Linked(heap, F), NoneDropped(heap, F),
           \A b \in F : Class(heap, b) \in Lists
    PROVE  F = UNION {Listed(l) : l \in Lists}
<1>1. \A l \in Lists : Through(l, F, Listed(l))
  BY ListFound
<1>2. UNION {Listed(l) : l \in Lists} \subseteq F
  BY <1>1 DEF Through, InList
<1> DEFINE missing == {b \in F : b \notin UNION {Listed(l) : l \in Lists}}
<1>3. missing = {}
  <2> SUFFICES ASSUME missing # {} PROVE FALSE
    OBVIOUS
  <2>1. missing \in SUBSET F
    OBVIOUS
  <2>2. PICK b \in missing : PrevOf(heap, b) \notin missing
    <3> HIDE DEF missing
    <3> QED
      BY <2>1 DEF Linked, Strung, Acyclic
  <2>3. b \in F /\ \A l \in Lists : b \notin Listed(l)
    BY <2>2
  <2>4. b \in Nat /\ b # Null
    BY <2>3 DEF Linked, Strung, Spaced, Null
  <2>5. CASE PrevOf(heap, b) = Null
    <3>1. Class(heap, b) \in Lists /\ heap.head[Class(heap, b)] = b
      BY <2>3, <2>5 DEF NoneDropped
    <3> QED
      BY <1>1, <2>3, <2>4, <3>1 DEF Through
  <2>6. CASE PrevOf(heap, b) # Null
    <3>1. PrevOf(heap, b) \in F /\ NextOf(heap, PrevOf(heap, b)) = b
      BY <2>3, <2>6 DEF Linked, Strung, Chained
    <3>2. PICK l \in Lists : PrevOf(heap, b) \in Listed(l)
      BY <2>2, <3>1
    <3> QED
      BY <1>1, <2>3, <2>4, <3>1, <3>2 DEF Through
  <2> QED
    BY <2>5, <2>6
<1> QED
  BY <1>2, <1>3

-----------------------------------------------------------------------------
(* The properties *)

\* What the invariant says of the blocks of a heap in order.
LEMMA Tidy ==
    ASSUME IInv, Only({"dropped"})
    PROVE  ~clash /\ Ordered(heap, Blocks) /\ Client(heap, held, Blocks)
<1>1. PICK B \in SUBSET Rows : Ordered(heap, B) /\ Client(heap, held, B)
  BY DEF IInv
<1>2. Blocks = B
  BY <1>1, BlocksFound
<1> QED
  BY <1>1, <1>2 DEF IInv

LEMMA InvariantTiles == IInv => BlocksTile
<1> SUFFICES ASSUME IInv, Only({"dropped"}), NEW b \in Blocks
             PROVE  LET header == TagAt(heap, b)
                        footer == TagAt(heap, Foot(heap, b))
                    IN  /\ IsTag(heap, b) /\ IsTag(heap, Foot(heap, b))
                        /\ header.size >= MinBlock /\ Aligned(header.size)
                        /\ b + header.size <= End(heap)
                        /\ header.size = footer.size
                        /\ header.allocated = footer.allocated
                        /\ header.allocated => header.padded = footer.padded
  BY DEF BlocksTile
<1>1. BlockOf(heap, b) /\ Closed(heap, b)
  BY Tidy DEF Ordered, Tiled
<1> QED
  BY <1>1 DEF BlockOf, Closed, SizeAt

\* sf_malloc, sf_free and sf_realloc leave blocks that fill the heap, each with a
\* footer that says what its header says, as long as nothing but drops has slipped.
THEOREM BlocksTileHeap == Spec => []BlocksTile
BY HeapInOrder, InvariantTiles, PTL

LEMMA InvariantLists == IInv => ListsAreTheFreeBlocks
<1> SUFFICES ASSUME IInv PROVE ListsHoldFreeBlocks /\ FreeBlocksListed
  BY DEF ListsAreTheFreeBlocks
<1> DEFINE F == Frees(heap, Blocks)
<1>1. F = FreeAmong(Blocks)
  BY DEF Frees, FreeAmong
<1>2. ASSUME Only({"dropped"})
      PROVE  /\ heap \in Heaps /\ Linked(heap, F) /\ (heap.slips = {} => NoneDropped(heap, F))
             /\ \A l \in Lists : Through(l, F, Listed(l))
  <2>1. Ordered(heap, Blocks)
    BY <1>2, Tidy
  <2>2. heap \in Heaps /\ Linked(heap, F) /\ (heap.slips = {} => NoneDropped(heap, F))
    BY <2>1 DEF Ordered
  <2> HIDE DEF F
  <2> QED
    BY <2>2, ListFound
<1>3. ListsHoldFreeBlocks
  <2> SUFFICES ASSUME Only({"dropped"}), NEW l \in Lists, NEW b \in Listed(l)
               PROVE  /\ b \in F /\ ListOf(SizeAt(heap, b)) = l
                      /\ IF heap.head[l] = b THEN PrevOf(heap, b) = Null
                         ELSE PrevOf(heap, b) \in Listed(l) /\ NextOf(heap, PrevOf(heap, b)) = b
    BY <1>1 DEF ListsHoldFreeBlocks
  <2>1. InList(l, F, b, Listed(l))
    BY <1>2 DEF Through
  <2> QED
    BY <2>1 DEF InList, Class
<1>4. FreeBlocksListed
  <2> SUFFICES ASSUME Only({}) PROVE F = UNION {Listed(l) : l \in Lists}
    BY <1>1 DEF FreeBlocksListed
  <2>1. Only({"dropped"}) /\ heap.slips = {}
    BY DEF Only
  <2>2. heap \in Heaps /\ Linked(heap, F) /\ NoneDropped(heap, F)
    BY <1>2, <2>1
  <2>3. \A b \in F : Class(heap, b) \in Lists
    <3> SUFFICES ASSUME NEW b \in F PROVE Class(heap, b) \in Lists
      OBVIOUS
    <3>1. b \in Int
      BY <2>2 DEF Linked, Strung, Spaced
    <3>2. SizeAt(heap, b) \in Nat
      BY <2>2, <3>1, TagTyped
    <3> QED
      BY <3>2, ListOfTyped DEF Class
  <2> HIDE DEF F
  <2> QED
    BY <2>2, <2>3, AllListed
<1> QED
  BY <1>3, <1>4

\* The lists go through free blocks of their sizes, linked both ways, and through
\* all of them as long as none was dropped.
THEOREM FreeListsAreRight == Spec => []ListsAreTheFreeBlocks
BY HeapInOrder, InvariantLists, PTL

LEMMA InvariantHeld == IInv => HeldBlocksIntact
<1> SUFFICES ASSUME IInv, Only({"dropped"})
             PROVE  HeldIsAllocated /\ HeldDataIntact
  BY DEF HeldBlocksIntact, HeldIsAllocated, HeldDataIntact
<1>1. ~clash /\ Ordered(heap, Blocks) /\ Client(heap, held, Blocks)
  BY Tidy
<1>2. heap \in Heaps /\ ~heap.fault
  BY <1>1 DEF Ordered
<1>3. DOMAIN held = Blocks \ FreeAmong(Blocks)
  BY <1>1 DEF Client, Allocs, FreeAmong
<1>4. ASSUME NEW p \in DOMAIN held
      PROVE  /\ Valid(heap, p)
             /\ TagAt(heap, Foot(heap, p)).requested = held[p].requested
             /\ held[p].requested <= SizeAt(heap, p) - Overhead
             /\ \A i \in 1..held[p].written : heap.mem[p + i] = Data(i, held[p].padded)
  BY <1>1 DEF Client, Known, Holds
<1>5. HeldIsAllocated
  BY <1>1, <1>2, <1>3, <1>4 DEF HeldIsAllocated
<1>6. HeldDataIntact
  BY <1>4 DEF HeldDataIntact
<1> QED
  BY <1>5, <1>6

\* Every block the client holds is allocated, in order and large enough, no memory is
\* given away twice, and what the client wrote stays until it is freed, as long as
\* nothing but drops has slipped.
THEOREM HeldBlocksAreSafe == Spec => []HeldBlocksIntact
BY HeapInOrder, InvariantHeld, PTL

LEMMA InvariantTyped ==
    IInv /\ Only({"dropped"}) /\ clash \in BOOLEAN => TypeOK
<1> SUFFICES ASSUME IInv, Only({"dropped"}), clash \in BOOLEAN PROVE TypeOK
  OBVIOUS
<1>1. Ordered(heap, Blocks) /\ Client(heap, held, Blocks)
  BY Tidy
<1>2. heap \in Heaps /\ Tiled(heap, Blocks) /\ Heads(heap, Frees(heap, Blocks))
  BY <1>1 DEF Ordered, Linked
<1>3. \A b \in Blocks : b \in Rows /\ Aligned(b)
  BY <1>2, BlockRows
<1>4. heap.head \in [Lists -> {a \in Rows : Aligned(a)} \cup {Null, Wild}]
  <2> SUFFICES ASSUME NEW l \in Lists, heap.head[l] # Null
               PROVE  heap.head[l] \in Rows /\ Aligned(heap.head[l])
    BY <1>2 DEF Heaps
  <2> QED
    BY <1>2, <1>3 DEF Heads, Frees
<1>5. DOMAIN held \subseteq {a \in Rows : Aligned(a)}
  BY <1>1, <1>3 DEF Client, Allocs
<1>6. \A p \in DOMAIN held : 0 <= held[p].written /\ held[p].written <= held[p].requested
  BY <1>1 DEF Client, Known, Entries
<1>7. DOMAIN heap.mem = Rows /\ heap.pages \in 0..MaxPages /\ heap.fault \in BOOLEAN
      /\ heap.slips \subseteq Slips /\ writes \in Writes
  BY <1>2 DEF Heaps, IInv
<1> QED
  BY <1>4, <1>5, <1>6, <1>7 DEF TypeOK

LEMMA FlagTyped == Spec => [](clash \in BOOLEAN)
<1>1. Init => clash \in BOOLEAN
  BY DEF Init
<1>2. clash \in BOOLEAN /\ [Next]_vars => (clash \in BOOLEAN)'
  BY DEF Next, vars, Call, CallMalloc, CallFree, CallRealloc, Answered, Fill, Clashes
<1> QED
  BY <1>1, <1>2, PTL DEF Spec

\* The heads of the lists, the pages and what the client holds keep their types, and
\* what sf_malloc and sf_realloc return is aligned to 16 bytes, as long as nothing but
\* drops has slipped.
THEOREM HeapTyped == Spec => [](Only({"dropped"}) => TypeOK)
BY HeapInOrder, FlagTyped, InvariantTyped, PTL

=============================================================================
