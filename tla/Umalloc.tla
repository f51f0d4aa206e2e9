------------------------------ MODULE Umalloc -------------------------------
(***************************************************************************)
(* The user memory allocator: xv6/umalloc.c.  Addresses and sizes are in   *)
(* Headers.  The free list is circular, in address order, and starts       *)
(* anywhere; base, of size 0, lies below the heap.                         *)
(***************************************************************************)
EXTENDS Integers, Sequences, FiniteSets

CONSTANTS SIZEOF,    \* sizeof(Header), in bytes
          NALLOC,    \* 4096: the least morecore asks for
          Limit,     \* where sbrk fails
          Bytes,     \* arguments of malloc
          Gaps       \* how much the program takes by calling sbrk itself

VARIABLES freep,     \* 0 before the first call
          ptr, size, \* the fields of the headers of free and allocated blocks
          brk,       \* the first address after the heap
          taken,     \* the blocks the program has
          gaps,      \* the addresses it got from sbrk
          failed     \* the size the last malloc was refused, or 0

list == <<freep, ptr, size>>
vars == <<list, brk, taken, gaps, failed>>

base == 1
Start == 3           \* the first address of the heap: not next to base
Addr == base..Limit

Init ==
  /\ freep = 0
  /\ ptr = [a \in Addr |-> 0] /\ size = [a \in Addr |-> 0]
  /\ brk = Start
  /\ taken = {} /\ gaps = {} /\ failed = 0

\* The blocks on the list h, in the order in which malloc looks at them.
RECURSIVE From(_, _)
From(h, a) == IF a = h.freep THEN <<a>> ELSE <<a>> \o From(h, h.ptr[a])
Scan(h) == From(h, h.ptr[h.freep])

\* free: put the block at bp in its place, joined with its neighbours.
Freed(h, bp) ==
  LET blocks == {Scan(h)[k] : k \in DOMAIN Scan(h)}
      p == CHOOSE q \in blocks :
             \/ q < bp /\ bp < h.ptr[q]
             \/ q >= h.ptr[q] /\ (bp > q \/ bp < h.ptr[q])
      next == h.ptr[p]
      up == bp + h.size[bp] = next
      g == [h EXCEPT !.size[bp] = IF up THEN @ + h.size[next] ELSE @,
                     !.ptr[bp] = IF up THEN h.ptr[next] ELSE next]
  IN  IF p + g.size[p] = bp
        THEN [g EXCEPT !.freep = p, !.size[p] = @ + g.size[bp], !.ptr[p] = g.ptr[bp]]
        ELSE [g EXCEPT !.freep = p, !.ptr[p] = bp]

\* morecore: sbrk of at least NALLOC, freed into the list.
More(nu) == IF nu < NALLOC THEN NALLOC ELSE nu
morecore(h, nu) == Freed([h EXCEPT !.size[brk] = More(nu)], brk)

\* malloc starts the list on its first call.
Started ==
  IF freep = 0 THEN [freep |-> base, ptr |-> [ptr EXCEPT ![base] = base], size |-> size]
               ELSE [freep |-> freep, ptr |-> ptr, size |-> size]

nunits(nbytes) == (nbytes + SIZEOF - 1) \div SIZEOF + 1

Fits(h, nu) == {k \in DOMAIN Scan(h) : h.size[Scan(h)[k]] >= nu}

\* Mutant: a block that is too large is given out whole but for its size.
TakenAll(h, nu) ==
  LET k == CHOOSE i \in Fits(h, nu) : \A j \in Fits(h, nu) : i <= j
      p == Scan(h)[k]
      prevp == IF k = 1 THEN h.freep ELSE Scan(h)[k - 1]
      rest == h.size[p] - nu
  IN  IF rest = 0
        THEN [at |-> p, h |-> [h EXCEPT !.ptr[prevp] = h.ptr[p], !.freep = prevp]]
        ELSE [at |-> p + rest, h |-> [h EXCEPT !.size[p + rest] = nu, !.freep = prevp]]

\* The first block that is large enough: all of it, or its end.
Taken(h, nu) ==
  LET k == CHOOSE i \in Fits(h, nu) : \A j \in Fits(h, nu) : i <= j
      p == Scan(h)[k]
      prevp == IF k = 1 THEN h.freep ELSE Scan(h)[k - 1]
      rest == h.size[p] - nu
  IN  IF rest = 0
        THEN [at |-> p, h |-> [h EXCEPT !.ptr[prevp] = h.ptr[p], !.freep = prevp]]
        ELSE [at |-> p + rest, h |-> [h EXCEPT !.size[p] = rest, !.size[p + rest] = nu, !.freep = prevp]]

\* The list becomes h; headers that are now inside a free block are never
\* read again and count as 0, as do the links of the blocks given out.
Set(h) ==
  LET blocks == {Scan(h)[k] : k \in DOMAIN Scan(h)} IN
  /\ freep' = h.freep
  /\ ptr' = [a \in Addr |-> IF a \in blocks THEN h.ptr[a] ELSE 0]
  /\ size' = [a \in Addr |-> IF a \in blocks \union taken' THEN h.size[a] ELSE 0]


\* malloc from the list; morecore first when nothing on it is large enough.
Malloc(nbytes) ==
  LET nu == nunits(nbytes)
      h == Started
      grown == IF Fits(h, nu) = {} THEN morecore(h, nu) ELSE h
      t == Taken(grown, nu)
  IN
  IF Fits(h, nu) = {} /\ brk + More(nu) > Limit
    THEN UNCHANGED <<brk, taken, gaps>> /\ failed' = nu /\ Set(h)
    ELSE /\ taken' = taken \union {t.at}
         /\ Set(t.h)
         /\ brk' = IF Fits(h, nu) = {} THEN brk + More(nu) ELSE brk
         /\ failed' = 0
         /\ UNCHANGED gaps

Free(a) ==
  /\ a \in taken
  /\ taken' = taken \ {a}
  /\ Set(Freed(Started, a))
  /\ failed' = 0
  /\ UNCHANGED <<brk, gaps>>

\* The program calls sbrk.
Sbrk(n) ==
  /\ brk + n <= Limit
  /\ gaps' = gaps \union (brk..brk + n - 1)
  /\ brk' = brk + n
  /\ failed' = 0
  /\ UNCHANGED <<list, taken>>

Next ==
  \/ \E n \in Bytes : Malloc(n)
  \/ \E a \in taken : Free(a)
  \/ \E n \in Gaps : Sbrk(n)

Spec == Init /\ [][Next]_vars
-----------------------------------------------------------------------------
\* The header fields, the end of the heap and the blocks stay within the heap.
TypeOK ==
  /\ freep \in Addr \union {0}
  /\ ptr \in [Addr -> Addr \union {0}] /\ size \in [Addr -> 0..Limit]
  /\ brk \in Start..Limit
  /\ taken \subseteq Start..Limit

OnList == IF freep = 0 THEN {} ELSE {Scan(Started)[k] : k \in DOMAIN Scan(Started)} \ {base}
Cells(a) == a..a + size[a] - 1

\* Free neighbours are always joined.
Joined == \A a \in OnList : a + size[a] \notin OnList

\* The list goes round once in address order, whichever block it starts at.
Sorted ==
  freep # 0 => Cardinality({a \in OnList \union {base} : ptr[a] <= a}) = 1

\* Every address of the heap belongs to exactly one of: a block of the
\* program, a block on the list, what the program took itself.  The list is
\* in order and as short as it can be, so that memory given back can be given
\* out again in larger blocks.
HeapTiled ==
  /\ TypeOK /\ Joined /\ Sorted
  /\ Start..brk - 1 = gaps \union UNION {Cells(a) : a \in taken \union OnList}
  /\ \A a, b \in taken \union OnList : a # b => Cells(a) \intersect Cells(b) = {}
  /\ \A a \in taken \union OnList : Cells(a) \intersect gaps = {} /\ size[a] > 0

=============================================================================
