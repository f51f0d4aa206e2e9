------------------------------- MODULE Memory -------------------------------
(***************************************************************************)
(* Physical pages and address spaces: xv6/kalloc.c, xv6/vm.c, xv6/exec.c   *)
(* and the memory side of fork, sbrk, exit and wait in xv6/proc.c.  A step *)
(* is what a process does from one kalloc to the next, so processes run    *)
(* out of memory at any point of each other's calls.  Sizes are in units   *)
(* of which PGSIZE make a page.                                            *)
(***************************************************************************)
EXTENDS Integers, Sequences, FiniteSets

CONSTANTS NPAGES,      \* pages between end and PHYSTOP that the kernel's own table leaves
          NPROC, PGSIZE,
          NKTAB,       \* page-table pages of the kernel half of an address space
          NPDE, NPTE,  \* user page tables of a directory, entries of a table
          Images,      \* what exec may find: the ends of the segments of a program
          ArgSizes,    \* sizes of what exec pushes on the new stack
          Growth       \* arguments of sbrk

VARIABLES free,        \* kmem.freelist
          state, kstack, sz, \* of each process
          vm,          \* per process: its address space, and the one it is building
          th,          \* per process: where it is in its call
          panicked

vars == <<free, state, kstack, sz, vm, th, panicked>>

Page == 1..NPAGES
Proc == 1..NPROC
init == 1
NVPN == NPDE * NPTE
Vpn == 0..NVPN - 1
KERNBASE == NVPN * PGSIZE
First(S) == CHOOSE x \in S : \A y \in S : x <= y

PGROUNDUP(n) == ((n + PGSIZE - 1) \div PGSIZE) * PGSIZE

\* kalloc takes the head of the list; which page that is makes no difference.
kalloc == First(free)
kfree(pages) == free' = free \union pages

\* A page directory: its own page, the kernel's tables, the user's tables,
\* the pages they map and which of those have PTE_U.
NoSpace == [dir |-> 0, ktab |-> {}, tab |-> [d \in 0..NPDE - 1 |-> 0], map |-> [v \in Vpn |-> 0], user |-> {}]

Mapped(s) == {s.map[v] : v \in Vpn} \ {0}

\* The pages freevm gives back.
freevm(s) == ({s.dir} \union s.ktab \union {s.tab[d] : d \in DOMAIN s.tab} \union Mapped(s)) \ {0}

\* segs is what is left of the program, sz the size so far, a the next
\* address to map and newsz where to stop, mem the page to map there.
User == [pc |-> "user", call |-> "none", child |-> 0, segs |-> <<>>,
         sz |-> 0, a |-> 0, newsz |-> 0, mem |-> 0]

\* userinit: the first process has a stack, a directory and one page.
Init ==
  LET dir == 2
      tab == 3 + NKTAB
  IN
  /\ free = (5 + NKTAB)..NPAGES
  /\ state = [p \in Proc |-> IF p = init THEN "live" ELSE "unused"]
  /\ kstack = [p \in Proc |-> IF p = init THEN 1 ELSE 0]
  /\ sz = [p \in Proc |-> IF p = init THEN PGSIZE ELSE 0]
  /\ vm = [p \in Proc |-> [cur |-> IF p # init THEN NoSpace ELSE
                                     [NoSpace EXCEPT !.dir = dir, !.ktab = (dir + 1)..(dir + NKTAB),
                                        !.tab[0] = tab, !.map[0] = tab + 1, !.user = {0}],
                           new |-> NoSpace]]
  /\ th = [p \in Proc |-> User]
  /\ panicked = "no"

At(p, l) == panicked = "no" /\ state[p] = "live" /\ th[p].pc = l

Go(p, r) == th' = [th EXCEPT ![p] = [f \in DOMAIN @ |-> IF f \in DOMAIN r THEN r[f] ELSE @[f]]]
Return(p) == th' = [th EXCEPT ![p] = User]

\* Which of its address spaces a call works on.
Which(p) == IF th[p].call = "sbrk" THEN "cur" ELSE "new"

\* The pages deallocuvm(oldsz, newsz) finds, and the space without them.
Between(s, oldsz, newsz) == {v \in Vpn : PGROUNDUP(newsz) <= v * PGSIZE /\ v * PGSIZE < oldsz /\ s.map[v] # 0}
deallocuvm(s, oldsz, newsz) ==
  [s EXCEPT !.map = [v \in Vpn |-> IF v \in Between(s, oldsz, newsz) THEN 0 ELSE @[v]],
            !.user = @ \ Between(s, oldsz, newsz)]
Freed(s, oldsz, newsz) == {s.map[v] : v \in Between(s, oldsz, newsz)}

-----------------------------------------------------------------------------
\* Mutant: the page in hand is forgotten when it cannot be mapped.
FailInHand(p) ==
  LET t == th[p]
      hand == {}
  IN
  /\ Return(p)
  /\ IF t.call = "sbrk"
       THEN /\ kfree(hand \union Freed(vm[p].cur, t.newsz, sz[p]))
            /\ vm' = [vm EXCEPT ![p].cur = deallocuvm(@, t.newsz, sz[p])]
            /\ UNCHANGED <<state, kstack>>
       ELSE /\ kfree(hand \union freevm(vm[p].new) \union (IF t.call = "fork" THEN {kstack[t.child]} ELSE {}))
            /\ vm' = [vm EXCEPT ![p].new = NoSpace]
            /\ IF t.call = "fork"
                 THEN /\ kstack' = [kstack EXCEPT ![t.child] = 0]
                      /\ state' = [state EXCEPT ![t.child] = "unused"]
                 ELSE UNCHANGED <<state, kstack>>
  /\ UNCHANGED <<sz, panicked>>

(***************************************************************************)
(* A call runs out of memory, or exec finds something wrong: what it took  *)
(* goes back (the page in hand, the pages mapped, the space being built,   *)
(* the child's stack) and it returns -1.                                   *)
(***************************************************************************)
Fail(p) ==
  LET t == th[p]
      hand == {t.mem} \ {0}
  IN
  /\ Return(p)
  /\ IF t.call = "sbrk"
       THEN /\ kfree(hand \union Freed(vm[p].cur, t.newsz, sz[p]))
            /\ vm' = [vm EXCEPT ![p].cur = deallocuvm(@, t.newsz, sz[p])]
            /\ UNCHANGED <<state, kstack>>
       ELSE /\ kfree(hand \union freevm(vm[p].new) \union (IF t.call = "fork" THEN {kstack[t.child]} ELSE {}))
            /\ vm' = [vm EXCEPT ![p].new = NoSpace]
            /\ IF t.call = "fork"
                 THEN /\ kstack' = [kstack EXCEPT ![t.child] = 0]
                      /\ state' = [state EXCEPT ![t.child] = "unused"]
                 ELSE UNCHANGED <<state, kstack>>
  /\ UNCHANGED <<sz, panicked>>

\* allocproc: a process and its kernel stack.
Fork(p) ==
  LET unused == {c \in Proc : state[c] = "unused"} IN
  /\ At(p, "user") /\ vm[p].cur.map[0] # 0 /\ unused # {}
  /\ state' = [state EXCEPT ![First(unused)] = "embryo"]
  /\ Go(p, [pc |-> "stack", call |-> "fork", child |-> First(unused)])
  /\ UNCHANGED <<free, kstack, sz, vm, panicked>>

AllocStack(p) ==
  LET c == th[p].child IN
  /\ At(p, "stack")
  /\ IF free = {}
       THEN state' = [state EXCEPT ![c] = "unused"] /\ Return(p) /\ UNCHANGED <<free, kstack>>
       ELSE /\ kstack' = [kstack EXCEPT ![c] = kalloc]
            /\ free' = free \ {kalloc}
            /\ Go(p, [pc |-> "dir"])
            /\ UNCHANGED state
  /\ UNCHANGED <<sz, vm, panicked>>

\* setupkvm: the directory, then the kernel's page tables one by one.
SetupDir(p) ==
  /\ At(p, "dir")
  /\ \/ free = {} /\ Fail(p)
     \/ /\ free # {}
        /\ vm' = [vm EXCEPT ![p].new.dir = kalloc]
        /\ free' = free \ {kalloc}
        /\ Go(p, [pc |-> "ktab"])
        /\ UNCHANGED <<state, kstack, sz, panicked>>

SetupTable(p) ==
  /\ At(p, "ktab") /\ Cardinality(vm[p].new.ktab) < NKTAB
  /\ \/ free = {} /\ Fail(p)
     \/ /\ free # {}
        /\ vm' = [vm EXCEPT ![p].new.ktab = @ \union {kalloc}]
        /\ free' = free \ {kalloc}
        /\ UNCHANGED <<state, kstack, sz, th, panicked>>

\* The kernel half is there: fork copies the user half, exec loads its own.
SetupDone(p) ==
  /\ At(p, "ktab") /\ Cardinality(vm[p].new.ktab) = NKTAB
  /\ Go(p, IF th[p].call = "fork" THEN [pc |-> "mem", newsz |-> sz[p]] ELSE [pc |-> "seg"])
  /\ UNCHANGED <<free, state, kstack, sz, vm, panicked>>

\* One round of the loops of allocuvm and copyuvm: a page ...
AllocMem(p) ==
  LET absent == th[p].call = "fork" /\ vm[p].cur.map[th[p].a \div PGSIZE] = 0 IN
  /\ At(p, "mem") /\ th[p].a < th[p].newsz
  /\ \/ free = {} /\ Fail(p)
     \/ /\ free # {}
        /\ free' = free \ {kalloc}
        /\ Go(p, [pc |-> "map", mem |-> kalloc])
        /\ panicked' = IF absent THEN "copyuvm: page not present" ELSE "no"
        /\ UNCHANGED <<state, kstack, sz, vm>>

\* The space with a page table for page v, and with page v mapped.
walkpgdir(s, v) == [s EXCEPT !.tab[v \div NPTE] = IF @ # 0 THEN @ ELSE kalloc]
mappages(s, v, pa, user) ==
  [walkpgdir(s, v) EXCEPT !.map[v] = pa, !.user = IF user THEN @ \union {v} ELSE @]

\* ... and mappages, which may need a page for the page table.
MapMem(p) ==
  LET v == th[p].a \div PGSIZE
      s == vm[p][Which(p)]
      table == s.tab[v \div NPTE] # 0
      user == th[p].call = "fork" => v \in vm[p].cur.user
  IN
  /\ At(p, "map")
  /\ \/ ~table /\ free = {} /\ Fail(p)
     \/ /\ table \/ free # {}
        /\ vm' = [vm EXCEPT ![p][Which(p)] = mappages(s, v, th[p].mem, user)]
        /\ free' = IF table THEN free ELSE free \ {kalloc}
        /\ Go(p, [pc |-> "mem", mem |-> 0, a |-> th[p].a + PGSIZE])
        /\ panicked' = IF s.map[v] # 0 THEN "remap" ELSE "no"
        /\ UNCHANGED <<state, kstack, sz>>

\* The end of the loop in sbrk, in fork and for a segment or the stack of exec.
GrowEnd(p) ==
  /\ At(p, "mem") /\ th[p].call = "sbrk" /\ th[p].a >= th[p].newsz
  /\ sz' = [sz EXCEPT ![p] = th[p].newsz]
  /\ Return(p)
  /\ UNCHANGED <<free, state, kstack, vm, panicked>>

ForkEnd(p) ==
  LET c == th[p].child IN
  /\ At(p, "mem") /\ th[p].call = "fork" /\ th[p].a >= th[p].newsz
  /\ vm' = [vm EXCEPT ![p].new = NoSpace, ![c].cur = vm[p].new]
  /\ sz' = [sz EXCEPT ![c] = sz[p]]
  /\ state' = [state EXCEPT ![c] = "live"]
  /\ Return(p)
  /\ UNCHANGED <<free, kstack, panicked>>

\* loaduvm reads the segment, or finds the file too short.
LoadEnd(p) ==
  /\ At(p, "mem") /\ th[p].call = "exec" /\ th[p].a >= th[p].newsz
  /\ \/ Fail(p)
     \/ /\ Go(p, [pc |-> "seg", sz |-> th[p].newsz, a |-> 0, newsz |-> 0])
        /\ UNCHANGED <<free, state, kstack, sz, vm, panicked>>

(***************************************************************************)
(* exec and sbrk                                                           *)
(***************************************************************************)
Exec(p, image) ==
  /\ At(p, "user") /\ vm[p].cur.map[0] # 0
  /\ Go(p, [pc |-> "dir", call |-> "exec", segs |-> image])
  /\ UNCHANGED <<free, state, kstack, sz, vm, panicked>>

\* allocuvm for the next segment; after the last one, for the guard page
\* and the stack.
Segment(p) ==
  LET last == th[p].segs = <<>>
      old == IF last THEN PGROUNDUP(th[p].sz) ELSE th[p].sz
      end == IF last THEN old + 2 * PGSIZE ELSE Head(th[p].segs)
  IN
  /\ At(p, "seg")
  /\ IF end >= KERNBASE \/ (end = 0 /\ old = 0)
       THEN Fail(p)
       ELSE /\ Go(p, [pc |-> "mem", call |-> IF last THEN "stack" ELSE "exec",
                      segs |-> IF last THEN <<>> ELSE Tail(th[p].segs),
                      a |-> PGROUNDUP(old), newsz |-> IF end < old THEN old ELSE end])
            /\ UNCHANGED <<free, state, kstack, sz, vm, panicked>>

\* The page at va is closed to user code.
clearpteu(s, va) == [s EXCEPT !.user = @ \ {va \div PGSIZE}]

\* copyout reaches the n units below address top through pages with PTE_U.
copyout(s, top, n) == \A a \in (top - n)..(top - 1) : a \div PGSIZE \in s.user

\* The guard page is closed, the arguments are pushed, and the new space
\* takes the place of the old one, which is freed.
ExecEnd(p, n) ==
  LET top == th[p].newsz
      built == clearpteu(vm[p].new, top - 2 * PGSIZE)
  IN
  /\ At(p, "mem") /\ th[p].call = "stack" /\ th[p].a >= top
  /\ IF ~copyout(built, top, n)
       THEN Fail(p)
       ELSE /\ vm' = [vm EXCEPT ![p] = [cur |-> built, new |-> NoSpace]]
            /\ sz' = [sz EXCEPT ![p] = top]
            /\ kfree(freevm(vm[p].cur))
            /\ Return(p)
            /\ UNCHANGED <<state, kstack, panicked>>

\* growproc up: allocuvm refuses a size at KERNBASE.
Grow(p, n) ==
  /\ At(p, "user") /\ vm[p].cur.map[0] # 0
  /\ n > 0 /\ sz[p] + n < KERNBASE
  /\ Go(p, [pc |-> "mem", call |-> "sbrk", a |-> PGROUNDUP(sz[p]), newsz |-> sz[p] + n])
  /\ UNCHANGED <<free, state, kstack, sz, vm, panicked>>

\* Mutant: the size is not taken down with the memory.
ShrinkKeepsSize(p, n) ==
  LET newsz == sz[p] + n IN
  /\ At(p, "user") /\ vm[p].cur.map[0] # 0
  /\ n < 0 /\ newsz >= (IF p = init THEN 1 ELSE 0)
  /\ kfree(Freed(vm[p].cur, sz[p], newsz))
  /\ vm' = [vm EXCEPT ![p].cur = deallocuvm(@, sz[p], newsz)]
  /\ sz' = [sz EXCEPT ![p] = @]
  /\ UNCHANGED <<state, kstack, th, panicked>>

\* growproc down.  A process that gives up everything is told -1 and keeps
\* its size; without its first page it can only fault (init never does it).
Shrink(p, n) ==
  LET newsz == sz[p] + n IN
  /\ At(p, "user") /\ vm[p].cur.map[0] # 0
  /\ n < 0 /\ newsz >= (IF p = init THEN 1 ELSE 0)
  /\ kfree(Freed(vm[p].cur, sz[p], newsz))
  /\ vm' = [vm EXCEPT ![p].cur = deallocuvm(@, sz[p], newsz)]
  /\ sz' = [sz EXCEPT ![p] = IF newsz = 0 THEN @ ELSE newsz]
  /\ UNCHANGED <<state, kstack, th, panicked>>

\* exit, called or after a fault.
Exit(p) ==
  /\ At(p, "user") /\ p # init
  /\ state' = [state EXCEPT ![p] = "zombie"]
  /\ UNCHANGED <<free, kstack, sz, vm, th, panicked>>

\* wait: the parent (see Proc; here some other process) frees what is left.
\* The code leaves sz as it was; nothing reads it before fork sets it.
Wait(p, c) ==
  /\ At(p, "user") /\ vm[p].cur.map[0] # 0 /\ c # p /\ state[c] = "zombie"
  /\ kfree({kstack[c]} \union freevm(vm[c].cur))
  /\ state' = [state EXCEPT ![c] = "unused"]
  /\ kstack' = [kstack EXCEPT ![c] = 0]
  /\ vm' = [vm EXCEPT ![c].cur = NoSpace]
  /\ sz' = [sz EXCEPT ![c] = 0]
  /\ UNCHANGED <<th, panicked>>

Next == \E p \in Proc :
  \/ Fork(p) \/ AllocStack(p) \/ SetupDir(p) \/ SetupTable(p) \/ SetupDone(p)
  \/ AllocMem(p) \/ MapMem(p) \/ GrowEnd(p) \/ ForkEnd(p) \/ LoadEnd(p) \/ Segment(p)
  \/ \E image \in Images : Exec(p, image)
  \/ \E n \in ArgSizes : ExecEnd(p, n)
  \/ \E n \in Growth : Grow(p, n) \/ Shrink(p, n)
  \/ Exit(p)
  \/ \E c \in Proc : Wait(p, c)

Spec == Init /\ [][Next]_vars
-----------------------------------------------------------------------------
\* The pages are the allocator's, and sizes fit the page tables.
TypeOK ==
  LET Zero(S) == S \union {0}
      Space == [dir : Zero(Page), ktab : SUBSET Page, tab : [0..NPDE - 1 -> Zero(Page)],
                map : [Vpn -> Zero(Page)], user : SUBSET Vpn]
  IN
  /\ free \subseteq Page
  /\ state \in [Proc -> {"unused", "embryo", "live", "zombie"}]
  /\ kstack \in [Proc -> Zero(Page)]
  /\ sz \in [Proc -> 0..KERNBASE - 1]
  /\ \A p \in Proc : vm[p].cur \in Space /\ vm[p].new \in Space
  /\ \A p \in Proc : th[p].mem \in Zero(Page) /\ th[p].newsz \in 0..KERNBASE - 1

\* Every page the allocator started with has exactly one owner: the free
\* list, a kernel stack, one place in one address space, or the hand of a
\* call.  None is lost when a call fails half way, none is freed twice.
Owners(pg) ==
    (IF pg \in free THEN 1 ELSE 0)
  + Cardinality({p \in Proc : kstack[p] = pg})
  + Cardinality({p \in Proc : th[p].mem = pg})
  + Cardinality({ps \in Proc \X {"cur", "new"} : vm[ps[1]][ps[2]].dir = pg})
  + Cardinality({ps \in Proc \X {"cur", "new"} : pg \in vm[ps[1]][ps[2]].ktab})
  + Cardinality({psd \in Proc \X {"cur", "new"} \X (0..NPDE - 1) : vm[psd[1]][psd[2]].tab[psd[3]] = pg})
  + Cardinality({psv \in Proc \X {"cur", "new"} \X Vpn : vm[psv[1]][psv[2]].map[psv[3]] = pg})

PagesOwned == TypeOK /\ \A pg \in Page : Owners(pg) = 1

\* Outside its calls a process has exactly the pages its size says, a call
\* that failed included, so that mappages never meets a mapped page and
\* copyuvm never a missing one; a process without its first page only exits.
SizeMapped ==
  /\ panicked = "no"
  /\ \A p \in Proc : state[p] = "live" /\ th[p].pc = "user" /\ vm[p].cur.map[0] # 0 =>
       \A v \in Vpn : vm[p].cur.map[v] # 0 <=> v * PGSIZE < sz[p]

=============================================================================
