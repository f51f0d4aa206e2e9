-------------------------------- MODULE Mkfs --------------------------------
(***************************************************************************)
(* The program that builds the disk image: xv6/mkfs.c.  It adds the files  *)
(* it is given to the root directory, a read of each file at a time, and   *)
(* writes the bitmap last.  A dirent is one unit of data long; unit k of   *)
(* inode i holds <<i, k>>.  mkfs checks that a file is not too large but   *)
(* not that inodes and blocks suffice: here they do.                       *)
(***************************************************************************)
EXTENDS Integers, Sequences, FiniteSets

CONSTANTS BSIZE, NDIRECT, NINDIRECT,
          NMETA,      \* boot, super, log, inode and bitmap blocks
          FSSIZE, NINODES

VARIABLES freeinode, freeblock,
          din,        \* the inodes: size, and block addresses with the indirect block last
          sect,       \* what the data blocks hold, units or addresses
          bitmap, done

vars == <<freeinode, freeblock, din, sect, bitmap, done>>

ROOTINO == 1
MAXFILE == NDIRECT + NINDIRECT
Inum == 1..NINODES
Empty == [size |-> 0, addrs |-> [k \in 0..NDIRECT |-> 0]]
Width == IF BSIZE > NINDIRECT THEN BSIZE ELSE NINDIRECT
zeroes == [k \in 0..Width - 1 |-> <<>>]

-----------------------------------------------------------------------------
\* The image with a block for the part fbn of inode i, and for the indirect
\* block that lists it, where there is none yet.
WithDirect(img, i, fbn) ==
  IF img.din[i].addrs[fbn] # 0 THEN img
  ELSE [img EXCEPT !.din[i].addrs[fbn] = img.freeblock, !.freeblock = @ + 1]

WithIndirect(img, i, fbn) ==
  LET a == WithDirect(img, i, NDIRECT)
      b == a.din[i].addrs[NDIRECT]
  IN  IF a.sect[b][fbn - NDIRECT] # <<>> THEN a
      ELSE [a EXCEPT !.sect[b][fbn - NDIRECT] = <<a.freeblock>>, !.freeblock = @ + 1]

With(img, i, fbn) == IF fbn < NDIRECT THEN WithDirect(img, i, fbn) ELSE WithIndirect(img, i, fbn)

BlockOf(img, i, fbn) ==
  IF fbn < NDIRECT THEN img.din[i].addrs[fbn]
  ELSE LET b == img.din[i].addrs[NDIRECT] IN
       IF b = 0 THEN 0 ELSE IF img.sect[b][fbn - NDIRECT] = <<>> THEN 0 ELSE img.sect[b][fbn - NDIRECT][1]

\* Mutant: where the data begins in its block is forgotten.
RECURSIVE iappendWhole(_, _, _)
iappendWhole(img, i, n) ==
  LET off == img.din[i].size
      fbn == off \div BSIZE
      room == BSIZE
      n1 == IF n < room THEN n ELSE room
      got == With(img, i, fbn)
      x == BlockOf(got, i, fbn)
      filled == [k \in 0..Width - 1 |->
                   IF fbn * BSIZE + k \in off..off + n1 - 1 THEN <<i, fbn * BSIZE + k>> ELSE got.sect[x][k]]
  IN  IF n = 0 THEN img
      ELSE iappendWhole([got EXCEPT !.sect[x] = filled, !.din[i].size = off + n1], i, n - n1)

\* iappend of the n next units of inode i, a block at a time.
RECURSIVE iappend(_, _, _)
iappend(img, i, n) ==
  LET off == img.din[i].size
      fbn == off \div BSIZE
      room == (fbn + 1) * BSIZE - off
      n1 == IF n < room THEN n ELSE room
      got == With(img, i, fbn)
      x == BlockOf(got, i, fbn)
      filled == [k \in 0..Width - 1 |->
                   IF fbn * BSIZE + k \in off..off + n1 - 1 THEN <<i, fbn * BSIZE + k>> ELSE got.sect[x][k]]
  IN  IF n = 0 THEN img
      ELSE iappend([got EXCEPT !.sect[x] = filled, !.din[i].size = off + n1], i, n - n1)

Image == [din |-> din, sect |-> sect, freeblock |-> freeblock]
Set(img) == din' = img.din /\ sect' = img.sect /\ freeblock' = img.freeblock

\* The zeroed disk, with a root directory of two entries.
Init ==
  LET img == iappend([din |-> [i \in Inum |-> Empty], sect |-> [b \in NMETA..FSSIZE - 1 |-> zeroes],
                      freeblock |-> NMETA], ROOTINO, 2) IN
  /\ freeinode = ROOTINO + 1
  /\ din = img.din /\ sect = img.sect /\ freeblock = img.freeblock
  /\ bitmap = {}
  /\ done = FALSE

\* The next file: an inode, and its entry in the root directory.
AddFile ==
  /\ ~done /\ freeinode < NINODES
  /\ din[ROOTINO].size < MAXFILE * BSIZE
  /\ freeinode' = freeinode + 1
  /\ Set(iappend(Image, ROOTINO, 1))
  /\ UNCHANGED <<bitmap, done>>

\* read returned n units of the last file.
Copy(n) ==
  LET i == freeinode - 1 IN
  /\ ~done /\ i # ROOTINO
  /\ din[i].size + n <= MAXFILE * BSIZE
  /\ Set(iappend(Image, i, n))
  /\ UNCHANGED <<freeinode, bitmap, done>>

\* The size of the root directory is rounded up, and balloc marks the blocks.
Finish ==
  /\ ~done
  /\ din' = [din EXCEPT ![ROOTINO].size = (@ \div BSIZE + 1) * BSIZE]
  /\ bitmap' = 0..freeblock - 1
  /\ done' = TRUE
  /\ UNCHANGED <<freeinode, freeblock, sect>>

Next == AddFile \/ (\E n \in 1..BSIZE : Copy(n)) \/ Finish

Spec == Init /\ [][Next]_vars
-----------------------------------------------------------------------------
\* The inodes, the blocks and their counters stay within the image.
TypeOK ==
  /\ freeinode \in 2..NINODES /\ freeblock \in NMETA..FSSIZE
  /\ din \in [Inum -> [size : 0..(MAXFILE + 1) * BSIZE, addrs : [0..NDIRECT -> {0} \union NMETA..FSSIZE - 1]]]
  /\ \A i \in Inum \ {ROOTINO} : din[i].size <= MAXFILE * BSIZE
  /\ DOMAIN sect = NMETA..FSSIZE - 1
  /\ bitmap \subseteq 0..FSSIZE - 1 /\ done \in BOOLEAN

\* The blocks an inode refers to, one entry for each place it does so.
Places(i) ==
  {<<i, "addr", k>> : k \in {k \in 0..NDIRECT : din[i].addrs[k] # 0}}
  \union {<<i, "indirect", k>> : k \in {k \in NDIRECT..MAXFILE - 1 : BlockOf(Image, i, k) # 0}}
PlaceBlock(p) == IF p[2] = "addr" THEN din[p[1]].addrs[p[3]] ELSE BlockOf(Image, p[1], p[3])

\* Every data block handed out is referred to from exactly one place, and in
\* the end the bitmap has those and the meta blocks.
ImageConsistent ==
  LET places == UNION {Places(i) : i \in Inum} IN
  /\ {PlaceBlock(p) : p \in places} = NMETA..freeblock - 1
  /\ Cardinality(places) = freeblock - NMETA
  /\ done => bitmap = (0..NMETA - 1) \union {PlaceBlock(p) : p \in places}

\* What the kernel will read through bmap: unit k of inode i is what was
\* appended there, and the blocks are accounted for.
ReadsBack ==
  /\ TypeOK /\ ImageConsistent
  /\ \A i \in Inum : \A k \in 0..din[i].size - 1 :
       LET x == BlockOf(Image, i, k \div BSIZE) IN
       \/ x # 0 /\ sect[x][k % BSIZE] = <<i, k>>
       \/ done /\ i = ROOTINO /\ (x = 0 \/ sect[x][k % BSIZE] = <<>>)
=============================================================================
