--------------------------------- MODULE Fs ---------------------------------
(***************************************************************************)
(* Inodes, directories and the file calls: xv6/fs.c above the buffer       *)
(* cache, xv6/file.c and xv6/sysfile.c.  A process gives up the processor  *)
(* to the others when it takes an inode's sleep lock and when it is about  *)
(* to change a reference count, so a step is what it does from one such    *)
(* point to the next.  The calls run inside transactions (Log) that        *)
(* serialise nothing here.                                                 *)
(***************************************************************************)
EXTENDS Integers, Sequences, FiniteSets, TLC

CONSTANTS Proc, NoProc,
          Name,          \* file names other than . and ..
          NINODES,       \* inodes on the disk, ROOTINO the first
          NINODE,        \* entries of the inode cache
          NBLOCKS,       \* data blocks
          NDIRECT,       \* blocks of a file before its indirect block
          MAXFILE,       \* blocks of one file
          NFILE, NOFILE, \* open files, descriptors of a process
          Calls          \* the calls with a path each process makes

VARIABLES
  dinode,     \* on disk: type and link count of each inode
  ent,        \* on disk: the entries of each directory, 0 for none
  addrs,      \* on disk: the blocks of each inode, its indirect block included
  used,       \* on disk: the block bitmap
  core,       \* the inode cache: ref, valid, and the cached type and nlink
  lock,       \* the holder of each inode's sleep lock
  file,       \* ftable: ref, inode, offset, writable
  ofile, cwd, \* per process
  th,         \* per process: where it is in its call
  stray,      \* history: inodes that took part in linking into a removed directory
  panicked

ondisk == <<dinode, ent, addrs, used>>
files == <<file, ofile, cwd>>
vars == <<ondisk, core, lock, files, th, stray, panicked>>

ROOTINO == 1
Inum == 1..NINODES
Fd == 1..NOFILE
Dots == {".", ".."}
NoEntries == [n \in Name \union Dots |-> 0]
NoCore == [ref |-> 0, valid |-> FALSE, type |-> "free", nlink |-> 0]
NoFile == [ref |-> 0, ip |-> 0, off |-> 0, writable |-> FALSE]

\* A process in user code.  In a call: ip, dp and old are the inodes it has
\* a reference to, drop the one it is putting, then where it goes on after.
User == [pc |-> "user", call |-> [op |-> "none"], path |-> <<>>, parent |-> FALSE,
         ip |-> 0, dp |-> 0, old |-> 0, drop |-> 0, then |-> "user"]

\* What mkfs leaves: a root directory in the first block.  Every process has
\* it as its current directory.
Init ==
  /\ dinode = [i \in Inum |-> IF i = ROOTINO THEN [type |-> "dir", nlink |-> 1]
                                             ELSE [type |-> "free", nlink |-> 0]]
  /\ ent = [i \in Inum |-> [n \in Name \union Dots |-> IF i = ROOTINO /\ n \in Dots THEN i ELSE 0]]
  /\ addrs = [i \in Inum |-> IF i = ROOTINO THEN <<1>> ELSE <<>>]
  /\ used = {1}
  /\ core = [i \in Inum |-> IF i = ROOTINO THEN [NoCore EXCEPT !.ref = Cardinality(Proc)] ELSE NoCore]
  /\ lock = [i \in Inum |-> NoProc]
  /\ file = [f \in 1..NFILE |-> NoFile]
  /\ ofile = [p \in Proc |-> [d \in Fd |-> 0]]
  /\ cwd = [p \in Proc |-> ROOTINO]
  /\ th = [p \in Proc |-> User]
  /\ stray = {}
  /\ panicked = "no"

At(p, l) == panicked = "no" /\ th[p].pc = l

\* The thread of p, with some fields replaced.
Go(p, r) == th' = [th EXCEPT ![p] = [f \in DOMAIN @ |-> IF f \in DOMAIN r THEN r[f] ELSE @[f]]]

\* The call returns.
Return(p) == th' = [th EXCEPT ![p] = User]

\* The call ends with iput(i).
PutLast(p, i) == th' = [th EXCEPT ![p] = [User EXCEPT !.pc = "iput", !.drop = i]]

\* What an iput is about to do, and where the process goes on.
Put(i, then) == [pc |-> "iput", drop |-> i, then |-> then]

-----------------------------------------------------------------------------
(***************************************************************************)
(* iget, ilock and iput                                                    *)
(***************************************************************************)
\* iget or idup in the cache c.
iget(c, i) ==
  [c EXCEPT ![i] = IF @.ref > 0 THEN [@ EXCEPT !.ref = @ + 1] ELSE [NoCore EXCEPT !.ref = 1]]

NoSlot(i) == core[i].ref = 0 /\ Cardinality({j \in Inum : core[j].ref > 0}) = NINODE

\* The inode of a name, or 0.
dirlookup(d, n) == ent[d][n]

\* dirlookup found i, after the cache became c: iget takes a reference to it.
Get(c, i) ==
  /\ core' = iget(c, i)
  /\ panicked' = IF NoSlot(i) THEN "iget: no inodes" ELSE "no"

\* ilock reads an inode that is not valid from the disk.
Loaded(i) ==
  IF core[i].valid THEN core[i]
  ELSE [ref |-> core[i].ref, valid |-> TRUE, type |-> dinode[i].type, nlink |-> dinode[i].nlink]

Free(i) == lock[i] = NoProc

FreeBlocks == (1..NBLOCKS) \ used
First(S) == CHOOSE x \in S : \A y \in S : x <= y

\* balloc marks the first free block.
balloc == First(FreeBlocks)

\* Mutant: itrunc forgets to free the blocks.
itruncKeeps(i) ==
  /\ addrs' = [addrs EXCEPT ![i] = <<>>]
  /\ ent' = [ent EXCEPT ![i] = NoEntries]
  /\ UNCHANGED <<used, panicked>>

bfree(blocks) ==
  /\ used' = used \ blocks
  /\ panicked' = IF blocks \subseteq used THEN panicked ELSE "freeing free block"

itrunc(i) ==
  /\ bfree({addrs[i][k] : k \in DOMAIN addrs[i]})
  /\ addrs' = [addrs EXCEPT ![i] = <<>>]
  /\ ent' = [ent EXCEPT ![i] = NoEntries]

Lock(p, i) == lock' = [lock EXCEPT ![i] = p]
Unlock(i) == lock' = [lock EXCEPT ![i] = NoProc]

\* The cache after ilock(i).
Load(i) == [core EXCEPT ![i] = Loaded(i)]

\* The inodes on the disk when those in S are written as the cache c has them.
iupdate(c, S) == [i \in Inum |-> IF i \in S THEN [type |-> c[i].type, nlink |-> c[i].nlink] ELSE dinode[i]]

\* The link count of a locked inode changes.
Relink(i, by) ==
  /\ core' = [core EXCEPT ![i] = [Loaded(i) EXCEPT !.nlink = @ + by]]
  /\ dinode' = iupdate(core', {i})


\* The first half of iput, under the inode's lock: the last reference to an
\* inode without links truncates and frees it.
IputFree(p) ==
  LET i == th[p].drop
      last == core[i].valid /\ core[i].nlink = 0 /\ core[i].ref = 1
  IN
  /\ At(p, "iput") /\ Free(i)
  /\ Go(p, [pc |-> "iput2"])
  /\ IF last
       THEN /\ itrunc(i)
            /\ core' = [core EXCEPT ![i].type = "free", ![i].valid = FALSE]
            /\ dinode' = iupdate(core', {i})
       ELSE UNCHANGED <<ondisk, core, panicked>>
  /\ UNCHANGED <<lock, files, stray>>

\* Its second half, under icache.lock.
IputRef(p) ==
  LET i == th[p].drop IN
  /\ At(p, "iput2")
  /\ core' = [core EXCEPT ![i] = IF @.ref = 1 THEN NoCore ELSE [@ EXCEPT !.ref = @ - 1]]
  /\ Go(p, [pc |-> th[p].then, drop |-> 0])
  /\ UNCHANGED <<ondisk, lock, files, stray, panicked>>

(***************************************************************************)
(* namex                                                                   *)
(***************************************************************************)
\* Where namei and nameiparent return to.
Found(p) ==
  CASE th[p].call.op = "link" -> IF th[p].parent THEN "dirlink" ELSE "link"
    [] th[p].call.op = "open" /\ th[p].parent -> "create"
    [] th[p].call.op \in {"mkdir", "mknod"} -> "create"
    [] OTHER -> th[p].call.op

\* namei or nameiparent of a path starts: c is the cache it starts from.
Walk(p, c, path, parent, r) ==
  LET start == IF Head(path) = "/" THEN ROOTINO ELSE cwd[p] IN
  /\ core' = iget(c, start)
  /\ Go(p, r @@ [pc |-> "namex", path |-> IF Head(path) = "/" THEN Tail(path) ELSE path,
                 parent |-> parent, ip |-> start])

\* A path is a sequence of names.
skipelem(path) == [name |-> Head(path), rest |-> Tail(path)]

\* One element of the path, under the lock of the directory ip.
Namex(p) ==
  LET i == th[p].ip
      elem == skipelem(th[p].path)
      stop == th[p].parent /\ elem.rest = <<>>
      next == dirlookup(i, elem.name)
  IN
  /\ At(p, "namex") /\ Free(i)
  /\ \/ /\ Loaded(i).type # "dir" \/ (~stop /\ next = 0)
        /\ core' = Load(i)
        /\ IF th[p].old # 0 THEN Go(p, Put(i, "linkbad") @@ [ip |-> 0]) ELSE PutLast(p, i)
        /\ UNCHANGED panicked
     \/ /\ Loaded(i).type = "dir" /\ stop
        /\ core' = Load(i)
        /\ Go(p, [pc |-> Found(p), dp |-> i, ip |-> 0])
        /\ UNCHANGED panicked
     \/ /\ Loaded(i).type = "dir" /\ ~stop /\ next # 0
        /\ Get(Load(i), next)
        /\ Go(p, Put(i, IF elem.rest = <<>> THEN Found(p) ELSE "namex")
                 @@ [ip |-> next, path |-> elem.rest])
  /\ UNCHANGED <<ondisk, lock, files, stray>>

(***************************************************************************)
(* sys_link                                                                *)
(***************************************************************************)

\* The old inode gets its link before the name of the new one is looked up.
Link(p) ==
  LET i == th[p].ip IN
  /\ At(p, "link") /\ Free(i)
  /\ IF Loaded(i).type = "dir"
       THEN /\ core' = Load(i)
            /\ PutLast(p, i)
            /\ UNCHANGED dinode
       ELSE LET start == [core EXCEPT ![i] = [Loaded(i) EXCEPT !.nlink = @ + 1]] IN
            /\ dinode' = iupdate(start, {i})
            /\ Walk(p, start, th[p].call.new, TRUE, [old |-> i])
  /\ UNCHANGED <<ent, addrs, used, lock, files, stray, panicked>>

\* dirlink: a name that exists is put with the directory still locked.
Dirlink(p) ==
  LET d == th[p].dp
      e == dirlookup(d, Head(th[p].path))
  IN
  /\ At(p, "dirlink") /\ Free(d)
  /\ IF e # 0
       THEN /\ Get(Load(d), e)
            /\ Lock(p, d)
            /\ Go(p, Put(e, "dirlinkbad"))
            /\ UNCHANGED <<ent, stray>>
       ELSE /\ core' = Load(d)
            /\ ent' = [ent EXCEPT ![d][Head(th[p].path)] = th[p].old]
            /\ stray' = IF Loaded(d).nlink = 0 \/ d \in stray THEN stray \union {d, th[p].old} ELSE stray
            /\ Go(p, Put(d, "linkend") @@ [dp |-> 0])
            /\ UNCHANGED <<lock, panicked>>
  /\ UNCHANGED <<dinode, addrs, used, files>>

DirlinkBad(p) ==
  /\ At(p, "dirlinkbad")
  /\ Unlock(th[p].dp)
  /\ Go(p, Put(th[p].dp, "linkbad") @@ [dp |-> 0])
  /\ UNCHANGED <<ondisk, core, files, stray, panicked>>

LinkEnd(p) ==
  /\ At(p, "linkend")
  /\ PutLast(p, th[p].old)
  /\ UNCHANGED <<ondisk, core, lock, files, stray, panicked>>

\* Mutant: the link is not taken back.
LinkBadKeeps(p) ==
  LET i == th[p].old IN
  /\ At(p, "linkbad") /\ Free(i)
  /\ PutLast(p, i)
  /\ UNCHANGED <<ondisk, core, lock, files, stray, panicked>>

\* The label bad: the link is taken back.
LinkBad(p) ==
  LET i == th[p].old IN
  /\ At(p, "linkbad") /\ Free(i)
  /\ Relink(i, -1)
  /\ PutLast(p, i)
  /\ UNCHANGED <<ent, addrs, used, lock, files, stray, panicked>>

(***************************************************************************)
(* sys_unlink                                                              *)
(***************************************************************************)
isdirempty(i) == \A n \in Name : ent[i][n] = 0

\* The parent is locked and the name looked up in it.
Unlink(p) ==
  LET d == th[p].dp
      n == Head(th[p].path)
      e == dirlookup(d, n)
  IN
  /\ At(p, "unlink") /\ Free(d)
  /\ IF n \in Dots \/ e = 0
       THEN /\ core' = Load(d)
            /\ PutLast(p, d)
            /\ UNCHANGED <<lock, panicked>>
       ELSE /\ Get(Load(d), e)
            /\ Lock(p, d)
            /\ Go(p, [pc |-> "unlink2", ip |-> e])
  /\ UNCHANGED <<ondisk, files, stray>>

\* With both locked: the entry goes, a directory's parent loses its ".."
\* link, and the parent is put while the child stays locked.
UnlinkEntry(p) ==
  LET d == th[p].dp
      i == th[p].ip
      isdir == Loaded(i).type = "dir"
  IN
  /\ At(p, "unlink2") /\ Free(i)
  /\ IF isdir /\ ~isdirempty(i)
       THEN /\ core' = Load(i)
            /\ Go(p, Put(i, "unlinkbad") @@ [ip |-> 0])
            /\ UNCHANGED <<ent, dinode, lock>>
       ELSE /\ ent' = [ent EXCEPT ![d][Head(th[p].path)] = 0]
            /\ core' = [Load(i) EXCEPT ![d].nlink = IF isdir THEN @ - 1 ELSE @]
            /\ dinode' = iupdate(core', {d})
            /\ lock' = [lock EXCEPT ![d] = NoProc, ![i] = p]
            /\ Go(p, Put(d, "unlink3") @@ [dp |-> 0])
  /\ panicked' = IF Loaded(i).nlink < 1 THEN "unlink: nlink < 1" ELSE "no"
  /\ UNCHANGED <<addrs, used, files, stray>>

UnlinkBad(p) ==
  /\ At(p, "unlinkbad")
  /\ Unlock(th[p].dp)
  /\ PutLast(p, th[p].dp)
  /\ UNCHANGED <<ondisk, core, files, stray, panicked>>

UnlinkChild(p) ==
  LET i == th[p].ip IN
  /\ At(p, "unlink3")
  /\ Relink(i, -1)
  /\ Unlock(i)
  /\ PutLast(p, i)
  /\ UNCHANGED <<ent, addrs, used, files, stray, panicked>>

(***************************************************************************)
(* create, for sys_open with O_CREATE, sys_mkdir and sys_mknod             *)
(***************************************************************************)
CreateType(p) ==
  CASE th[p].call.op = "mkdir" -> "dir" [] th[p].call.op = "mknod" -> "dev" [] OTHER -> "file"

FreeInodes == {i \in Inum : dinode[i].type = "free"}
\* ialloc takes the first free inode.
ialloc == First(FreeInodes)

\* The name exists: its inode is returned only if a plain file was asked for.
CreateFinds(p) ==
  LET d == th[p].dp
      e == dirlookup(d, Head(th[p].path))
  IN
  /\ At(p, "create") /\ Free(d) /\ e # 0
  /\ Get(Load(d), e)
  /\ Go(p, Put(d, "created?") @@ [dp |-> 0, ip |-> e])
  /\ UNCHANGED <<ondisk, lock, files, stray>>

CreateFound(p) ==
  LET i == th[p].ip
      ok == CreateType(p) = "file" /\ Loaded(i).type = "file"
  IN
  /\ At(p, "created?") /\ Free(i)
  /\ core' = Load(i)
  /\ lock' = [lock EXCEPT ![i] = IF ok THEN p ELSE NoProc]
  /\ IF ok THEN Go(p, [pc |-> "created"]) ELSE PutLast(p, i)
  /\ UNCHANGED <<ondisk, files, stray, panicked>>

\* A new inode, with . and .. if it is a directory, then its name; the
\* parent is put while the new inode stays locked.
CreateNew(p) ==
  LET d == th[p].dp
      n == Head(th[p].path)
      type == CreateType(p)
      i == ialloc
      b == balloc
      up == IF type = "dir" THEN 1 ELSE 0
  IN
  /\ At(p, "create") /\ Free(d) /\ dirlookup(d, n) = 0
  /\ FreeInodes # {} /\ ~NoSlot(i) /\ (type = "dir" => FreeBlocks # {})
  /\ core' = [iget(Load(d), i) EXCEPT ![i].valid = TRUE, ![i].type = type, ![i].nlink = 1,
                                      ![d].nlink = @ + up]
  /\ dinode' = iupdate(core', {d, i})
  /\ ent' = [ent EXCEPT ![d][n] = i,
                        ![i] = IF type = "dir" THEN [NoEntries EXCEPT !["."] = i, ![".."] = d] ELSE @]
  /\ addrs' = [addrs EXCEPT ![i] = IF type = "dir" THEN <<b>> ELSE <<>>]
  /\ used' = IF type = "dir" THEN used \union {b} ELSE used
  /\ lock' = [lock EXCEPT ![i] = p]
  /\ stray' = IF Loaded(d).nlink = 0 \/ d \in stray THEN stray \union {d, i} ELSE stray \ {i}
  /\ Go(p, Put(d, "created") @@ [dp |-> 0, ip |-> i])
  /\ UNCHANGED <<files, panicked>>

\* ialloc, iget and balloc panic when they find nothing.
CreatePanics(p) ==
  LET d == th[p].dp
      msg == IF FreeInodes = {} THEN "ialloc: no inodes"
             ELSE IF NoSlot(ialloc) THEN "iget: no inodes"
             ELSE IF CreateType(p) = "dir" /\ FreeBlocks = {} THEN "balloc: out of blocks" ELSE "no"
  IN
  /\ At(p, "create") /\ Free(d) /\ dirlookup(d, Head(th[p].path)) = 0
  /\ msg # "no"
  /\ panicked' = msg
  /\ UNCHANGED <<ondisk, core, lock, files, th, stray>>

(***************************************************************************)
(* The file table and the descriptors                                      *)
(***************************************************************************)
FreeFiles == {f \in 1..NFILE : file[f].ref = 0}
filealloc == First(FreeFiles)
FreeFds(p) == {d \in Fd : ofile[p][d] = 0}
fdalloc(p) == First(FreeFds(p))

argfd(p, d) == ofile[p][d]

\* The end of sys_open, with the inode locked: a file and a descriptor, or
\* neither.
OpenFile(p, i) ==
  IF FreeFiles = {} \/ FreeFds(p) = {}
    THEN PutLast(p, i) /\ UNCHANGED files
    ELSE /\ file' = [file EXCEPT ![filealloc] = [ref |-> 1, ip |-> i, off |-> 0,
                                               writable |-> th[p].call.write]]
         /\ ofile' = [ofile EXCEPT ![p][fdalloc(p)] = filealloc]
         /\ Return(p)
         /\ UNCHANGED cwd

\* create returned the locked inode: sys_open opens it, the others put it.
Created(p) ==
  LET i == th[p].ip IN
  /\ At(p, "created")
  /\ Unlock(i)
  /\ IF th[p].call.op = "open" THEN OpenFile(p, i)
     ELSE PutLast(p, i) /\ UNCHANGED files
  /\ UNCHANGED <<ondisk, core, stray, panicked>>

\* sys_open without O_CREATE: a directory is opened for reading only.
Open(p) ==
  LET i == th[p].ip IN
  /\ At(p, "open") /\ Free(i)
  /\ core' = Load(i)
  /\ IF Loaded(i).type = "dir" /\ th[p].call.write
       THEN PutLast(p, i) /\ UNCHANGED files
       ELSE OpenFile(p, i)
  /\ UNCHANGED <<ondisk, lock, stray, panicked>>

\* Mutant: the old current directory is not put.
ChdirKeeps(p) ==
  LET i == th[p].ip IN
  /\ At(p, "chdir") /\ Free(i)
  /\ core' = Load(i)
  /\ IF Loaded(i).type # "dir"
       THEN PutLast(p, i) /\ UNCHANGED cwd
       ELSE /\ Return(p)
            /\ cwd' = [cwd EXCEPT ![p] = i]
  /\ UNCHANGED <<ondisk, lock, file, ofile, stray, panicked>>

Chdir(p) ==
  LET i == th[p].ip IN
  /\ At(p, "chdir") /\ Free(i)
  /\ core' = Load(i)
  /\ IF Loaded(i).type # "dir"
       THEN PutLast(p, i) /\ UNCHANGED cwd
       ELSE /\ PutLast(p, cwd[p])
            /\ cwd' = [cwd EXCEPT ![p] = i]
  /\ UNCHANGED <<ondisk, lock, file, ofile, stray, panicked>>

\* The last reference puts the inode.
fileclose(p, f) ==
  IF file[f].ref > 1
    THEN file' = [file EXCEPT ![f].ref = @ - 1] /\ UNCHANGED th
    ELSE file' = [file EXCEPT ![f] = NoFile] /\ PutLast(p, file[f].ip)

Close(p, d) ==
  LET f == argfd(p, d) IN
  /\ At(p, "user") /\ f # 0
  /\ ofile' = [ofile EXCEPT ![p][d] = 0]
  /\ fileclose(p, f)
  /\ UNCHANGED <<ondisk, core, lock, cwd, stray, panicked>>

filedup(f) == file' = [file EXCEPT ![f].ref = @ + 1]

Dup(p, d) ==
  LET f == argfd(p, d) IN
  /\ At(p, "user") /\ f # 0 /\ FreeFds(p) # {}
  /\ ofile' = [ofile EXCEPT ![p][fdalloc(p)] = f]
  /\ filedup(f)
  /\ UNCHANGED <<ondisk, core, lock, cwd, th, stray, panicked>>

Size(i) == IF Len(addrs[i]) <= NDIRECT THEN Len(addrs[i]) ELSE Len(addrs[i]) - 1

\* The blocks bmap allocates to make the file a block longer: the first one
\* after the direct blocks needs the indirect block too.
bmap(i) ==
  LET b == balloc IN
  IF Size(i) = NDIRECT THEN <<b, First(FreeBlocks \ {b})>> ELSE <<b>>
Short(i) == Cardinality(FreeBlocks) < IF Size(i) = NDIRECT THEN 2 ELSE 1

\* The blocks read at an offset: none at the end of the file.
readi(i, off) == IF off < Size(i) THEN 1 ELSE 0

\* A block written at an offset not beyond the end.
writei(i, off) ==
  LET grows == off = Size(i) IN
  IF grows /\ Short(i)
    THEN panicked' = "balloc: out of blocks" /\ UNCHANGED <<addrs, used>>
    ELSE /\ addrs' = [addrs EXCEPT ![i] = IF grows THEN @ \o bmap(i) ELSE @]
         /\ used' = IF grows THEN used \union {bmap(i)[k] : k \in DOMAIN bmap(i)} ELSE used
         /\ UNCHANGED panicked

\* sys_read and fileread, a block at a time.  A device reads for itself
\* (Console).
Read(p, d) ==
  LET f == argfd(p, d)
      i == file[f].ip
  IN
  /\ At(p, "user") /\ f # 0 /\ Free(i) /\ Loaded(i).type # "dev"
  /\ core' = Load(i)
  /\ file' = [file EXCEPT ![f].off = @ + readi(i, @)]
  /\ UNCHANGED <<ondisk, lock, ofile, cwd, th, stray, panicked>>

\* sys_write and filewrite of one block.
Write(p, d) ==
  LET f == argfd(p, d)
      i == file[f].ip
  IN
  /\ At(p, "user") /\ f # 0 /\ Free(i)
  /\ file[f].writable /\ Loaded(i).type # "dev" /\ file[f].off < MAXFILE
  /\ core' = Load(i)
  /\ writei(i, file[f].off)
  /\ file' = [file EXCEPT ![f].off = IF panicked' = "no" THEN @ + 1 ELSE @]
  /\ UNCHANGED <<dinode, ent, lock, ofile, cwd, th, stray>>

(***************************************************************************)
(* The calls with a path                                                   *)
(***************************************************************************)
Syscall(p, c) ==
  /\ At(p, "user")
  /\ Walk(p, core, c.path, c.op \in {"unlink", "mkdir", "mknod"} \/ (c.op = "open" /\ c.create),
          [call |-> c])
  /\ UNCHANGED <<ondisk, lock, files, stray, panicked>>

Step(p) ==
  \/ Namex(p) \/ IputFree(p) \/ IputRef(p)
  \/ Link(p) \/ Dirlink(p) \/ DirlinkBad(p) \/ LinkEnd(p) \/ LinkBad(p)
  \/ Unlink(p) \/ UnlinkEntry(p) \/ UnlinkBad(p) \/ UnlinkChild(p)
  \/ CreateFinds(p) \/ CreateFound(p) \/ CreateNew(p) \/ CreatePanics(p) \/ Created(p)
  \/ Open(p) \/ Chdir(p)

Next == \E p \in Proc :
  \/ Step(p)
  \/ \E c \in Calls[p] : Syscall(p, c)
  \/ \E d \in Fd : Close(p, d) \/ Dup(p, d) \/ Read(p, d) \/ Write(p, d)

Spec == Init /\ [][Next]_vars
-----------------------------------------------------------------------------
\* Inodes, blocks, descriptors and threads are within their tables.
TypeOK ==
  /\ dinode \in [Inum -> [type : {"free", "dir", "file", "dev"}, nlink : Nat]]
  /\ ent \in [Inum -> [Name \union Dots -> 0..NINODES]]
  /\ \A i \in Inum : addrs[i] \in Seq(1..NBLOCKS) /\ Size(i) <= MAXFILE
  /\ core \in [Inum -> [ref : Nat, valid : BOOLEAN, type : {"free", "dir", "file", "dev"}, nlink : Nat]]
  /\ lock \in [Inum -> Proc \union {NoProc}]
  /\ file \in [1..NFILE -> [ref : Nat, ip : 0..NINODES, off : 0..MAXFILE, writable : BOOLEAN]]
  /\ ofile \in [Proc -> [Fd -> 0..NFILE]]
  /\ cwd \in [Proc -> Inum]

\* A reference count is the number of pointers to the inode: current
\* directories, open files, and the inodes processes work on inside calls.
RefsCounted ==
  \A i \in Inum :
    core[i].ref = Cardinality({p \in Proc : cwd[p] = i})
                + Cardinality({f \in 1..NFILE : file[f].ref > 0 /\ file[f].ip = i})
                + Cardinality({pf \in Proc \X {"ip", "dp", "old", "drop"} : th[pf[1]][pf[2]] = i})


\* The names of an inode, links being made and removed included; a directory is
\* also linked by the .. of its children.
Leaving(i) == {p \in Proc : th[p].ip = i /\ "unlink3" \in {th[p].pc, th[p].then}}
LiveDir(d) == d \notin stray /\ dinode[d].type = "dir" /\ dinode[d].nlink > 0 /\ Leaving(d) = {}
Links(i) ==
    Cardinality({dn \in Inum \X (Name \union {".."}) : LiveDir(dn[1]) /\ ent[dn[1]][dn[2]] = i})
  + Cardinality({p \in Proc : th[p].old = i /\ "linkend" \notin {th[p].pc, th[p].then}})
  + Cardinality(Leaving(i))

\* The bitmap is exactly the blocks of the inodes, and no block is in two
\* places.
BlocksOwned ==
  /\ TypeOK
  /\ used = UNION {{addrs[i][k] : k \in DOMAIN addrs[i]} : i \in Inum}
  /\ \A i, j \in Inum : \A k \in DOMAIN addrs[i], l \in DOMAIN addrs[j] :
       addrs[i][k] = addrs[j][l] => i = j /\ k = l

\* A valid entry of the inode cache is what the disk has.
CacheCoherent ==
  \A i \in Inum : core[i].valid => core[i].type = dinode[i].type /\ core[i].nlink = dinode[i].nlink

\* The link count, cached and on disk, is the number of names, whatever other
\* calls link and unlink meanwhile and whichever of them fail.  Excepted are
\* inodes linked through a directory that was already removed.
LinksCounted ==
  /\ CacheCoherent
  /\ \A i \in Inum \ stray : dinode[i].type # "free" => dinode[i].nlink = Links(i)

\* fs.c:327-328: "If that was the last reference and the inode has no links
\* to it, free the inode (and its content) on disk."
LastPutFrees == \A i \in Inum : core[i].ref = 0 /\ dinode[i].nlink = 0 => dinode[i].type = "free"

\* What the process needs to go on.
Waits(p) ==
  CASE th[p].pc = "iput" -> th[p].drop
    [] th[p].pc \in {"dirlink", "create", "unlink"} -> th[p].dp
    [] th[p].pc = "linkbad" -> th[p].old
    [] th[p].pc \in {"namex", "unlink2", "created?", "link", "open", "chdir"} -> th[p].ip
    [] OTHER -> 0

\* usertests.c:855-856 runs concurrent link, unlink and create "to look for
\* deadlocks": no two processes wait for an inode the other has locked.
NoDeadlock ==
  \A p, q \in Proc : ~ /\ Waits(p) # 0 /\ lock[Waits(p)] = q
                       /\ Waits(q) # 0 /\ lock[Waits(q)] = p
=============================================================================
