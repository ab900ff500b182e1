-------------------------------- MODULE Vfs --------------------------------
(***************************************************************************)
(* Inodes, the RAM filesystem, mounting the FAT filesystem and the buffer  *)
(* cache they live in: os/inode.c, os/fs/ram/ramfs.c, os/mount.c,          *)
(* os/dir.c, the buffers of os/kmalloc.c and the inodes of                 *)
(* os/fs/fat/fatfs.c, under the open files of module Files.                *)
(*                                                                         *)
(* Every inode, directory entry and FAT information block is a buffer.     *)
(* Operators that the code calls with a heap in mind take the heap h as a  *)
(* parameter and return the next one, so that a handler is one step.       *)
(* Pathnames are sequences of names, as inode_path_to_abs() leaves them.   *)
(* What is found on the SD card is external: an answer for every component *)
(* of the path that is looked up there.                                    *)
(***************************************************************************)
EXTENDS Files, Sequences, SequencesExt

CONSTANTS
  NUM_BUFFERS,  \* CONFIG_NUM_BUFFERS, the size of the buffer cache
  Names,        \* pathname components
  LongNames,    \* those of them longer than RAMFS_MAX_NAME
  Paths,        \* the pathnames that callers use
  Perms,        \* the permissions that callers ask for, "t" being S_ISVTX
  Accs,         \* the accesses that callers of open() ask for
  Masks,        \* the arguments of umask()
  Types         \* the types that callers of mknod() ask for

Buf == 1..NUM_BUFFERS
Root == 1
All == {"r", "w", "x"}   \* 0777, as far as it concerns the owner

ASSUME VfsAssumption ==
  /\ NUM_BUFFERS \in Nat \ {0} /\ Paths \subseteq Seq(Names)
  /\ LongNames \subseteq Names /\ Perms \subseteq SUBSET (All \cup {"t"})
  /\ Accs \subseteq SUBSET All /\ Masks \subseteq SUBSET All
  /\ Types \subseteq {"reg", "chr", "blk"}
  /\ NULL \notin Buf

VARIABLES
  buf,     \* the buffer cache
  finode,  \* file.inode of every open file
  finfo,   \* file.fatfs_info of every open file
  posn,    \* file.posn of every open file
  umask    \* proc.umask, as far as it concerns the owner

vars == <<fileVars, buf, finode, finfo, posn, umask>>

-----------------------------------------------------------------------------
(***************************************************************************)
(* Buffers.  An inode of the RAM filesystem has its entries (ramfs_dir)    *)
(* and the inode mounted on it, one of the FAT filesystem an information   *)
(* block.  Device numbers are left out: whether a driver answers is an     *)
(* input of the call.                                                      *)
(***************************************************************************)
FreeBuf == [kind |-> "free"]
InfoBuf == [kind |-> "info"]
Dirent(name, i) == [kind |-> "dirent", name |-> name, inode |-> i]
Inode(op, type, perm) ==
  [kind |-> "inode", op |-> op, count |-> 1, type |-> type, perm |-> perm,
   dir |-> <<>>, mount |-> NULL, info |-> NULL]

\* The mode has S_ISVTX: a mount point.
Vtx(h, i) == "t" \in h[i].perm

\* The buffers on the free list; kmalloc_buf_alloc() takes one of them.
Free(h) == {b \in Buf : h[b] = FreeBuf}

\* Result of a call that may fail: the heap after it, and what it found.
Fails(h, e)  == [h |-> h, err |-> e, node |-> NULL, info |-> NULL]
Finds(h, i)  == [h |-> h, err |-> "ok", node |-> i, info |-> NULL]

inode_ref(h, i) == [h EXCEPT ![i].count = @ + 1]

(***************************************************************************)
(* inode_deref() and the release functions of the two filesystems.         *)
(***************************************************************************)
RECURSIVE inode_deref(_, _)

\* Slip: the information block is forgotten.
ReleaseKeepsInfo(h, i) == h

fatfs_release(h, i) ==
  IF h[i].info = NULL THEN h ELSE [h EXCEPT ![h[i].info] = FreeBuf]

ramfs_release(h, i) ==
  LET g == FoldLeft(LAMBDA k, b : [inode_deref(k, k[b].inode) EXCEPT ![b] = FreeBuf],
                    h, h[i].dir)
  IN  IF Vtx(h, i) /\ h[i].mount # NULL THEN inode_deref(g, h[i].mount) ELSE g

inode_deref(h, i) ==
  LET k == [h EXCEPT ![i].count = @ - 1] IN
  IF k[i].count > 0 THEN k
  ELSE [IF h[i].op = "ram" THEN ramfs_release(k, i) ELSE fatfs_release(k, i)
          EXCEPT ![i] = FreeBuf]

(***************************************************************************)
(* fatfs_lookup() of a name, with the answer of the card: it is an error,  *)
(* or it is found to be a directory or a regular file.  The read-only      *)
(* attribute would only exchange one error for another.                    *)
(***************************************************************************)
Answers == {"ENOENT", "EIO", "dir", "reg"}

fatfs_create_inode(h, type) ==
  LET i == Lowest(Free(h))
      b == Lowest(Free(h) \ {i}) IN
  IF Cardinality(Free(h)) < 2 THEN Fails(h, "ENOMEM")
  ELSE Finds([h EXCEPT ![i] = [Inode("fat", type, All) EXCEPT !.info = b],
                       ![b] = InfoBuf], i)

fatfs_lookup(h, name, answer) ==
  CASE name \in LongNames -> Fails(h, "EINVAL")
    [] name \notin LongNames /\ answer \in {"ENOENT", "EIO"} -> Fails(h, answer)
    [] OTHER -> fatfs_create_inode(h, answer)

(***************************************************************************)
(* ramfs_lookup(): a mount point passes the request on, and a directory    *)
(* adds a reference to the inode of the first entry with the name.         *)
(***************************************************************************)

\* Slip: the search starts behind the first entry.
EntriesAfterFirst(h, i, name) ==
  {k \in DOMAIN h[i].dir : k > 1 /\ h[h[i].dir[k]].name = name}

Entries(h, i, name) == {k \in DOMAIN h[i].dir : h[h[i].dir[k]].name = name}

ramfs_lookup(h, i, name, answer) ==
  LET found == Entries(h, i, name) IN
  CASE Vtx(h, i) /\ h[i].mount # NULL -> fatfs_lookup(h, name, answer)
    [] Vtx(h, i) /\ h[i].mount = NULL -> Fails(h, "ENOENT")
    [] ~Vtx(h, i) /\ found = {} -> Fails(h, "ENOENT")
    [] OTHER -> LET child == h[h[i].dir[Lowest(found)]].inode
                IN  Finds(inode_ref(h, child), child)

Lookup(h, i, name, answer) ==
  IF h[i].op = "ram" THEN ramfs_lookup(h, i, name, answer)
                     ELSE fatfs_lookup(h, name, answer)

(***************************************************************************)
(* ramfs_mknod(): the new entry goes to the end of the directory.  One     *)
(* reference is for the entry and one for the caller.                      *)
(***************************************************************************)

\* Slip: the entry goes to the head of the list.
EntryAtHead(q, b) == <<b>> \o q

EntryAtTail(q, b) == Append(q, b)

ramfs_mknod(h, i, name, type, perm) ==
  LET b == Lowest(Free(h))
      c == Lowest(Free(h) \ {b}) IN
  CASE name \in LongNames -> Fails(h, "ENAMETOOLONG")
    [] name \notin LongNames /\ Cardinality(Free(h)) < 2 -> Fails(h, "ENOMEM")
    [] OTHER ->
         Finds([h EXCEPT ![b] = Dirent(name, c),
                         ![c] = [Inode("ram", type, perm) EXCEPT !.count = 2],
                         ![i].dir = EntryAtTail(@, b)], c)

-----------------------------------------------------------------------------
(***************************************************************************)
(* inode_lookup().  What the caller asks for: whether a missing node is to *)
(* be created ("create", or "excl" with O_EXCL), the access wanted, and    *)
(* the type and permissions of the mode argument.  Whoever looks up a path *)
(* holds one reference, on the inode that the walk has reached.            *)
(***************************************************************************)
Request(creat, acc, type, perm) ==
  [creat |-> creat, acc |-> acc, type |-> type, perm |-> perm]

\* The walk gives up at inode i.
GiveUp(h, i, e) == Fails(inode_deref(h, i), e)

\* inode_access()
inode_access(h, i, acc) == acc \subseteq h[i].perm

Create(h, i, name, req) ==
  CASE ~inode_access(h, i, {"w"}) -> GiveUp(h, i, "EACCES")
    [] inode_access(h, i, {"w"}) /\ h[i].op = "fat" -> GiveUp(h, i, "EROFS")
    [] OTHER -> LET made == ramfs_mknod(h, i, name, req.type, req.perm)
                IN  [made EXCEPT !.h = inode_deref(@, i)]

\* Slip: the reference is kept when the type is wrong.
FoundKeepsReference(h, i, req) ==
  CASE ~inode_access(h, i, req.acc) -> GiveUp(h, i, "EACCES")
    [] inode_access(h, i, req.acc) /\ req.type # h[i].type -> Fails(h, "EACCES")
    [] OTHER -> IF req.creat = "excl" THEN GiveUp(h, i, "EEXIST") ELSE Finds(h, i)

Found(h, i, req) ==
  CASE ~inode_access(h, i, req.acc) -> GiveUp(h, i, "EACCES")
    [] inode_access(h, i, req.acc) /\ req.type # h[i].type ->
         GiveUp(h, i, IF req.type = "dir" THEN "ENOTDIR"
                      ELSE IF h[i].type = "dir" THEN "EISDIR" ELSE "EACCES")
    [] OTHER -> IF req.creat = "excl" THEN GiveUp(h, i, "EEXIST") ELSE Finds(h, i)

RECURSIVE Walk(_, _, _, _, _)
Walk(h, i, path, req, card) ==
  IF path = <<>> THEN Found(h, i, req)
  ELSE IF h[i].type # "dir" THEN GiveUp(h, i, "ENOTDIR")
  ELSE IF ~inode_access(h, i, {"x"}) THEN GiveUp(h, i, "EACCES")
  ELSE LET r == Lookup(h, i, Head(path), Head(card)) IN
       IF r.err = "ok" THEN Walk(inode_deref(r.h, i), r.node, Tail(path), req, Tail(card))
       ELSE IF r.err = "ENOENT" /\ Len(path) = 1 /\ req.creat # "no"
            THEN Create(h, i, Head(path), req)
       ELSE GiveUp(h, i, r.err)

inode_lookup(path, req, card) == Walk(inode_ref(buf, Root), Root, path, req, card)

\* A lookup whose caller has no use for the inode.
Dropped(r) == IF r.err = "ok" THEN inode_deref(r.h, r.node) ELSE r.h
Outcome(r) == IF r.err = "ok" THEN "ok" ELSE "error"

-----------------------------------------------------------------------------
(***************************************************************************)
(* The open functions.  works says whether the card, or a device driver,   *)
(* answers.  The result has the inode and the information block of the     *)
(* file.                                                                   *)
(***************************************************************************)
fatfs_open(h, i, works) ==
  CASE ~works -> Fails(h, "EIO")
    [] works /\ Free(h) = {} -> Fails(h, "ENOMEM")
    [] OTHER -> LET b == Lowest(Free(h))
                IN  [Finds([h EXCEPT ![b] = InfoBuf], i) EXCEPT !.info = b]

ramfs_open(h, i, works) ==
  CASE h[i].type = "dir" /\ Vtx(h, i) ->
         LET m == h[i].mount
         IN  fatfs_open(inode_deref(inode_ref(h, m), i), m, works)
    [] h[i].type = "dir" /\ ~Vtx(h, i) -> Finds(h, i)
    [] h[i].type = "reg" -> Finds(h, i)
    [] h[i].type = "chr" -> IF works THEN Finds(inode_deref(h, i), NULL)
                                     ELSE Fails(inode_deref(h, i), "ENXIO")
    [] OTHER -> Fails(h, "EACCES")

OpenInode(h, i, works) ==
  IF h[i].op = "ram" THEN ramfs_open(h, i, works) ELSE fatfs_open(h, i, works)

(***************************************************************************)
(* The close functions: fatfs_close() frees the information block, and     *)
(* file_close_default() drops the inode.                                   *)
(***************************************************************************)

CloseFile(h, i, b) ==
  LET g == IF b = NULL THEN h ELSE [h EXCEPT ![b] = FreeBuf]
  IN  IF i = NULL THEN g ELSE inode_deref(g, i)

-----------------------------------------------------------------------------
(***************************************************************************)
(* The machine after start-up: the root directory, with its references for *)
(* "." and "..", and the console, which has no inode.                      *)
(***************************************************************************)
VfsInit ==
  /\ FilesInit
  /\ buf = [b \in Buf |-> IF b = Root
                          THEN [Inode("ram", "dir", All) EXCEPT !.count = 3] ELSE FreeBuf]
  /\ finode = [f \in File |-> NULL]
  /\ finfo = [f \in File |-> NULL]
  /\ posn = [f \in File |-> 0]
  /\ umask = [p \in Procs |-> {}]

ofile == <<finode, finfo, posn>>

(***************************************************************************)
(* file_open() of a path.  When an open function fails there is no heap to *)
(* speak of afterwards: see OpenFails in module Files.                     *)
(***************************************************************************)
Opened(p, done) ==
  LET f == Lowest(FreeFiles) IN
  \/ /\ done.err # "ok" /\ OpenFails
     /\ UNCHANGED <<buf, ofile>>
  \/ /\ done.err = "ok" /\ OpenNoFd(p)
     /\ buf' = CloseFile(done.h, done.node, done.info)
     /\ UNCHANGED ofile
  \/ /\ done.err = "ok" /\ OpenSucceeds(p)
     /\ buf' = done.h
     /\ finode' = [finode EXCEPT ![f] = done.node]
     /\ finfo' = [finfo EXCEPT ![f] = done.info]
     /\ posn' = [posn EXCEPT ![f] = 0]

FileOpen(p, path, req, card) ==
  /\ ~crashed
  /\ \E found \in {inode_lookup(path, req, card)} :
       \/ /\ found.err # "ok" /\ OpenNotFound
          /\ buf' = found.h /\ UNCHANGED ofile
       \/ /\ found.err = "ok" /\ OpenNoFile
          /\ buf' = inode_deref(found.h, found.node) /\ UNCHANGED ofile
       \/ /\ found.err = "ok" /\ FreeFiles # {}
          /\ \E done \in {OpenInode(found.h, found.node, works) : works \in BOOLEAN} :
               Opened(p, done)
  /\ UNCHANGED umask

\* sys_open() passes on the permissions, but no type.
OpenRequest(p, creat, acc, perm) ==
  Request(creat, acc, "none", (perm \ umask[p]) \cap All)

sys_open(p, path, creat, acc, perm, card) ==
  FileOpen(p, path, OpenRequest(p, creat, acc, perm), card)

sys_opendir(p, path, card) == FileOpen(p, path, Request("no", {"r"}, "dir", {}), card)

\* The file f is closed when its last descriptor has gone.  What is left in
\* the entry of a file that is not open is never read: file_new() clears it.
Closes(f) ==
  IF f \in opened \ opened'
  THEN /\ buf' = CloseFile(buf, finode[f], finfo[f])
       /\ finode' = [finode EXCEPT ![f] = NULL]
       /\ finfo' = [finfo EXCEPT ![f] = NULL]
       /\ posn' = [posn EXCEPT ![f] = 0]
  ELSE UNCHANGED <<buf, ofile>>

VfsClose(p, d) ==
  /\ sys_close(p, d)
  /\ Closes(fd[<<p, d>>])
  /\ UNCHANGED umask

VfsDup2(p, d, e) ==
  /\ sys_dup2(p, d, e)
  /\ Closes(fd[<<p, e>>])
  /\ UNCHANGED umask

VfsDup(p, d, from) ==
  /\ sys_dup_scan(p, d, from)
  /\ UNCHANGED <<buf, ofile, umask>>

(***************************************************************************)
(* sys_read() of up to n entries of a directory of the RAM filesystem:     *)
(* ramfs_dir_read() counts in posn the entries it has returned.            *)
(***************************************************************************)
RamDirectory(f) == finode[f] # NULL /\ buf[finode[f]].op = "ram"

ramfs_dir_read(p, d, n) ==
  LET f == fd[<<p, d>>]
      left == Len(buf[finode[f]].dir) - posn[f] IN
  /\ SysTransfer(p, d)
  /\ RamDirectory(f) /\ ret' = "ok"
  /\ posn' = [posn EXCEPT ![f] = @ + (IF n <= left THEN n ELSE left)]
  /\ UNCHANGED <<buf, finode, finfo, umask>>

\* sys_read() and sys_write() of a device or of a directory of the card, or a
\* transfer that fails.
OtherTransfer(p, d) ==
  /\ SysTransfer(p, d)
  /\ RamDirectory(fd[<<p, d>>]) => ret' = "error"
  /\ UNCHANGED <<buf, ofile, umask>>

-----------------------------------------------------------------------------
(***************************************************************************)
(* The calls of os/dir.c and os/mount.c.                                   *)
(***************************************************************************)
sys_chdir(path, card) ==
  /\ ~crashed
  /\ \E found \in {inode_lookup(path, Request("no", {"x"}, "dir", {}), card)} :
       Reports(Outcome(found)) /\ buf' = Dropped(found)
  /\ UNCHANGED <<ofile, umask>>

MkdirMode(p, perm) == (perm \ umask[p]) \cap All

sys_mkdir(p, path, perm, card) ==
  /\ ~crashed
  /\ \E found \in {inode_lookup(path, Request("excl", {"r"}, "dir", MkdirMode(p, perm)), card)} :
       Reports(Outcome(found)) /\ buf' = Dropped(found)
  /\ UNCHANGED <<ofile, umask>>

sys_mknod(p, path, type, perm, card) ==
  /\ ~crashed
  /\ IF type \in {"chr", "blk"} /\ "t" \notin perm
     THEN \E found \in {inode_lookup(path, Request("excl", {"r"}, type, perm \ umask[p]), card)} :
            Reports(Outcome(found)) /\ buf' = Dropped(found)
     ELSE Reports("error") /\ UNCHANGED buf
  /\ UNCHANGED <<ofile, umask>>

fatfs_mount_sd(h, dir) ==
  LET made == fatfs_create_inode(h, "dir") IN
  IF made.err # "ok" THEN made
  ELSE [made EXCEPT !.h = [@ EXCEPT ![dir].perm = @ \cup {"t"}, ![dir].mount = made.node]]

MountOn(h, dir, remount) ==
  CASE h[dir].op # "ram" -> Fails(h, "EINVAL")
    [] h[dir].op = "ram" /\ Vtx(h, dir) -> IF remount THEN Finds(h, dir) ELSE Fails(h, "EBUSY")
    [] OTHER -> fatfs_mount_sd(h, dir)

\* The arguments of sys_mount() are refused, or there is no target: then the
\* call only tests whether it knows the source and the filesystem type.
MountProbe(valid) ==
  /\ ~crashed
  /\ Reports(IF valid THEN "ok" ELSE "error")
  /\ UNCHANGED <<buf, ofile, umask>>

sys_mount(path, remount, card) ==
  /\ ~crashed
  /\ \E found \in {inode_lookup(path, Request("no", {"x"}, "dir", {}), card)} :
       \/ /\ found.err # "ok" /\ Reports("error")
          /\ buf' = found.h
       \/ /\ found.err = "ok"
          /\ \E done \in {MountOn(found.h, found.node, remount)} :
               Reports(Outcome(done)) /\ buf' = inode_deref(done.h, found.node)
  /\ UNCHANGED <<ofile, umask>>

sys_umask(p, mask) ==
  /\ ~crashed
  /\ Reports("ok")
  /\ umask' = [umask EXCEPT ![p] = mask \cap All]
  /\ UNCHANGED <<buf, ofile>>

\* What the card may answer for the components of a path.  It is not asked
\* as long as nothing is mounted, nor for the first component unless on the
\* root, nor for a name that is too long, nor after one that is no directory.
Cards(path) ==
  LET first == IF Vtx(buf, Root) THEN 1 ELSE 2 IN
  IF \E b \in Buf : buf[b].kind = "inode" /\ buf[b].mount # NULL
  THEN {card \in [1..Len(path) -> Answers] :
          /\ \A k \in 1..Len(path) : k < first \/ path[k] \in LongNames => card[k] = "ENOENT"
          /\ \A j, k \in first..Len(path) : j < k /\ card[j] # "dir" => card[k] = "ENOENT"}
  ELSE {[k \in 1..Len(path) |-> "ENOENT"]}

\* Nodes made by open() have all permissions here: no call ever gets at them.
VfsNext ==
  \/ Crashed /\ UNCHANGED <<buf, ofile, umask>>
  \/ BadFd /\ UNCHANGED <<buf, ofile, umask>>
  \/ \E valid \in BOOLEAN : MountProbe(valid)
  \/ \E path \in Paths : \E card \in Cards(path) :
       \/ sys_chdir(path, card)
       \/ \E remount \in BOOLEAN : sys_mount(path, remount, card)
       \/ \E p \in Procs :
            \/ sys_opendir(p, path, card)
            \/ \E creat \in {"no", "create", "excl"}, acc \in Accs :
                 sys_open(p, path, creat, acc, All, card)
            \/ \E perm \in Perms :
                 \/ sys_mkdir(p, path, perm, card)
                 \/ \E type \in Types : sys_mknod(p, path, type, perm, card)
  \/ \E p \in Procs :
       \/ \E mask \in Masks : sys_umask(p, mask)
       \/ \E d \in Fd :
            \/ VfsClose(p, d) \/ OtherTransfer(p, d)
            \/ \E n \in 1..2 : ramfs_dir_read(p, d, n)
            \/ \E e \in Fd : VfsDup(p, d, e) \/ VfsDup2(p, d, e)

VfsSpec == VfsInit /\ [][VfsNext]_vars

-----------------------------------------------------------------------------
Kind(k) == {b \in Buf : buf[b].kind = k}
Inodes == Kind("inode")

(***************************************************************************)
(* The count of an inode is the number of references there are: one for    *)
(* each directory entry, each open file and each mount point, and the      *)
(* three that the root has for itself.  No path walk keeps or loses one,   *)
(* wherever it gives up, and no inode is freed while it is in use.         *)
(* (inode_lookup, file_open, sys_mkdir, sys_mknod, sys_mount, ramfs_open,  *)
(* ramfs_mknod, inode_deref)                                               *)
(***************************************************************************)
InodeCounts ==
  \A i \in Inodes :
    buf[i].count = Cardinality({b \in Kind("dirent") : buf[b].inode = i})
                 + Cardinality({f \in File : finode[f] = i})
                 + Cardinality({j \in Inodes : buf[j].mount = i})
                 + (IF i = Root THEN 3 ELSE 0)

(***************************************************************************)
(* No buffer leaks and none has two owners: a directory entry is in one    *)
(* place of one directory, an information block belongs to one inode or    *)
(* one open file.  Buffers cannot be freed twice then, and those that are  *)
(* not free can be freed.  (kmalloc_buf_free in ramfs_release,             *)
(* fatfs_release, fatfs_close, and the error paths)                        *)
(***************************************************************************)
BuffersHaveOneOwner ==
  /\ \A b \in Kind("dirent") :
       Cardinality({<<i, k>> \in Inodes \X Buf : k \in DOMAIN buf[i].dir /\ buf[i].dir[k] = b}) = 1
  /\ \A b \in Kind("info") :
       Cardinality({i \in Inodes : buf[i].info = b}) + Cardinality({f \in File : finfo[f] = b}) = 1

(***************************************************************************)
(* The tree of names: the inodes of the RAM filesystem and their entries,  *)
(* without counts, buffers and permissions.  open() makes nodes of no      *)
(* type.                                                                   *)
(***************************************************************************)
NameTree ==
  [i \in {b \in Buf : buf[b].kind = "inode" /\ buf[b].op = "ram"} |->
     [type |-> buf[i].type, mounted |-> Vtx(buf, i),
      dir |-> [k \in DOMAIN buf[i].dir |->
                 <<buf[buf[i].dir[k]].name, buf[buf[i].dir[k]].inode>>]]]

NameSpace == INSTANCE Tree
               WITH tree <- NameTree, Nodes <- Buf, Types <- Types \cup {"dir", "none"}

(***************************************************************************)
(* The calls keep the promises of module Tree: whatever is opened, closed, *)
(* refused for want of memory or stopped half way, a directory only ever   *)
(* gets one more name, at its end and one that it does not have, or        *)
(* becomes a mount point, which S_ISVTX marks whatever modes callers ask   *)
(* for.  (inode_lookup, ramfs_lookup, ramfs_mknod, sys_mkdir, sys_mknod,   *)
(* fatfs_mount_sd)                                                         *)
(***************************************************************************)
ImplementsTree == NameSpace!Spec

(***************************************************************************)
(* Reading a directory returns every entry once: as long as it is open the *)
(* entries already counted by posn stay where they are, although           *)
(* ramfs_dir_read() seeks from the beginning every time.  (ramfs_dir_read, *)
(* ramfs_mknod)                                                            *)
(***************************************************************************)
PositionsKeepTheirEntries ==
  [][\A f \in File :
       RamDirectory(f) /\ finode'[f] = finode[f] /\ posn'[f] >= posn[f] =>
         /\ posn'[f] <= Len(buf'[finode[f]].dir)
         /\ \A k \in 1..posn[f] : buf'[finode[f]].dir[k] = buf[finode[f]].dir[k]]_vars

-----------------------------------------------------------------------------
(***************************************************************************)
(* os/fs/ram/ramfs.c: with S_ISVTX "this is actually a mount point and we  *)
(* need to pass the lookup request onto the mounted filesystem", and       *)
(* os/inode.c refuses to create nodes where the "Filesystem is read-only". *)
(* So nothing is created in a directory that the FAT filesystem, which is  *)
(* read-only, is mounted on.                                               *)
(***************************************************************************)
NothingCreatedUnderMount ==
  [][\A i \in Inodes : Vtx(buf, i) => buf'[i].dir = buf[i].dir]_vars

(***************************************************************************)
(* include/mosnix/file.h on the mode argument of file_open(): "including   *)
(* the file type; such as S_IFREG or S_IFDIR".  With it, open() finds a    *)
(* device in the root directory that grants the access asked for.          *)
(***************************************************************************)
OpenFindsDevices ==
  ~Vtx(buf, Root) =>
    \A k \in DOMAIN buf[Root].dir, p \in Procs, acc \in Accs :
      LET entry == buf[buf[Root].dir[k]] IN
      buf[entry.inode].type = "chr" /\ acc \subseteq buf[entry.inode].perm =>
        inode_lookup(<<entry.name>>, OpenRequest(p, "no", acc, {}), <<"ENOENT">>).err = "ok"
=============================================================================
