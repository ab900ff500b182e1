----------------------------- MODULE ShellProofs -----------------------------
(***************************************************************************)
(* The shell and the SD card driver together, for any cards, lines and     *)
(* number of buffers: the shell uses the driver only as SdCard describes,  *)
(* so that what SdCardProofs shows of it holds here, and no command leaves *)
(* a directory open.                                                       *)
(***************************************************************************)
EXTENDS Shell, SdCardProofs, VolumeProofs

(***************************************************************************)
(* The buffers add up, a directory is open only while it is listed, and    *)
(* its cursor is at a block that the card has.                             *)
(***************************************************************************)
InUse == 2 * made + (IF mounted THEN 2 ELSE 0) + (IF cur = NULL THEN 0 ELSE 1)

BufferInv ==
  /\ made \in Nat /\ buffers \in Nat /\ free \in Int /\ mounted \in BOOLEAN
  /\ free = buffers - 1 - InUse
  /\ pc \in {"rootfs", "mount"} => ~mounted

CursorInv ==
  /\ pc \notin {"read", "close"} => cur = NULL
  /\ pc \in {"read", "close"} => InBlock(cur) /\ cur.block \in Blocks

ShInv == IInv /\ BufferInv /\ CursorInv

-----------------------------------------------------------------------------
\* A cursor is not the null pointer.
LEMMA CursorNotNull == ASSUME NEW c, InBlock(c) PROVE c # NULL
<1>1. c \in [cluster : Nat, block : Nat \ {0}, offset : Nat, left : Nat]
  BY DEF InBlock
<1>2. c \in [cluster : Nat, block : Nat, offset : Nat, left : Nat]
  BY <1>1
<1> QED BY <1>2, RootAssumption

\* What the driver reports as detected is a card with a volume.
LEMMA DetectedCard ==
  ASSUME IInv, sd_detect, ret' # "none"
  PROVE  geometry' \in Cards \ Unsupported
<1>1. CASE DetectExisting
  BY <1>1 DEF DetectExisting, IInv, GeometryOfTheCard
<1>2. CASE DetectNew
  BY <1>2 DEF DetectNew, IInv, TypeOK
<1>3. ~DetectNoCard /\ ~DetectNoData /\ ~DetectNoSize /\ ~DetectNoBoot /\ ~DetectNoVolume
  BY DEF DetectNoCard, DetectNoData, DetectNoSize, DetectNoBoot, DetectNoVolume, DetectFails
<1> QED BY <1>1, <1>2, <1>3 DEF sd_detect, DetectFull

\* The cursor of a root directory that fatfs_open() accepts.
LEMMA RootCursorInBlock ==
  ASSUME NEW c \in Cards \ Unsupported, RootCursor(c).block # 0
  PROVE  InBlock(RootCursor(c)) /\ RootCursor(c).block \in Blocks
<1> DEFINE v == SdInfoOf(c)
           block0 == sd_cluster_to_block(v, Boot[c].root)
<1>1. RootCursor(c) = [cluster |-> Boot[c].root, block |-> block0, offset |-> 0,
                       left |-> v.cluster_size % BLOCKS_LEFT]
  BY DEF RootCursor, fatfs_info_new
<1>2. Boot[c] \in BootBlock /\ PartSize[c] \in Word
  BY ShellAssumption
<1>3. Boot[c].root \in Nat
  BY <1>2, WordAssumption DEF BootBlock, Word
<1>4. v.cluster_size \in Nat
  BY <1>2 DEF SdInfoOf, SdInfo, BootBlock, ClusterSizes
<1>5. v.cluster_size % BLOCKS_LEFT \in Nat
  BY <1>4, FatCursorAssumption
<1> HIDE DEF v, block0
<1>0. RootCursor(c).block = block0
  BY <1>1
<1>6. block0 \in Nat \ {0} /\ block0 \in Blocks
  <2>1. RootCursor(c).block \in Blocks /\ Blocks \subseteq Nat
    BY RootAssumption
  <2> QED BY <1>0, <2>1, Zenon
<1> QED BY <1>1, <1>3, <1>5, <1>6, FatCursorAssumption DEF InBlock

\* A step of the driver keeps its invariant.
LEMMA DriverStep == IInv /\ [Next]_sdVars => IInv'
<1>1. IInv /\ UNCHANGED sdVars => IInv'
  BY DEF IInv, TypeOK, GeometryOfTheCard, CacheOfTheCard, sdVars
<1>2. IInv /\ Next => IInv'
  BY SlotStep, DetectStep, CacheStep DEF Next
<1> QED BY <1>1, <1>2

\* The driver makes a step or none.
LEMMA CardStep == ShInv /\ ShellNext => [Next]_sdVars
<1> SUFFICES ASSUME ShInv, ShellNext PROVE [Next]_sdVars
  OBVIOUS
<1>1. CASE Exchange
  BY <1>1, Zenon DEF Exchange, Next
<1>2. CASE OtherCommand
  BY <1>2 DEF OtherCommand, Next
<1>3. CASE \E line \in Lines : ReadLine(line)
  BY <1>3 DEF ReadLine
<1>4. CASE MountCard
  BY <1>4 DEF MountCard, NoMount, Mounts, Next
<1>5. CASE OpenCard
  BY <1>5 DEF OpenCard, Next
<1>6. CASE ReadEntry
  <2>1. sd_cache_read(cur.block) /\ cur.block \in Blocks
    BY <1>6 DEF ReadEntry, ShInv, CursorInv
  <2> QED BY <2>1 DEF Next
<1>7. CASE MakeNode \/ MadeRootfs \/ LsOption \/ UnameOption \/ ListOther \/ CloseDir
           \/ UsageReturns \/ UnameReturns \/ LsReturns
  BY <1>7 DEF MakeNode, MadeRootfs, LsOption, UnameOption, ParseOption, ListOther, CloseDir,
              UsageReturns, UnameReturns, LsReturns, Return
<1> QED BY <1>1, <1>2, <1>3, <1>4, <1>5, <1>6, <1>7 DEF ShellNext, Step

-----------------------------------------------------------------------------
\* Nothing is open and no filesystem made when the shell starts.
LEMMA InitShInv == ShellInit => ShInv
<1> SUFFICES ASSUME ShellInit PROVE ShInv
  OBVIOUS
<1>1. IInv
  BY InitIInv DEF ShellInit
<1>2. /\ made = 0 /\ buffers \in Nat /\ free = buffers - 1 /\ mounted = FALSE
      /\ cur = NULL /\ pc = "rootfs"
  BY ShellAssumption DEF ShellInit
<1>3. BufferInv
  <2>1. (IF mounted THEN 2 ELSE 0) = 0 /\ (IF cur = NULL THEN 0 ELSE 1) = 0
    BY <1>2
  <2>2. InUse = 0
    BY <1>2, <2>1 DEF InUse
  <2>3. free \in Int /\ free = buffers - 1 - InUse /\ made \in Nat
    BY <1>2, <2>2
  <2>4. mounted \in BOOLEAN /\ ~mounted
    BY <1>2, Zenon
  <2> QED BY <1>2, <2>3, <2>4, Zenon DEF BufferInv
<1>4. CursorInv
  BY <1>2 DEF CursorInv
<1> QED BY <1>1, <1>3, <1>4 DEF ShInv

\* Steps that leave the filesystem and the open directory alone.
LEMMA QuietStep ==
  ASSUME BufferInv, CursorInv,
         UNCHANGED <<made, buffers, free, mounted, cur>>,
         pc \notin {"read", "close"} \/ pc' = pc,
         pc' \notin {"rootfs", "mount", "read", "close"} \/ pc' = pc
  PROVE  BufferInv' /\ CursorInv'
<1>1. BufferInv'
  BY DEF BufferInv, InUse
<1>2. CursorInv'
  BY DEF CursorInv, InBlock
<1> QED BY <1>1, <1>2

\* A node takes two buffers of those that are free.
LEMMA MakeNodeStep == ASSUME BufferInv, CursorInv, MakeNode PROVE BufferInv' /\ CursorInv'
<1>1. /\ cur = NULL /\ cur' = NULL /\ ~mounted /\ mounted' = mounted /\ buffers' = buffers
      /\ pc' \in {"rootfs", "mount"}
      /\ (made' = made + 1 /\ free' = free - 2) \/ (made' = made /\ free' = free)
  BY DEF MakeNode, CursorInv, BufferInv
<1>2. BufferInv'
  BY <1>1 DEF BufferInv, InUse
<1>3. CursorInv'
  BY <1>1 DEF CursorInv
<1> QED BY <1>2, <1>3

LEMMA MadeRootfsStep == ASSUME BufferInv, CursorInv, MadeRootfs PROVE BufferInv' /\ CursorInv'
<1>1. /\ cur = NULL /\ cur' = NULL /\ ~mounted /\ mounted' = mounted /\ buffers' = buffers
      /\ pc' = "mount" /\ made' = made /\ free' = free
  BY DEF MadeRootfs, CursorInv, BufferInv, lsVars
<1>2. BufferInv'
  BY <1>1 DEF BufferInv, InUse
<1>3. CursorInv'
  BY <1>1 DEF CursorInv
<1> QED BY <1>2, <1>3

\* So does the mount.
LEMMA MountStep == ASSUME BufferInv, CursorInv, MountCard PROVE BufferInv' /\ CursorInv'
<1>1. /\ cur = NULL /\ cur' = NULL /\ ~mounted /\ buffers' = buffers /\ made' = made
      /\ pc' = "prompt"
      /\ (mounted' = mounted /\ free' = free) \/ (mounted' = TRUE /\ free' = free - 2)
  BY DEF MountCard, NoMount, Mounts, CursorInv, BufferInv
<1>2. BufferInv'
  <2>1. made \in Nat /\ buffers \in Nat /\ free \in Int /\ free = buffers - 1 - 2 * made
    BY <1>1 DEF BufferInv, InUse
  <2>2. CASE mounted' = mounted /\ free' = free
    BY <1>1, <2>1, <2>2 DEF BufferInv, InUse
  <2>3. CASE mounted' = TRUE /\ free' = free - 2
    <3>1. (IF mounted' THEN 2 ELSE 0) = 2 /\ (IF cur' = NULL THEN 0 ELSE 1) = 0
      BY <1>1, <2>3
    <3>2. InUse' = 2 * made + 2
      BY <1>1, <2>1, <3>1 DEF InUse
    <3>3. free' \in Int /\ free' = buffers' - 1 - InUse' /\ made' \in Nat /\ buffers' \in Nat
      BY <1>1, <2>1, <2>3, <3>2
    <3>4. mounted' \in BOOLEAN
      BY <2>3
    <3>5. pc' \notin {"rootfs", "mount"}
      BY <1>1
    <3> QED BY <3>3, <3>4, <3>5, Zenon DEF BufferInv
  <2> QED BY <1>1, <2>2, <2>3, Zenon
<1>3. CursorInv'
  BY <1>1 DEF CursorInv
<1> QED BY <1>2, <1>3

\* Opening a directory takes one buffer.
LEMMA OpenStep == ASSUME ShInv, OpenCard PROVE BufferInv' /\ CursorInv'
<1>1. /\ pc \notin {"rootfs", "mount", "read", "close"} /\ cur = NULL
      /\ UNCHANGED <<made, buffers, mounted>>
  BY DEF OpenCard, Listing, ShInv, CursorInv, shellVars
<1>2. CASE fatfs_open
  <2>1. geometry' \in Cards \ Unsupported /\ RootCursor(geometry').block # 0
    BY <1>2, DetectedCard DEF OpenCard, fatfs_open, ShInv
  <2>2. pc' = "read" /\ free' = free - 1 /\ cur' = RootCursor(geometry')
    BY <1>2 DEF OpenCard, OpenSucceeds
  <2>3. InBlock(cur') /\ cur'.block \in Blocks
    BY <2>1, <2>2, RootCursorInBlock
  <2>4. cur' # NULL
    BY <2>3, CursorNotNull
  <2>5. BufferInv'
    BY <1>1, <2>2, <2>4 DEF ShInv, BufferInv, InUse
  <2>6. CursorInv'
    BY <2>2, <2>3 DEF CursorInv, InBlock
  <2> QED BY <2>5, <2>6
<1>3. CASE ~fatfs_open
  <2>1. pc' = "crashed" /\ free' = free /\ cur' = cur
    BY <1>3 DEF OpenCard, OpenCrashes
  <2> QED BY <1>1, <2>1, QuietStep DEF ShInv
<1> QED BY <1>2, <1>3

\* Reading an entry moves the cursor in its block.
LEMMA ReadStep == ASSUME ShInv, ReadEntry PROVE BufferInv' /\ CursorInv'
<1>1. /\ pc = "read" /\ InBlock(cur) /\ cur.block \in Blocks
      /\ UNCHANGED <<made, buffers, mounted, free>>
  BY DEF ReadEntry, ShInv, CursorInv, shellVars
<1>2. \E works \in BOOLEAN : cur' = fatfs_info_read_dirent(SdInfoOf(geometry), cur, works).cur
  BY Zenon DEF ReadEntry
<1>3. InBlock(cur') /\ cur'.block \in Blocks
  BY <1>1, <1>2, OnlyFirstBlock
<1>4. pc' \in {"read", "close"}
  BY <1>1 DEF ReadEntry, EndOfLoop, PassEntry
<1>5. cur # NULL /\ cur' # NULL
  BY <1>1, <1>3, CursorNotNull
<1>6. BufferInv'
  BY <1>1, <1>4, <1>5 DEF ShInv, BufferInv, InUse
<1>7. CursorInv'
  BY <1>3, <1>4 DEF CursorInv, InBlock
<1> QED BY <1>6, <1>7

\* Closing it gives its buffer back.
LEMMA CloseStep == ASSUME BufferInv, CursorInv, CloseDir PROVE BufferInv' /\ CursorInv'
<1>1. /\ pc' = "next" /\ cur' = NULL /\ free' = free + 1
      /\ UNCHANGED <<made, buffers, mounted>> /\ InBlock(cur)
  BY DEF CloseDir, CursorInv, shellVars
<1>2. cur # NULL
  BY <1>1, CursorNotNull
<1>3. BufferInv'
  BY <1>1, <1>2 DEF BufferInv, InUse
<1>4. CursorInv'
  BY <1>1 DEF CursorInv
<1> QED BY <1>3, <1>4

\* Every step keeps the invariant.
LEMMA ShellStep == ShInv /\ [ShellNext]_allVars => ShInv'
<1> SUFFICES ASSUME ShInv, [ShellNext]_allVars PROVE ShInv'
  OBVIOUS
<1>0. BufferInv /\ CursorInv
  BY DEF ShInv
<1>1. IInv'
  BY CardStep, DriverStep DEF ShInv, allVars
<1>2. CASE UNCHANGED allVars
  <2>1. BufferInv' /\ CursorInv'
    BY <1>0, <1>2, QuietStep DEF allVars, shellVars, lsVars
  <2> QED BY <1>1, <2>1 DEF ShInv
<1>3. CASE MakeNode
  BY <1>0, <1>1, <1>3, MakeNodeStep DEF ShInv
<1>4. CASE MadeRootfs
  BY <1>0, <1>1, <1>4, MadeRootfsStep DEF ShInv
<1>5. CASE MountCard
  BY <1>0, <1>1, <1>5, MountStep DEF ShInv
<1>6. CASE OpenCard
  BY <1>1, <1>6, OpenStep DEF ShInv
<1>7. CASE ReadEntry
  BY <1>1, <1>7, ReadStep DEF ShInv
<1>8. CASE CloseDir
  BY <1>0, <1>1, <1>8, CloseStep DEF ShInv
<1>9. CASE Exchange \/ OtherCommand \/ (\E line \in Lines : ReadLine(line)) \/ ListOther
           \/ LsOption \/ UnameOption \/ UsageReturns \/ UnameReturns \/ LsReturns
  <2>1. UNCHANGED <<made, buffers, free, mounted, cur>>
    BY <1>9 DEF Exchange, OtherCommand, ReadLine, ListOther, LsOption, UnameOption,
                ParseOption, UsageReturns, UnameReturns, LsReturns, Return, shellVars, lsVars
  <2>2. pc' = pc \/ (/\ pc \notin {"read", "close"}
                     /\ pc' \notin {"rootfs", "mount", "read", "close"})
    BY <1>9 DEF Exchange, OtherCommand, ReadLine, Command, ListOther, Listing, LsOption,
                UnameOption, ParseOption, UsageReturns, UnameReturns, LsReturns, Return
  <2>3. BufferInv' /\ CursorInv'
    BY <1>0, <2>1, <2>2, QuietStep
  <2> QED BY <1>1, <2>3 DEF ShInv
<1> QED
  BY <1>2, <1>3, <1>4, <1>5, <1>6, <1>7, <1>8, <1>9 DEF ShellNext, Step

LEMMA ShellInvariant == ShellSpec => []ShInv
<1>1. ShellInit => ShInv
  BY InitShInv
<1>2. ShInv /\ [ShellNext]_allVars => ShInv'
  BY ShellStep
<1> QED BY <1>1, <1>2, PTL DEF ShellSpec

-----------------------------------------------------------------------------
(***************************************************************************)
(* The shell uses the driver only as SdCard describes it: with the shell   *)
(* as its client, the driver and the slot behave as they do with any, and  *)
(* no command reads a block that the card does not have.  (fatfs_mount_sd, *)
(* fatfs_open, fatfs_dir_read, and list in shell/ls.c)                     *)
(***************************************************************************)
THEOREM ShellUsesDriver == ShellSpec => Spec
<1>1. ShellInit => Init
  BY DEF ShellInit
<1>2. ShInv /\ [ShellNext]_allVars => [Next]_sdVars
  BY CardStep DEF allVars
<1>3. ShellSpec => []ShInv
  BY ShellInvariant
<1> QED BY <1>1, <1>2, <1>3, PTL DEF ShellSpec, Spec

(***************************************************************************)
(* Under the shell as well, the geometry that is kept is that of the card  *)
(* in the slot as long as it is marked as detected.  (sd_detect)           *)
(***************************************************************************)
THEOREM GeometryUnderShell == ShellSpec => []GeometryOfTheCard
<1>1. ShInv => GeometryOfTheCard
  BY DEF ShInv, IInv
<1> QED BY <1>1, ShellInvariant, PTL

(***************************************************************************)
(* And the cached block is one of that card.  (sd_cache_read)              *)
(***************************************************************************)
THEOREM CacheUnderShell == ShellSpec => []CacheOfTheCard
<1>1. ShInv => CacheOfTheCard
  BY DEF ShInv, IInv
<1> QED BY <1>1, ShellInvariant, PTL

(***************************************************************************)
(* For any number of buffers, any cards and any lines: back at the prompt, *)
(* nothing is open and every buffer that the filesystem does not hold is   *)
(* free, however often cards were exchanged or failed under a command.     *)
(* (list in shell/ls.c, fatfs_open, fatfs_close)                           *)
(***************************************************************************)
THEOREM NothingIsLeftOpen == ShellSpec => []NothingLeftOpen
<1>1. ShInv => NothingLeftOpen
  <2> SUFFICES ASSUME ShInv, pc = "prompt" PROVE NothingLeftOpen
    BY DEF NothingLeftOpen
  <2>1. cur = NULL
    BY DEF ShInv, CursorInv
  <2>2. free = buffers - 1 - 2 * made - (IF mounted THEN 2 ELSE 0)
    BY <2>1 DEF ShInv, BufferInv, InUse
  <2> QED BY <2>1, <2>2 DEF NothingLeftOpen
<1> QED BY <1>1, ShellInvariant, PTL
==============================================================================
