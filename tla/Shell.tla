------------------------------- MODULE Shell -------------------------------
(***************************************************************************)
(* The shell on the SD card: init() and the main loop of shell/main.c,     *)
(* make_rootfs() of shell/rootfs.c, the table of shell/mount.c, and the    *)
(* commands ls and uname of shell/ls.c and shell/uname.c, with getopt() of *)
(* module Getopt, the cursors of FatCursor and the card of SdCard.         *)
(*                                                                         *)
(* The kernel is seen through the results of system calls.  What they do   *)
(* to buffers is counted: a node of the RAM filesystem takes two, a mount  *)
(* two, and an open directory of the card one; module Vfs has the rest.    *)
(* One step per system call or turn of a loop.  Cards are exchanged at any *)
(* time.  Words of a command are sequences of letters, "L" stands for ls,  *)
(* "U" for uname, "d" for /mnt/sd, "r" for a directory of the RAM          *)
(* filesystem; all other words name nothing.                               *)
(***************************************************************************)
EXTENDS SdCard, FatCursor, Getopt

CONSTANTS
  HaveSd,      \* fatfs_have_sd()
  BufferSizes, \* sizes of the buffer cache, CONFIG_NUM_BUFFERS
  Boot,        \* the boot block of every card
  PartSize,    \* the size of its partition
  RootDir,     \* the root directory of every card: an entry in each place
  Dotted,      \* names that begin with a "."
  Lines,       \* the lines that are typed, as words
  MOUNT_MAX    \* size of the table of mount points

ASSUME ShellAssumption ==
  /\ HaveSd \in BOOLEAN /\ BufferSizes \subseteq Nat \ {0}
  /\ Boot \in [Cards -> BootBlock] /\ PartSize \in [Cards -> Word]
  /\ RootDir \in [Cards -> Seq(STRING)] /\ Dotted \subseteq STRING
  /\ \A l \in Lines : Len(l) > 0

VARIABLES
  pc,
  made,     \* nodes of the root filesystem that exist
  buffers,  \* size of the buffer cache
  free,     \* buffers that are free
  umask,
  mounted,  \* the card's filesystem is mounted on /mnt/sd
  mounts,   \* mount points in the table of the shell
  options,  \* letters of the options of the command
  cur,      \* cursor of the open directory, NULL if none is
  from,     \* the card that was there when it was opened
  shown,    \* names printed from it
  errno,
  unread    \* something was read from it that the card never sent

shellVars == <<made, buffers, umask, mounted, mounts>>
lsVars == <<options, cur, free, from, shown, errno, unread>>
getoptVars == <<words, st>>
allVars == <<sdVars, pc, shellVars, lsVars, getoptVars>>

-----------------------------------------------------------------------------
(***************************************************************************)
(* The root filesystem, in the order make_rootfs() creates it.  A node is  *)
(* made if the directory above it is there and two buffers are free.       *)
(***************************************************************************)
Top(name) == <<name>>

Skeleton ==
  <<Top("bin"), Top("dev"), <<"dev", "console">>, <<"dev", "full">>, <<"dev", "mmcblk0">>,
    <<"dev", "null">>, <<"dev", "tty">>, <<"dev", "tty0">>, <<"dev", "zero">>, Top("etc"),
    Top("home"), Top("mnt"), <<"mnt", "other">>, <<"mnt", "sd">>, Top("root"), Top("tmp"),
    Top("usr"), Top("var")>>

Exists(path) == path = <<>> \/ \E i \in 1..made : Skeleton[i] = path
CanMake(path) == Exists(SubSeq(path, 1, Len(path) - 1)) /\ ~Exists(path) /\ free >= 2

ShellInit ==
  /\ Init
  /\ pc = "rootfs"
  /\ made = 0 /\ buffers \in BufferSizes /\ free = buffers - 1
  /\ umask = "000" /\ mounted = FALSE /\ mounts = <<>>
  /\ options = {} /\ cur = NULL /\ from = NULL /\ shown = <<>> /\ errno = "none"
  /\ unread = FALSE
  /\ words = <<>> /\ GetoptInit

\* One call of make_rootfs().
MakeNode ==
  /\ pc = "rootfs" /\ made < Len(Skeleton)
  /\ IF CanMake(Skeleton[made + 1])
     THEN made' = made + 1 /\ free' = free - 2 /\ UNCHANGED pc
     ELSE pc' = "mount" /\ UNCHANGED <<made, free>>
  /\ UNCHANGED <<sdVars, buffers, umask, mounted, mounts, options, cur, from, shown, errno,
                 unread, getoptVars>>

add_fstab(mountpoint) ==
  mounts' = IF Len(mounts) < MOUNT_MAX THEN Append(mounts, mountpoint) ELSE mounts

MadeRootfs ==
  /\ pc = "rootfs" /\ made = Len(Skeleton)
  /\ add_fstab("/") /\ pc' = "mount"
  /\ UNCHANGED <<sdVars, made, buffers, umask, mounted, lsVars, getoptVars>>

\* mount() fails: there is no card interface, no directory to mount on, or no
\* memory.
NoMount ==
  /\ ~HaveSd \/ ~Exists(<<"mnt", "sd">>) \/ free < 2
  /\ UNCHANGED <<sdVars, mounted, mounts, free>>

\* Slip: the mount point is entered only if there is a card.
MountsIfCard ==
  /\ HaveSd /\ Exists(<<"mnt", "sd">>) /\ free >= 2
  /\ sd_detect
  /\ mounted' = TRUE /\ free' = free - 2
  /\ IF ret' = "none" THEN UNCHANGED mounts ELSE add_fstab("/mnt/sd")

\* The card's filesystem is mounted, also if there is no card.
Mounts ==
  /\ HaveSd /\ Exists(<<"mnt", "sd">>) /\ free >= 2
  /\ sd_detect
  /\ mounted' = TRUE /\ free' = free - 2
  /\ add_fstab("/mnt/sd")

MountCard ==
  /\ pc = "mount"
  /\ NoMount \/ Mounts
  /\ umask' = "022" /\ pc' = "prompt"
  /\ UNCHANGED <<made, buffers, options, cur, from, shown, errno, unread, getoptVars>>

-----------------------------------------------------------------------------
(***************************************************************************)
(* A line: cmd_exec() resets getopt() and calls the command, ls or uname.  *)
(* The other commands take no options; only what they do to the card       *)
(* matters.                                                                *)
(***************************************************************************)
Command(line) == IF Head(line) = <<"L">> THEN "ls" ELSE "uname"

ReadLine(line) ==
  /\ pc = "prompt"
  /\ words' = line /\ st' = [st EXCEPT !.optind = 0]
  /\ pc' = Command(line)
  /\ UNCHANGED <<sdVars, shellVars, lsVars>>

\* cd and the like look up names below /mnt/sd.
OtherCommand ==
  /\ pc = "prompt" /\ mounted
  /\ sd_detect \/ \E b \in Blocks : sd_cache_read(b)
  /\ UNCHANGED <<pc, shellVars, lsVars, getoptVars>>

LsFlags == {"l", "a", "F"}
UnameFlags == {"a", "s", "n", "r", "v", "m"}
Flags(command) == IF command = "ls" THEN LsFlags ELSE UnameFlags

\* One turn of the loop over the options.
ParseOption(command, then) ==
  /\ pc = command
  /\ \E r \in getopt(Flags(command), {}) :
       /\ st' = r.st
       /\ \/ r.opt = "?" /\ pc' = "refused" /\ UNCHANGED options
          \/ r.opt = "end" /\ pc' = then /\ UNCHANGED options
          \/ r.opt \notin {"?", "end"} /\ options' = options \cup {r.opt} /\ UNCHANGED pc
  /\ UNCHANGED <<sdVars, shellVars, cur, free, from, shown, errno, unread, words>>

LsOption == ParseOption("ls", "operands")
UnameOption == ParseOption("uname", "print")

\* A command returns: its arguments and options go with it, the variables of
\* getopt() stay.
Return ==
  /\ pc' = "prompt"
  /\ words' = <<>> /\ options' = {}
  /\ UNCHANGED <<sdVars, shellVars, cur, free, from, shown, errno, unread, st>>

UsageReturns == pc = "refused" /\ Return
UnameReturns == pc = "print" /\ Return
LsReturns    == pc = "next" /\ st.optind >= argc /\ Return

-----------------------------------------------------------------------------
(***************************************************************************)
(* list(): the operands one after the other, or "." if there are none.     *)
(* The working directory may be any.                                       *)
(***************************************************************************)
Operand == IF st.optind < argc THEN words[st.optind + 1] ELSE <<".">>

Targets(word) ==
  CASE word = <<"d">> -> {IF mounted THEN "card"
                          ELSE IF Exists(<<"mnt", "sd">>) THEN "ram" ELSE "missing"}
    [] word = <<"r">> -> {"ram"}
    [] word = <<".">> -> {"ram"} \cup (IF mounted THEN {"card"} ELSE {})
    [] OTHER -> {"missing"}

Listing == pc = "operands" \/ (pc = "next" /\ st.optind < argc)
NextOperand == st' = [st EXCEPT !.optind = IF @ < argc THEN @ + 1 ELSE @]

\* A directory of the RAM filesystem is listed, or there is an error message.
ListOther ==
  /\ Listing /\ Targets(Operand) \ {"card"} # {}
  /\ NextOperand /\ pc' = "next"
  /\ UNCHANGED <<sdVars, shellVars, lsVars, words>>

SdInfoOf(c) == SdInfo(Boot[c], PartitionStart[c], PartSize[c])
RootCursor(c) == fatfs_info_new(SdInfoOf(c), Boot[c].root)

ASSUME RootAssumption ==
  /\ Blocks \subseteq Nat
  /\ \A c \in Cards \ Unsupported : RootCursor(c).block \in Blocks
  /\ NULL \notin [cluster : Nat, block : Nat, offset : Nat, left : Nat]

\* fatfs_open() of the root directory, after the detection.
fatfs_open == ret' # "none" /\ free > 0 /\ RootCursor(geometry').block # 0

OpenSucceeds ==
  /\ pc' = "read" /\ free' = free - 1
  /\ cur' = RootCursor(geometry') /\ from' = card
  /\ shown' = <<>> /\ errno' = "none" /\ unread' = FALSE

\* file_deref() calls the close operation of a file that has none: the kernel
\* is lost.
OpenCrashes ==
  /\ pc' = "crashed"
  /\ UNCHANGED <<free, cur, from, shown, errno, unread>>

OpenCard ==
  /\ Listing /\ "card" \in Targets(Operand)
  /\ sd_detect
  /\ IF fatfs_open THEN OpenSucceeds ELSE OpenCrashes
  /\ UNCHANGED <<shellVars, options, getoptVars>>

\* What can be in a place of the directory, read from the block of memory b:
\* without a transfer that is anything.
Anything == {"end", "deleted", "noise"}
EntryIn(b, k) ==
  IF b # Noise /\ b[2] = RootCursor(b[1]).block THEN {RootDir[b[1]][k]} ELSE Anything

Hidden(name) == name \in Dotted /\ "a" \notin options

\* Slip: errno is cleared before it is looked at.
ErrorLost(res) ==
  /\ pc' = "close" /\ errno' = "none"
  /\ UNCHANGED shown

\* An error or the end of the directory ends the loop, and errno tells them
\* apart.
EndOfLoop(res) ==
  /\ pc' = "close" /\ errno' = res
  /\ UNCHANGED shown

\* The entry is passed over by the kernel or by ls, or is printed.
PassEntry(e) ==
  /\ shown' = IF e = "deleted" \/ Hidden(e) THEN shown ELSE Append(shown, e)
  /\ errno' = "none"
  /\ UNCHANGED pc

\* One entry of fatfs_dir_read(), which read() asks for one.  A directory is
\* never read behind its first block: see module FatDir.
ReadEntry ==
  /\ pc = "read"
  /\ sd_cache_read(cur.block)
  /\ \E r \in {fatfs_info_read_dirent(SdInfoOf(geometry), cur, ret' = "ready")} :
       /\ cur' = r.cur
       /\ \/ r.res \in {"EIO", "EINVAL"} /\ EndOfLoop(r.res) /\ UNCHANGED unread
          \/ /\ r.res = "entry"
             /\ unread' = (unread \/ block' = Noise)
             /\ \E e \in EntryIn(block', r.at.offset + 1) :
                  IF e = "end" THEN EndOfLoop("none") ELSE PassEntry(e)
  /\ UNCHANGED <<shellVars, options, free, from, getoptVars>>

\* Slip: a directory that could not be read to its end stays open.
LeavesOpen ==
  /\ pc = "close"
  /\ IF errno = "none" THEN cur' = NULL /\ free' = free + 1 ELSE UNCHANGED <<cur, free>>
  /\ from' = NULL /\ shown' = <<>> /\ errno' = "none" /\ unread' = FALSE
  /\ NextOperand /\ pc' = "next"
  /\ UNCHANGED <<sdVars, shellVars, options, words>>

\* An error is printed; the directory is closed in any case.
CloseDir ==
  /\ pc = "close"
  /\ cur' = NULL /\ free' = free + 1
  /\ from' = NULL /\ shown' = <<>> /\ errno' = "none" /\ unread' = FALSE
  /\ NextOperand /\ pc' = "next"
  /\ UNCHANGED <<sdVars, shellVars, options, words>>

-----------------------------------------------------------------------------
Exchange == (InsertCard \/ RemoveCard) /\ UNCHANGED <<pc, shellVars, lsVars, getoptVars>>

Step ==
  \/ MakeNode \/ MadeRootfs \/ MountCard
  \/ LsOption \/ UnameOption
  \/ ListOther \/ OpenCard \/ ReadEntry \/ CloseDir
  \/ UsageReturns \/ UnameReturns \/ LsReturns

ShellNext == Exchange \/ Step \/ OtherCommand \/ \E line \in Lines : ReadLine(line)

\* The shell is the only process and goes on until it waits for a line.
ShellSpec == ShellInit /\ [][ShellNext]_allVars /\ WF_allVars(Step)

-----------------------------------------------------------------------------
\* What ls has to show of a directory: the files in front of the end mark,
\* with the dotted ones if the letter "a" was among the options typed.
Kept(e) == e # "deleted" /\ (e \in Dotted => "a" \in Letters)
BeforeEnd(d) == {k \in 1..Len(d) : \A j \in 1..k : d[j] # "end"}
ToShow(d) == SelectSeq(SubSeq(d, 1, Cardinality(BeforeEnd(d))), Kept)

(***************************************************************************)
(* ls shows one card: what it prints are the files of the card that was in *)
(* the slot when it opened the directory, in their order, whatever card is *)
(* there when they are read, and if it prints no error then it has printed *)
(* all of them.  This holds for what the card did send.  (list in          *)
(* shell/ls.c, fatfs_open, fatfs_dir_read, sd_cache_read)                  *)
(***************************************************************************)
ListingIsHonest ==
  pc \in {"read", "close"} /\ ~unread =>
    /\ shown = SubSeq(ToShow(RootDir[from]), 1, Len(shown))
    /\ pc = "close" /\ errno = "none" => shown = ToShow(RootDir[from])

(***************************************************************************)
(* Every command finds the options and the operands of its own line, and   *)
(* is refused for an option of its own, although getopt() keeps its place  *)
(* in static variables and commands return in the middle of a word.        *)
(* (getopt, cmd_exec, cmd_ls, cmd_uname)                                   *)
(***************************************************************************)
OptionsAsTyped ==
  LET flags == Flags(Command(words)) IN
  /\ pc = "refused" => OptionsRefused(flags)
  /\ pc \in {"operands", "print"} =>
       ~OptionsRefused(flags) /\ options = Letters /\ st.optind = Operands

(***************************************************************************)
(* A command leaves nothing open, however the card failed under it: at the *)
(* prompt all buffers are free but those of the filesystem.  (list in      *)
(* shell/ls.c, fatfs_open, fatfs_close)                                    *)
(***************************************************************************)
NothingLeftOpen ==
  pc = "prompt" =>
    /\ cur = NULL
    /\ free = buffers - 1 - 2 * made - (IF mounted THEN 2 ELSE 0)

(***************************************************************************)
(* The shell lists no mount that is not there, wherever init() ran out of  *)
(* memory.  If the root filesystem is complete it lists all of them, and   *)
(* with enough memory it is complete and the card is mounted.  (init in    *)
(* shell/main.c, make_rootfs, add_fstab, fatfs_mount_sd)                   *)
(***************************************************************************)
Listed == {mounts[i] : i \in 1..Len(mounts)}
Active == {"/"} \cup (IF mounted THEN {"/mnt/sd"} ELSE {})
InitDone == pc \notin {"rootfs", "mount"}

MountsAreTrue ==
  InitDone =>
    /\ Listed \subseteq Active
    /\ made = Len(Skeleton) => Active \subseteq Listed
    /\ mounted => Exists(<<"mnt", "sd">>)
    /\ buffers > 2 * Len(Skeleton) + 2 => made = Len(Skeleton) /\ (HaveSd => mounted)

(***************************************************************************)
(* The shell always gets back to its prompt, from init() and from every    *)
(* command, also if the directory it reads has no end mark, unless opening *)
(* a directory has lost the kernel.  (main in shell/main.c, list, getopt)  *)
(***************************************************************************)
PromptReturns == (pc # "prompt") ~> (pc \in {"prompt", "crashed"})

-----------------------------------------------------------------------------
\* "mount" lists all active mount points, as doc/shell.md has it.  The RAM
\* filesystem is there from the start, but init() does not enter it if
\* make_rootfs() fails.
AllMountsListed == InitDone => Listed = Active
=============================================================================
