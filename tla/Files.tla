------------------------------- MODULE Files -------------------------------
(***************************************************************************)
(* Open files and descriptor tables: os/file.c.                            *)
(*                                                                         *)
(* A file is named by its index in global_fd and a descriptor by a process *)
(* and a number.  The kernel is cooperative and no handler below blocks,   *)
(* so a system call is one step.  What the filesystem or the device does   *)
(* in its open and close functions is left to the module Vfs; here it is   *)
(* only remembered which files it has open.                                *)
(*                                                                         *)
(* FD_CLOEXEC and O_NONBLOCK are left out: they influence no other call    *)
(* modelled here.                                                          *)
(*                                                                         *)
(* A definition commented as a slip is not part of the model: it is how a  *)
(* plausible mistake would have written the definition that follows it,    *)
(* and shows that a property can fail.                                     *)
(***************************************************************************)
EXTENDS Integers, FiniteSets

CONSTANTS
  PROCS,        \* number of processes
  FD_MAX,       \* CONFIG_FD_MAX, the size of global_fd
  PROC_FD_MAX,  \* CONFIG_PROC_FD_MAX, the descriptors of a process
  NULL

Procs == 1..PROCS
File  == 1..FD_MAX
Fd    == 0..(PROC_FD_MAX - 1)
Slots == Procs \X Fd

ASSUME FilesAssumption ==
  /\ PROCS \in Nat \ {0} /\ FD_MAX \in Nat \ {0}
  /\ PROC_FD_MAX \in Nat /\ PROC_FD_MAX >= 3
  /\ NULL \notin File

VARIABLES
  fd,       \* proc.fd of every process: the file of a descriptor, or NULL
  count,    \* file.count
  opened,   \* the files that the filesystem or device has open
  crashed,  \* close was called through a null operations table
  ret       \* what the last call reported

fileVars == <<fd, count, opened, crashed, ret>>

(***************************************************************************)
(* proc_start_shell(): the console is descriptor 0, 1 and 2 of the shell.  *)
(***************************************************************************)
FilesInit ==
  /\ fd = [s \in Slots |-> IF s[1] = 1 /\ s[2] < 3 THEN 1 ELSE NULL]
  /\ count = [f \in File |-> IF f = 1 THEN 3 ELSE 0]
  /\ opened = {1}
  /\ crashed = FALSE
  /\ ret = "none"

\* The call reports r and the tables stay as they are.
Reports(r) == ret' = r /\ UNCHANGED <<fd, count, opened, crashed>>

\* Lowest number of a nonempty set.
Lowest(S) == CHOOSE n \in S : \A m \in S : n <= m

\* Free entries of global_fd, and free descriptors of p from number from up.
FreeFiles == {f \in File : count[f] = 0}

FreeFds(p, from) == {d \in Fd : d >= from /\ fd[<<p, d>>] = NULL}

(***************************************************************************)
(* file_deref(f): counts and open files afterwards.                        *)
(***************************************************************************)

\* Slip: the count is tested before it is decremented.
OpenAfterLate(c, f) == IF c[f] = 0 THEN opened \ {f} ELSE opened

OpenAfterDeref(c, f) == IF c[f] - 1 <= 0 THEN opened \ {f} ELSE opened

file_ref(c, f) == [c EXCEPT ![f] = @ + 1]

file_deref(c, f) == [c EXCEPT ![f] = @ - 1]

(***************************************************************************)
(* file_open() by p, where found says whether the path led to an inode and *)
(* works whether the open function of the inode succeeded.  When it fails, *)
(* file_deref() calls close through the null operations table that         *)
(* file_new() has set; nothing is known of the machine after that.         *)
(***************************************************************************)
OpenNotFound == Reports("error")

OpenNoFile == FreeFiles = {} /\ Reports("error")

OpenFails ==
  /\ FreeFiles # {}
  /\ crashed' = TRUE
  /\ UNCHANGED <<fd, count, opened, ret>>

OpenNoFd(p) == FreeFiles # {} /\ FreeFds(p, 0) = {} /\ Reports("error")

OpenSucceeds(p) ==
  LET f == Lowest(FreeFiles) IN
  /\ FreeFiles # {} /\ FreeFds(p, 0) # {}
  /\ fd' = [fd EXCEPT ![<<p, Lowest(FreeFds(p, 0))>>] = f]
  /\ count' = [count EXCEPT ![f] = 1]
  /\ opened' = opened \cup {f}
  /\ ret' = "ok"
  /\ UNCHANGED crashed

file_open(p, found, works) ==
  /\ ~crashed
  /\ \/ ~found /\ OpenNotFound
     \/ found /\ OpenNoFile
     \/ found /\ ~works /\ OpenFails
     \/ found /\ works /\ (OpenNoFd(p) \/ OpenSucceeds(p))

(***************************************************************************)
(* sys_close().  file_get() refuses a number outside the table.            *)
(***************************************************************************)
BadFd == ~crashed /\ Reports("error")

sys_close(p, d) ==
  LET f == fd[<<p, d>>] IN
  /\ ~crashed /\ f # NULL
  /\ fd' = [fd EXCEPT ![<<p, d>>] = NULL]
  /\ count' = file_deref(count, f)
  /\ opened' = OpenAfterDeref(count, f)
  /\ ret' = "ok"
  /\ UNCHANGED crashed

(***************************************************************************)
(* sys_dup_scan(), called by sys_dup() with from = 0 and by sys_fcntl()    *)
(* for F_DUPFD.                                                            *)
(***************************************************************************)
sys_dup_scan(p, d, from) ==
  LET f == fd[<<p, d>>] IN
  /\ ~crashed /\ f # NULL
  /\ \/ /\ FreeFds(p, from) # {}
        /\ fd' = [fd EXCEPT ![<<p, Lowest(FreeFds(p, from))>>] = f]
        /\ count' = file_ref(count, f)
        /\ ret' = "ok"
        /\ UNCHANGED <<opened, crashed>>
     \/ FreeFds(p, from) = {} /\ Reports("error")

(***************************************************************************)
(* sys_dup2(): the reference on f is taken before the old one is dropped.  *)
(***************************************************************************)

\* Slip: the file that newfd had is forgotten.
Dup2KeepsOld(p, d, e) ==
  LET f == fd[<<p, d>>] IN
  /\ ~crashed /\ f # NULL /\ d # e
  /\ fd' = [fd EXCEPT ![<<p, e>>] = f]
  /\ count' = file_ref(count, f)
  /\ ret' = "ok"
  /\ UNCHANGED <<opened, crashed>>

Dup2Replaces(p, d, e) ==
  LET f == fd[<<p, d>>]
      g == fd[<<p, e>>]
      c == file_ref(count, f) IN
  /\ ~crashed /\ f # NULL /\ d # e
  /\ fd' = [fd EXCEPT ![<<p, e>>] = f]
  /\ count' = IF g = NULL THEN c ELSE file_deref(c, g)
  /\ opened' = IF g = NULL THEN opened ELSE OpenAfterDeref(c, g)
  /\ ret' = "ok"
  /\ UNCHANGED crashed

sys_dup2(p, d, e) ==
  \/ Dup2Replaces(p, d, e)
  \/ ~crashed /\ fd[<<p, d>>] # NULL /\ d = e /\ Reports("ok")

(***************************************************************************)
(* sys_read(), sys_write(): the reference that protects the file during    *)
(* the call is dropped again at its end; what is left is the outcome.      *)
(***************************************************************************)

SysTransfer(p, d) ==
  LET f == fd[<<p, d>>]
      c == file_ref(count, f) IN
  /\ ~crashed /\ f # NULL
  /\ count' = file_deref(c, f)
  /\ opened' = OpenAfterDeref(c, f)
  /\ ret' \in {"ok", "error"}
  /\ UNCHANGED <<fd, crashed>>

\* Nothing is known of what happens after a crash.
Crashed == crashed /\ UNCHANGED fileVars

FilesNext ==
  \/ Crashed
  \/ BadFd
  \/ \E p \in Procs :
       \/ \E found, works \in BOOLEAN : file_open(p, found, works)
       \/ \E d \in Fd : \/ sys_close(p, d)
                        \/ SysTransfer(p, d)
                        \/ \E e \in Fd : sys_dup_scan(p, d, e) \/ sys_dup2(p, d, e)

FilesSpec == FilesInit /\ [][FilesNext]_fileVars

-----------------------------------------------------------------------------
(***************************************************************************)
(* Type invariant: descriptors name files of global_fd, and a count is     *)
(* never negative.  (os/file.c)                                            *)
(***************************************************************************)
FilesTypeOK ==
  /\ fd \in [Slots -> File \cup {NULL}]
  /\ count \in [File -> Nat]
  /\ opened \in SUBSET File
  /\ crashed \in BOOLEAN
  /\ ret \in {"none", "ok", "error"}

\* The descriptors of f.
Users(f) == {s \in Slots : fd[s] = f}

(***************************************************************************)
(* The count of a file is the number of descriptors for it, in whatever    *)
(* order it was opened, duplicated, replaced and closed, and whichever     *)
(* call failed half way for want of a file or a descriptor.  (file_open,   *)
(* sys_close, sys_dup_scan, sys_dup2, sys_read, sys_write)                 *)
(***************************************************************************)
CountsDescriptors == \A f \in File : count[f] = Cardinality(Users(f))

(***************************************************************************)
(* A file is closed exactly when its last descriptor goes away: not while  *)
(* one is left, and not later.  (file_deref)                               *)
(***************************************************************************)
ClosedWithLastDescriptor == \A f \in File : f \in opened <=> Users(f) # {}

-----------------------------------------------------------------------------
(***************************************************************************)
(* include/mosnix/file.h on file_new(): "the operation structure will be   *)
(* set to all-default handler functions", so that file_deref() can close   *)
(* a file whose open function failed.                                      *)
(***************************************************************************)
OperationsAlwaysSet == ~crashed
=============================================================================
