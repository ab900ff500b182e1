---------------------------- MODULE FilesProofs ----------------------------
(***************************************************************************)
(* Proofs about Files, for any number of processes, files and descriptors. *)
(*                                                                         *)
(* The argument: a step changes at most one descriptor.  Replacing the     *)
(* file of one descriptor changes the number of descriptors of the file it *)
(* had by -1 and of the file it gets by +1 (Reassign), and every handler   *)
(* adjusts the counts by exactly that.  A file is open iff its count is    *)
(* positive, which is iff it has a descriptor.                             *)
(***************************************************************************)
EXTENDS Files, FiniteSetTheorems, WellFoundedInduction, TLAPS

\* 1 if a descriptor with file v counts for f.
One(v, f) == IF v = f THEN 1 ELSE 0

UsersOf(t, f) == {s \in Slots : t[s] = f}

\* A file is open iff its count is positive.
OpenIffCounted == \A f \in File : f \in opened <=> count[f] > 0

IInv == FilesTypeOK /\ CountsDescriptors /\ OpenIffCounted

(***************************************************************************)
(* There are finitely many descriptors, so each file has finitely many.    *)
(***************************************************************************)
LEMMA UsersFinite ==
  ASSUME NEW t, NEW f
  PROVE  /\ IsFiniteSet(UsersOf(t, f))
         /\ Cardinality(UsersOf(t, f)) \in Nat
         /\ Cardinality(UsersOf(t, f)) = 0 <=> UsersOf(t, f) = {}
<1>1. IsFiniteSet(Procs) /\ IsFiniteSet(Fd)
  BY FS_Interval, FilesAssumption DEF Procs, Fd
<1>2. IsFiniteSet(Slots)
  BY <1>1, FS_Product DEF Slots
<1>3. UsersOf(t, f) \in SUBSET Slots
  BY DEF UsersOf
<1>4. IsFiniteSet(UsersOf(t, f))
  BY <1>2, <1>3, FS_Subset
<1> QED
  BY <1>4, FS_CardinalityType, FS_EmptySet

(***************************************************************************)
(* Giving one descriptor another file (or none) changes the number of      *)
(* descriptors of its old and its new file by one.                         *)
(***************************************************************************)
LEMMA Reassign ==
  ASSUME NEW t \in [Slots -> File \cup {NULL}], NEW s \in Slots,
         NEW v \in File \cup {NULL}, NEW f,
         NEW u, u = [t EXCEPT ![s] = v]
  PROVE  Cardinality(UsersOf(u, f)) =
           Cardinality(UsersOf(t, f)) + One(v, f) - One(t[s], f)
<1> DEFINE A == UsersOf(t, f) \ {s}
<1>1. IsFiniteSet(A) /\ Cardinality(A) \in Nat
  BY UsersFinite, FS_RemoveElement, FS_CardinalityType
<1>2. UsersOf(u, f) = IF v = f THEN A \cup {s} ELSE A
  BY DEF UsersOf
<1>3. Cardinality(A) = Cardinality(UsersOf(t, f)) - One(t[s], f)
  <2>1. s \in UsersOf(t, f) <=> t[s] = f
    BY DEF UsersOf
  <2>2. IsFiniteSet(UsersOf(t, f)) /\ Cardinality(UsersOf(t, f)) \in Nat
    BY UsersFinite
  <2>3. Cardinality(A) = IF s \in UsersOf(t, f)
                           THEN Cardinality(UsersOf(t, f)) - 1
                           ELSE Cardinality(UsersOf(t, f))
    BY <2>2, FS_RemoveElement, Zenon
  <2> QED
    BY <2>1, <2>2, <2>3 DEF One
<1>4. Cardinality(UsersOf(u, f)) = Cardinality(A) + One(v, f)
  <2>1. Cardinality(A \cup {s}) = Cardinality(A) + 1
    BY <1>1, FS_AddElement
  <2> QED
    BY <1>1, <1>2, <2>1 DEF One
<1> QED
  BY <1>1, <1>3, <1>4, UsersFinite DEF One

(***************************************************************************)
(* The initial state: the three descriptors of the console.                *)
(***************************************************************************)
LEMMA InitIInv == FilesInit => IInv
<1> SUFFICES ASSUME FilesInit PROVE IInv
  OBVIOUS
<1> USE FilesAssumption
<1>1. FilesTypeOK
  <2>1. 1 \in File
    BY DEF File
  <2>2. fd \in [Slots -> File \cup {NULL}]
    BY <2>1 DEF FilesInit
  <2>3. count \in [File -> Nat]
    BY DEF FilesInit
  <2>4. opened \in SUBSET File
    BY <2>1 DEF FilesInit
  <2> QED
    BY <2>2, <2>3, <2>4, Zenon DEF FilesInit, FilesTypeOK
<1>2. OpenIffCounted
  BY DEF FilesInit, OpenIffCounted
<1>3. CountsDescriptors
  <2> DEFINE S == {<<1, 0>>, <<1, 1>>, <<1, 2>>}
  <2>1. Cardinality(S) = 3
    <3>1. IsFiniteSet({<<1, 0>>}) /\ Cardinality({<<1, 0>>}) = 1
      BY FS_Singleton, Zenon
    <3>2. IsFiniteSet({<<1, 0>>, <<1, 1>>}) /\ Cardinality({<<1, 0>>, <<1, 1>>}) = 2
      <4>1. {<<1, 0>>, <<1, 1>>} = {<<1, 0>>} \cup {<<1, 1>>} /\ <<1, 1>> \notin {<<1, 0>>}
        OBVIOUS
      <4>2. Cardinality({<<1, 0>>} \cup {<<1, 1>>}) = Cardinality({<<1, 0>>}) + 1
        BY <3>1, <4>1, FS_AddElement, Zenon
      <4>3. IsFiniteSet({<<1, 0>>} \cup {<<1, 1>>})
        BY <3>1, FS_AddElement, Zenon
      <4> QED BY <3>1, <4>1, <4>2, <4>3
    <3>3. S = {<<1, 0>>, <<1, 1>>} \cup {<<1, 2>>} /\ <<1, 2>> \notin {<<1, 0>>, <<1, 1>>}
      OBVIOUS
    <3>4. Cardinality({<<1, 0>>, <<1, 1>>} \cup {<<1, 2>>}) =
            Cardinality({<<1, 0>>, <<1, 1>>}) + 1
      BY <3>2, <3>3, FS_AddElement, Zenon
    <3> QED BY <3>2, <3>3, <3>4
  <2>2. Users(1) = S
    BY DEF Users, FilesInit, Slots, Procs, Fd, File
  <2>3. ASSUME NEW f \in File, f # 1 PROVE Users(f) = {}
    BY <2>3 DEF Users, FilesInit, Slots, File
  <2> QED
    BY <2>1, <2>2, <2>3, FS_EmptySet, Zenon DEF CountsDescriptors, FilesInit, File
<1> QED
  BY <1>1, <1>2, <1>3 DEF IInv

(***************************************************************************)
(* A step that leaves the tables alone keeps the invariant.                *)
(***************************************************************************)
LEMMA Untouched ==
  ASSUME IInv, UNCHANGED <<fd, count, opened>>,
         crashed' \in BOOLEAN, ret' \in {"none", "ok", "error"}
  PROVE  IInv'
  BY DEF IInv, FilesTypeOK, CountsDescriptors, Users, OpenIffCounted

(***************************************************************************)
(* A step that gives descriptor s the file v and adjusts the counts of the *)
(* old and the new file keeps every count right.                           *)
(***************************************************************************)
LEMMA Assigned ==
  ASSUME IInv, NEW s \in Slots, NEW v \in File \cup {NULL},
         fd' = [fd EXCEPT ![s] = v],
         count' \in [File -> Int],
         \A f \in File : count'[f] = count[f] + One(v, f) - One(fd[s], f)
  PROVE  CountsDescriptors' /\ fd' \in [Slots -> File \cup {NULL}]
                            /\ count' \in [File -> Nat]
<1>1. fd \in [Slots -> File \cup {NULL}]
  BY DEF IInv, FilesTypeOK
<1>2. ASSUME NEW f \in File
      PROVE  count'[f] = Cardinality(Users(f)') /\ count'[f] \in Nat
  <2>1. Users(f) = UsersOf(fd, f) /\ Users(f)' = UsersOf(fd', f)
    BY DEF Users, UsersOf
  <2>2. Cardinality(UsersOf(fd', f)) =
          Cardinality(UsersOf(fd, f)) + One(v, f) - One(fd[s], f)
    BY <1>1, Reassign, ZenonT(60)
  <2>3. count[f] = Cardinality(UsersOf(fd, f))
    BY <2>1 DEF IInv, CountsDescriptors
  <2>4. Cardinality(UsersOf(fd', f)) \in Nat
    BY UsersFinite
  <2> QED
    BY <2>1, <2>2, <2>3, <2>4
<1> QED
  BY <1>1, <1>2 DEF CountsDescriptors

(***************************************************************************)
(* Lowest() is an element of the set, as every set of numbers has one.     *)
(***************************************************************************)
LEMMA LowestIn ==
  ASSUME NEW S \in SUBSET Nat, S # {}
  PROVE  Lowest(S) \in S
<1>1. PICK x \in S : \A y \in S : ~ (<<y, x>> \in OpToRel(<, Nat))
  BY NatLessThanWellFounded, WFMin, Zenon
<1>2. ASSUME NEW y \in S PROVE x <= y
  <2>1. <<y, x>> \in OpToRel(<, Nat) <=> y < x
    BY DEF OpToRel
  <2>2. ~ (y < x)
    BY <1>1, <2>1, Zenon
  <2> QED BY <2>2
<1> QED
  BY <1>2, Zenon DEF Lowest

(***************************************************************************)
(* file_open() keeps the invariant.                                        *)
(***************************************************************************)
LEMMA OpenStep ==
  ASSUME IInv, NEW p \in Procs, NEW found \in BOOLEAN, NEW works \in BOOLEAN,
         file_open(p, found, works)
  PROVE  IInv'
<1>1. CASE OpenNotFound \/ OpenNoFile \/ OpenNoFd(p)
  <2>1. crashed \in BOOLEAN
    BY DEF IInv, FilesTypeOK
  <2> QED
    BY <1>1, <2>1, Untouched DEF OpenNotFound, OpenNoFile, OpenNoFd, Reports
<1>2. CASE OpenFails
  BY <1>2, Untouched DEF OpenFails, IInv, FilesTypeOK
<1>3. CASE OpenSucceeds(p)
  <2> DEFINE f == Lowest(FreeFiles)
             d == Lowest(FreeFds(p, 0))
  <2>1. f \in File /\ count[f] = 0
    <3>1. FreeFiles \in SUBSET Nat /\ FreeFiles # {}
      BY <1>3 DEF OpenSucceeds, FreeFiles, File
    <3>2. f \in FreeFiles
      BY <3>1, LowestIn
    <3> QED BY <3>2 DEF FreeFiles
  <2>2. d \in Fd /\ fd[<<p, d>>] = NULL
    <3>1. FreeFds(p, 0) \in SUBSET Nat /\ FreeFds(p, 0) # {}
      BY <1>3, FilesAssumption DEF OpenSucceeds, FreeFds, Fd
    <3>2. d \in FreeFds(p, 0)
      BY <3>1, LowestIn
    <3> QED BY <3>2 DEF FreeFds
  <2> HIDE DEF f, d
  <2>3. /\ fd' = [fd EXCEPT ![<<p, d>>] = f]
        /\ count' = [count EXCEPT ![f] = 1]
        /\ opened' = opened \cup {f}
        /\ ret' = "ok" /\ crashed' = crashed
    BY <1>3 DEF OpenSucceeds, f, d
  <2>4. PICK s \in Slots : s = <<p, d>>
    BY <2>2 DEF Slots
  <2>5. count' \in [File -> Int]
    BY <2>1, <2>3 DEF IInv, FilesTypeOK
  <2>6. \A g \in File : count'[g] = count[g] + One(f, g) - One(fd[s], g)
    BY <2>1, <2>2, <2>3, <2>4, FilesAssumption DEF IInv, FilesTypeOK, One
  <2>7. CountsDescriptors' /\ fd' \in [Slots -> File \cup {NULL}]
                           /\ count' \in [File -> Nat]
    <3>1. f \in File \cup {NULL} /\ fd' = [fd EXCEPT ![s] = f]
      BY <2>1, <2>3, <2>4
    <3> QED BY <2>5, <2>6, <3>1, Assigned, ZenonT(90)
  <2>8. OpenIffCounted'
    BY <2>1, <2>3 DEF IInv, FilesTypeOK, OpenIffCounted
  <2> QED
    BY <2>1, <2>3, <2>7, <2>8 DEF IInv, FilesTypeOK
<1> QED
  BY <1>1, <1>2, <1>3 DEF file_open

(***************************************************************************)
(* sys_close() keeps the invariant.                                        *)
(***************************************************************************)
LEMMA CloseStep ==
  ASSUME IInv, NEW p \in Procs, NEW d \in Fd, sys_close(p, d)
  PROVE  IInv'
<1>1. PICK s \in Slots : s = <<p, d>>
  BY Zenon DEF Slots
<1>2. PICK f \in File : f = fd[s]
  BY <1>1 DEF sys_close, IInv, FilesTypeOK
<1>3. /\ fd' = [fd EXCEPT ![s] = NULL]
      /\ count' = [count EXCEPT ![f] = @ - 1]
      /\ opened' = IF count[f] - 1 <= 0 THEN opened \ {f} ELSE opened
      /\ ret' = "ok" /\ crashed' = crashed
  BY <1>1, <1>2 DEF sys_close, file_deref, OpenAfterDeref
<1>4. count' \in [File -> Int]
  BY <1>3 DEF IInv, FilesTypeOK
<1>5. \A g \in File : count'[g] = count[g] + One(NULL, g) - One(fd[s], g)
  BY <1>2, <1>3, FilesAssumption DEF IInv, FilesTypeOK, One
<1>6. CountsDescriptors' /\ fd' \in [Slots -> File \cup {NULL}]
                         /\ count' \in [File -> Nat]
  <2>1. NULL \in File \cup {NULL}
    OBVIOUS
  <2> QED BY <1>3, <1>4, <1>5, <2>1, Assigned, ZenonT(90)
<1>7. OpenIffCounted'
  BY <1>3, <1>6 DEF IInv, FilesTypeOK, OpenIffCounted
<1> QED
  BY <1>3, <1>6, <1>7 DEF IInv, FilesTypeOK

(***************************************************************************)
(* sys_dup(), and sys_fcntl() with F_DUPFD, keep the invariant.            *)
(***************************************************************************)
LEMMA DupStep ==
  ASSUME IInv, NEW p \in Procs, NEW d \in Fd, NEW from \in Fd,
         sys_dup_scan(p, d, from)
  PROVE  IInv'
<1>1. CASE Reports("error")
  <2>1. crashed' \in BOOLEAN
    BY <1>1 DEF IInv, FilesTypeOK, Reports
  <2> QED
    BY <1>1, <2>1, Untouched DEF Reports
<1>2. CASE FreeFds(p, from) # {} /\ ~ Reports("error")
  <2> DEFINE e == Lowest(FreeFds(p, from))
  <2>1. e \in Fd /\ fd[<<p, e>>] = NULL
    <3>1. FreeFds(p, from) \in SUBSET Nat
      BY FilesAssumption DEF FreeFds, Fd
    <3>2. e \in FreeFds(p, from)
      BY <1>2, <3>1, LowestIn
    <3> QED BY <3>2 DEF FreeFds
  <2> HIDE DEF e
  <2>2. PICK s \in Slots : s = <<p, e>>
    BY <2>1 DEF Slots
  <2>3. PICK f \in File : f = fd[<<p, d>>]
    BY DEF sys_dup_scan, IInv, FilesTypeOK, Slots
  <2>4. /\ fd' = [fd EXCEPT ![s] = f]
        /\ count' = [count EXCEPT ![f] = @ + 1]
        /\ opened' = opened
        /\ ret' = "ok" /\ crashed' = crashed
    BY <1>2, <2>2, <2>3 DEF sys_dup_scan, file_ref, e
  <2>5. count' \in [File -> Int]
    BY <2>4 DEF IInv, FilesTypeOK
  <2>6. \A g \in File : count'[g] = count[g] + One(f, g) - One(fd[s], g)
    BY <2>1, <2>2, <2>4, FilesAssumption DEF IInv, FilesTypeOK, One
  <2>7. CountsDescriptors' /\ fd' \in [Slots -> File \cup {NULL}]
                           /\ count' \in [File -> Nat]
    BY <2>4, <2>5, <2>6, Assigned, ZenonT(90)
  <2>8. count[f] > 0
    <3>1. <<p, d>> \in UsersOf(fd, f)
      BY <2>3 DEF UsersOf, Slots
    <3>2. Cardinality(UsersOf(fd, f)) # 0 /\ Cardinality(UsersOf(fd, f)) \in Nat
      BY <3>1, UsersFinite
    <3> QED BY <3>2 DEF IInv, CountsDescriptors, Users, UsersOf
  <2>9. OpenIffCounted'
    BY <2>4, <2>7, <2>8 DEF IInv, FilesTypeOK, OpenIffCounted
  <2> QED
    BY <2>4, <2>7, <2>9 DEF IInv, FilesTypeOK
<1> QED
  BY <1>1, <1>2 DEF sys_dup_scan

(***************************************************************************)
(* sys_dup2() keeps the invariant, also when both descriptors have the     *)
(* same file.                                                              *)
(***************************************************************************)
LEMMA Dup2Step ==
  ASSUME IInv, NEW p \in Procs, NEW d \in Fd, NEW e \in Fd,
         Dup2Replaces(p, d, e)
  PROVE  IInv'
<1>1. PICK s \in Slots : s = <<p, e>>
  BY Zenon DEF Slots
<1>2. PICK f \in File : f = fd[<<p, d>>]
  BY DEF Dup2Replaces, IInv, FilesTypeOK, Slots
<1>3. count \in [File -> Nat] /\ fd[s] \in File \cup {NULL}
  BY DEF IInv, FilesTypeOK
<1>4. PICK c \in [File -> Nat] : c = [count EXCEPT ![f] = @ + 1]
  <2>1. [count EXCEPT ![f] = @ + 1] \in [File -> Nat]
    BY <1>3
  <2> QED BY <2>1, Zenon
<1>5. /\ fd' = [fd EXCEPT ![s] = f]
      /\ count' = IF fd[s] = NULL THEN c ELSE [c EXCEPT ![fd[s]] = @ - 1]
      /\ opened' = IF fd[s] = NULL THEN opened
                   ELSE IF c[fd[s]] - 1 <= 0 THEN opened \ {fd[s]} ELSE opened
      /\ ret' = "ok" /\ crashed' = crashed
  BY <1>1, <1>2, <1>4 DEF Dup2Replaces, file_ref, file_deref, OpenAfterDeref
<1>6. count' \in [File -> Int]
  BY <1>3, <1>5
<1>7. \A g \in File : count'[g] = count[g] + One(f, g) - One(fd[s], g)
  BY <1>3, <1>4, <1>5, FilesAssumption DEF One
<1>8. CountsDescriptors' /\ fd' \in [Slots -> File \cup {NULL}]
                         /\ count' \in [File -> Nat]
  BY <1>2, <1>5, <1>6, <1>7, Assigned, ZenonT(60)
<1>9. count[f] > 0
  <2>1. <<p, d>> \in UsersOf(fd, f)
    BY <1>2 DEF UsersOf, Slots
  <2>2. Cardinality(UsersOf(fd, f)) # 0 /\ Cardinality(UsersOf(fd, f)) \in Nat
    BY <2>1, UsersFinite
  <2> QED BY <2>2 DEF IInv, CountsDescriptors, Users, UsersOf
<1>10. OpenIffCounted'
  BY <1>3, <1>4, <1>5, <1>8, <1>9 DEF IInv, FilesTypeOK, OpenIffCounted
<1> QED
  BY <1>3, <1>5, <1>8, <1>10 DEF IInv, FilesTypeOK

(***************************************************************************)
(* The reference of sys_read() and sys_write() is dropped again.           *)
(***************************************************************************)
LEMMA TransferStep ==
  ASSUME IInv, NEW p \in Procs, NEW d \in Fd, SysTransfer(p, d)
  PROVE  IInv'
<1>1. PICK f \in File : f = fd[<<p, d>>]
  BY DEF SysTransfer, IInv, FilesTypeOK, Slots
<1>2. <<p, d>> \in UsersOf(fd, f)
  BY <1>1 DEF UsersOf, Slots
<1>3. Cardinality(UsersOf(fd, f)) # 0 /\ Cardinality(UsersOf(fd, f)) \in Nat
  BY <1>2, UsersFinite
<1>4. count[f] > 0 /\ count \in [File -> Nat]
  BY <1>3 DEF IInv, FilesTypeOK, CountsDescriptors, Users, UsersOf
<1>5. count' = count /\ opened' = opened
  BY <1>1, <1>4 DEF SysTransfer, file_ref, file_deref, OpenAfterDeref
<1>6. fd' = fd /\ crashed' \in BOOLEAN /\ ret' \in {"none", "ok", "error"}
  BY DEF SysTransfer, IInv, FilesTypeOK
<1> QED
  BY <1>5, <1>6, Untouched

(***************************************************************************)
(* Every step keeps the invariant.                                         *)
(***************************************************************************)
LEMMA NextIInv == IInv /\ [FilesNext]_fileVars => IInv'
<1> SUFFICES ASSUME IInv, [FilesNext]_fileVars PROVE IInv'
  OBVIOUS
<1>1. crashed \in BOOLEAN /\ ret \in {"none", "ok", "error"}
  BY DEF IInv, FilesTypeOK
<1>2. CASE UNCHANGED fileVars \/ Crashed
  BY <1>1, <1>2, Untouched DEF Crashed, fileVars
<1>3. CASE BadFd
  BY <1>1, <1>3, Untouched DEF BadFd, Reports
<1>4. ASSUME NEW p \in Procs, NEW found \in BOOLEAN, NEW works \in BOOLEAN,
             file_open(p, found, works)
      PROVE  IInv'
  BY <1>4, OpenStep
<1>5. ASSUME NEW p \in Procs, NEW d \in Fd, sys_close(p, d) PROVE IInv'
  BY <1>5, CloseStep
<1>6. ASSUME NEW p \in Procs, NEW d \in Fd, SysTransfer(p, d) PROVE IInv'
  BY <1>6, TransferStep
<1>7. ASSUME NEW p \in Procs, NEW d \in Fd, NEW e \in Fd,
             sys_dup_scan(p, d, e)
      PROVE  IInv'
  BY <1>7, DupStep
<1>8. ASSUME NEW p \in Procs, NEW d \in Fd, NEW e \in Fd, sys_dup2(p, d, e)
      PROVE  IInv'
  <2>1. CASE Dup2Replaces(p, d, e)
    BY <2>1, Dup2Step
  <2>2. CASE Reports("ok")
    BY <1>1, <2>2, Untouched DEF Reports
  <2> QED BY <1>8, <2>1, <2>2 DEF sys_dup2
<1> QED
  BY <1>2, <1>3, <1>4, <1>5, <1>6, <1>7, <1>8 DEF FilesNext

(***************************************************************************)
(* The invariant holds in every reachable state.                           *)
(***************************************************************************)
LEMMA SpecIInv == FilesSpec => []IInv
  BY InitIInv, NextIInv, PTL DEF FilesSpec

(***************************************************************************)
(* The tables of os/file.c keep their types; no count becomes negative.    *)
(***************************************************************************)
THEOREM FilesTypes == FilesSpec => []FilesTypeOK
<1>1. IInv => FilesTypeOK
  BY DEF IInv
<1> QED BY <1>1, SpecIInv, PTL

(***************************************************************************)
(* The count of a file is the number of descriptors for it, for any number *)
(* of processes, files and descriptors.  (file_open, sys_close, sys_dup,   *)
(* sys_dup2, sys_read, sys_write)                                          *)
(***************************************************************************)
THEOREM CountsAreExact == FilesSpec => []CountsDescriptors
<1>1. IInv => CountsDescriptors
  BY DEF IInv
<1> QED BY <1>1, SpecIInv, PTL

(***************************************************************************)
(* A file is closed exactly when its last descriptor goes away.            *)
(* (file_deref)                                                            *)
(***************************************************************************)
THEOREM ClosedExactlyOnce == FilesSpec => []ClosedWithLastDescriptor
<1>1. IInv => ClosedWithLastDescriptor
  <2> SUFFICES ASSUME IInv, NEW f \in File
               PROVE  f \in opened <=> Users(f) # {}
    BY DEF ClosedWithLastDescriptor
  <2>1. Users(f) = UsersOf(fd, f)
    BY DEF Users, UsersOf
  <2>2. count[f] = Cardinality(UsersOf(fd, f)) /\ count[f] \in Nat
    BY <2>1 DEF IInv, CountsDescriptors, FilesTypeOK
  <2>3. count[f] = 0 <=> UsersOf(fd, f) = {}
    BY <2>2, UsersFinite
  <2> QED
    BY <2>1, <2>2, <2>3 DEF IInv, OpenIffCounted
<1> QED BY <1>1, SpecIInv, PTL
=============================================================================
