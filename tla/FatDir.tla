------------------------------- MODULE FatDir -------------------------------
(***************************************************************************)
(* Reading directories of the FAT filesystem: fatfs_dir_read() and         *)
(* fatfs_lookup() of os/fs/fat/fatfs.c, which move the cursors of module   *)
(* FatCursor over a directory, the root of a card.                         *)
(*                                                                         *)
(* A call is several steps, one for each entry it looks at.  Any of them   *)
(* may find that the card does not answer.                                 *)
(***************************************************************************)
EXTENDS FatCursor, Sequences

CONSTANTS
  CLUSTER_SIZE, \* sd_info.cluster_size, in blocks
  CLUSTERS,     \* clusters of the directory
  MAX_READ,     \* bound: most entries asked for in one call
  MAX_ENTRIES,  \* entries a lookup reads before it gives up, 65535
  Names,        \* names of files
  NULL

Blank == {"end", "deleted", "blocked"}
Size  == EPB * CLUSTER_SIZE * CLUSTERS
Place == 1..Size

ASSUME FatDirAssumption ==
  /\ CLUSTER_SIZE \in Nat \ {0} /\ CLUSTERS \in Nat \ {0} /\ MAX_READ \in Nat
  /\ CLUSTER_SIZE <= BLOCKS_LEFT
  /\ MAX_ENTRIES \in Nat /\ MAX_ENTRIES >= EPB
  /\ NULL \notin Names /\ Blank \cap Names = {}

VARIABLES
  dir,         \* the directory on the card: what is in every place
  dcur,        \* cursor of the open directory
  lcur,        \* cursor of the lookup in progress
  call,        \* "idle", "read" or "lookup"
  size,        \* entries that still fit into the buffer of the reader
  name,        \* name the last call looks up, NULL if it is a read
  detected,    \* the last lookup has detected a card
  max_entries, \* entries the lookup may still read
  got,         \* places of the entries converted by the call so far
  listed,      \* places of the entries that calls have returned
  lost,        \* a call has failed after it had converted entries
  ret          \* outcome of the last call

vars == <<dir, dcur, lcur, call, size, name, detected, max_entries, got, listed,
          lost, ret>>

-----------------------------------------------------------------------------
\* The directory occupies the clusters of the volume, whose blocks are
\* numbered from 1.
V == [cluster_size |-> CLUSTER_SIZE, cluster_offset |-> 1, cluster_count |-> CLUSTERS]
Opened == fatfs_info_new(V, 2)

\* The place of the entry a cursor stands on.
At(cur) == (cur.block - 1) * EPB + cur.offset + 1

Live(k) == dir[k] \in Names

\* The places in front of the end of the directory.
Used == {k \in Place : \A j \in 1..k : dir[j] # "end"}

(***************************************************************************)
(* A directory holds every name at most once.  What lies behind the mark   *)
(* of its end is left from earlier use.  It has been opened by fatfs_open. *)
(***************************************************************************)
Init ==
  /\ dir \in [Place -> Names \cup Blank]
  /\ \A j, k \in Place : dir[j] = dir[k] /\ dir[j] \in Names => j = k
  /\ dcur = Opened /\ lcur = Opened
  /\ call = "idle" /\ size = 0 /\ name = NULL /\ detected = FALSE /\ max_entries = 0
  /\ got = <<>> /\ listed = <<>> /\ lost = FALSE /\ ret = "ok"

-----------------------------------------------------------------------------
(***************************************************************************)
(* fatfs_dir_read(): called with a buffer for n entries.                   *)
(***************************************************************************)
CallRead(n) ==
  /\ call = "idle"
  /\ call' = "read" /\ size' = n /\ name' = NULL /\ got' = <<>>
  /\ UNCHANGED <<dir, dcur, lcur, detected, max_entries, listed, lost, ret>>

\* The call returns the entries it has converted.
ReadReturns ==
  /\ call' = "idle" /\ ret' = IF got' = <<>> THEN "eof" ELSE "ok"
  /\ listed' = listed \o got'
  /\ UNCHANGED lost

\* The call returns an error, and the entries it has converted with it.
ReadFails(res) ==
  /\ call' = "idle" /\ ret' = res
  /\ lost' = (lost \/ got # <<>>)
  /\ UNCHANGED <<got, listed>>

ReadFull ==
  /\ call = "read" /\ size = 0
  /\ got' = got /\ ReadReturns
  /\ UNCHANGED <<dir, dcur, lcur, size, name, detected, max_entries>>

\* One round of the loop.
ReadEntry(works) ==
  /\ call = "read" /\ size > 0
  /\ \E r \in {fatfs_info_read_dirent(V, dcur, works)} :
       /\ dcur' = r.cur
       /\ \/ /\ r.res \in {"EIO", "EINVAL"}
             /\ ReadFails(r.res) /\ UNCHANGED size
          \/ /\ r.res = "eof" \/ (r.res = "entry" /\ dir[At(r.at)] = "end")
             /\ got' = got /\ ReadReturns /\ UNCHANGED size
          \/ /\ r.res = "entry" /\ Live(At(r.at))
             /\ got' = Append(got, At(r.at)) /\ size' = size - 1
             /\ UNCHANGED <<call, ret, listed, lost>>
          \/ /\ r.res = "entry" /\ dir[At(r.at)] \in {"deleted", "blocked"}
             /\ UNCHANGED <<call, ret, listed, lost, got, size>>
  /\ UNCHANGED <<dir, lcur, name, detected, max_entries>>

-----------------------------------------------------------------------------
(***************************************************************************)
(* fatfs_lookup() in the root directory detects the card first.  Without a *)
(* card no name is found.  If its root is outside of the volume there is   *)
(* nothing to search; otherwise the search has a cursor of its own.  Below *)
(* the root a lookup is the same without the detection.                    *)
(***************************************************************************)
LookupEnds(res) ==
  /\ call' = "idle" /\ ret' = res /\ UNCHANGED <<lcur, max_entries>>

CallLookup(n, card) ==
  /\ call = "idle"
  /\ name' = n /\ got' = <<>> /\ detected' = (card # "none")
  /\ \/ card = "none" /\ LookupEnds("ENOENT")
     \/ card = "no root" /\ LookupEnds("EIO")
     \/ /\ card = "root"
        /\ call' = "lookup" /\ max_entries' = MAX_ENTRIES /\ lcur' = Opened
        /\ UNCHANGED ret
  /\ UNCHANGED <<dir, dcur, size, listed, lost>>

LookupReturns(res) ==
  /\ call' = "idle" /\ ret' = res /\ UNCHANGED max_entries

\* Slip: a card that does not answer ends the search like the end of the
\* directory does.
ErrorIsAbsence(works) ==
  /\ call = "lookup"
  /\ \E r \in {fatfs_info_read_dirent(V, lcur, works)} :
       /\ lcur' = r.cur
       /\ IF r.res = "entry" /\ dir[At(r.at)] # "end"
          THEN IF dir[At(r.at)] = name
               THEN got' = <<At(r.at)>> /\ LookupReturns("ok")
               ELSE UNCHANGED <<got, call, ret, max_entries>>
          ELSE got' = got /\ LookupReturns("ENOENT")
  /\ UNCHANGED <<dir, dcur, size, name, detected, listed, lost>>

LookupEntry(works) ==
  /\ call = "lookup"
  /\ \E r \in {fatfs_info_read_dirent(V, lcur, works)} :
       /\ lcur' = r.cur
       /\ \/ /\ r.res \in {"EIO", "EINVAL"}
             /\ got' = got /\ LookupReturns(r.res)
          \/ /\ r.res = "eof" \/ (r.res = "entry" /\ dir[At(r.at)] = "end")
             /\ got' = got /\ LookupReturns("ENOENT")
          \/ /\ r.res = "entry" /\ dir[At(r.at)] = name
             /\ got' = <<At(r.at)>>
             /\ LookupReturns("ok") \/ LookupReturns("ENOMEM")
          \/ /\ r.res = "entry" /\ dir[At(r.at)] \notin {"end", name}
             /\ got' = got
             /\ IF max_entries = 1 THEN LookupReturns("ENOENT")
                ELSE max_entries' = max_entries - 1 /\ UNCHANGED <<call, ret>>
  /\ UNCHANGED <<dir, dcur, size, name, detected, listed, lost>>

-----------------------------------------------------------------------------
Step == ReadFull \/ \E works \in BOOLEAN : ReadEntry(works) \/ LookupEntry(works)

Next ==
  \/ \E n \in 0..MAX_READ : CallRead(n)
  \/ \E n \in Names, card \in {"none", "no root", "root"} : CallLookup(n, card)
  \/ Step

\* The kernel runs a call to its end.
Spec == Init /\ [][Next]_vars /\ WF_vars(Step)

-----------------------------------------------------------------------------
\* What the calls of fatfs_dir_read() have returned, with what the call in
\* progress has converted.
Returned == IF call = "read" THEN listed \o got ELSE listed

\* fatfs_dir_read() lists the entries in the order of the directory and none
\* of them twice, whatever calls fail in between.
ListedInOrder ==
  \A i, j \in 1..Len(Returned) : i < j => Returned[i] < Returned[j]

\* fatfs_dir_read() passes over no file: unless a call has failed after it
\* had converted entries, every file in front of one that was listed has been
\* listed too, also when cards failed and calls were repeated.
NothingSkipped ==
  ~lost => \A i \in 1..Len(Returned) : \A k \in 1..Returned[i] :
             Live(k) => \E j \in 1..i : Returned[j] = k

\* fatfs_lookup() does not lie: it returns the entry of the name, or ENOENT
\* only if it has detected no card, or if no entry in front of the end of the
\* directory has the name.  A card that stops to answer, a refused entry and
\* a lack of memory are told apart from a name that is not there.
LookupIsHonest ==
  call = "idle" /\ name # NULL =>
    /\ ret = "ok" => \E k \in Used : got = <<k>> /\ dir[k] = name
    /\ ret = "ENOENT" /\ detected => \A k \in Used : dir[k] # name

\* Every call returns, whatever the directory holds: fatfs_dir_read() and
\* fatfs_lookup() do not go round in a directory without an end mark.
CallsReturn == call # "idle" ~> call = "idle"

-----------------------------------------------------------------------------
\* As the comment on fatfs_info_read_dirent() has it, reading yields an entry,
\* the end of the directory, or an error of the card: there is no entry it
\* refuses.
EveryEntryIsRead == ret # "EINVAL"

\* FAT_DIR_END marks the end of the directory: nothing behind it is listed.
NothingBehindTheEnd ==
  \A i \in 1..Len(Returned) : Returned[i] \in Used
=============================================================================
