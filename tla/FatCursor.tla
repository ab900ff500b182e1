------------------------------ MODULE FatCursor ------------------------------
(***************************************************************************)
(* The cursor of an open file or directory of the FAT filesystem, in       *)
(* os/fs/fat/fatfs.c, and the cluster chains of os/fs/fat/fatutils.c.      *)
(*                                                                         *)
(* Offsets count directory entries instead of bytes.  The two bit fields   *)
(* of the cursor keep their width: an offset is stored modulo the size of  *)
(* a block, the number of blocks left modulo BLOCKS_LEFT.  works says      *)
(* whether the card answers.                                               *)
(***************************************************************************)
EXTENDS Volume

CONSTANTS
  EPB,         \* entries in a block: SD_BLKSIZE / sizeof(struct fat_dir_entry)
  BLOCKS_LEFT  \* 2^7, from the width of blocks_left

ASSUME FatCursorAssumption == EPB \in Nat \ {0} /\ BLOCKS_LEFT \in Nat \ {0}

(***************************************************************************)
(* The file occupies the clusters from 2 to the last one of the volume v,  *)
(* in this order.  fat_get_next_cluster() returns 0 behind the last, and   *)
(* also if the card fails.                                                 *)
(***************************************************************************)
fat_get_next_cluster(v, c) == IF c <= v.cluster_count THEN c + 1 ELSE 0

\* A cursor in front of the first block of cluster c; block 0 is a failure.
fatfs_info_new(v, c) ==
  [cluster |-> c, block |-> sd_cluster_to_block(v, c), offset |-> 0,
   left |-> v.cluster_size % BLOCKS_LEFT]

(***************************************************************************)
(* fatfs_info_read_prepare(): the cursor moved on if its block is used up, *)
(* and the entries available there: 0 at the end of the chain, or -1.      *)
(***************************************************************************)
NextCluster(v, cur, works) ==
  LET c == IF works THEN fat_get_next_cluster(v, cur.cluster) ELSE 0 IN
  CASE c = 0 -> [cur |-> [cur EXCEPT !.cluster = 0, !.block = 0], size |-> 0]
    [] c # 0 /\ sd_cluster_to_block(v, c) = 0 ->
         [cur |-> [cur EXCEPT !.cluster = c], size |-> -1]
    [] OTHER -> [cur |-> fatfs_info_new(v, c), size |-> EPB]

NextBlock(v, cur, works) ==
  IF cur.left - 1 = 0 THEN NextCluster(v, cur, works)
  ELSE [cur |-> [cur EXCEPT !.block = @ + 1, !.offset = 0,
                            !.left = (@ - 1) % BLOCKS_LEFT],
        size |-> EPB]

fatfs_info_read_prepare(v, cur, works) ==
  CASE cur.block = 0 -> [cur |-> cur, size |-> 0]
    [] cur.block # 0 /\ cur.offset >= EPB -> NextBlock(v, cur, works)
    [] OTHER -> [cur |-> cur, size |-> EPB - cur.offset]

(***************************************************************************)
(* fatfs_info_read_dirent(): an error, "eof", or "entry" with the place it *)
(* is at and the cursor behind it.                                         *)
(***************************************************************************)
Yields(res, cur, at) == [res |-> res, cur |-> cur, at |-> at]
Behind(cur) == [cur EXCEPT !.offset = (@ + 1) % EPB]

\* Slip: the offset is advanced before the card is read.
AdvancesFirst(v, cur, works) ==
  LET p == fatfs_info_read_prepare(v, cur, works) IN
  CASE p.size = 0 -> Yields("eof", p.cur, p.cur)
    [] p.size # 0 /\ p.size <= 1 -> Yields("EINVAL", p.cur, p.cur)
    [] OTHER -> Yields(IF works THEN "entry" ELSE "EIO", Behind(p.cur), p.cur)

\* Slip: the last entry of a block is not refused.
ReadsLastEntry(v, cur, works) ==
  LET p == fatfs_info_read_prepare(v, cur, works) IN
  CASE p.size = 0 -> Yields("eof", p.cur, p.cur)
    [] p.size < 0 \/ (p.size > 0 /\ ~works) -> Yields("EIO", p.cur, p.cur)
    [] OTHER -> Yields("entry", Behind(p.cur), p.cur)

fatfs_info_read_dirent(v, cur, works) ==
  LET p == fatfs_info_read_prepare(v, cur, works) IN
  CASE p.size = 0 -> Yields("eof", p.cur, p.cur)
    [] p.size < 0 \/ (p.size > 0 /\ ~works) -> Yields("EIO", p.cur, p.cur)
    [] p.size = 1 /\ works -> Yields("EINVAL", p.cur, p.cur)
    [] OTHER -> Yields("entry", Behind(p.cur), p.cur)
==============================================================================
