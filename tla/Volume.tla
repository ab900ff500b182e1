------------------------------- MODULE Volume -------------------------------
(***************************************************************************)
(* Where things are on a FAT32 volume: the block numbers that sd_detect()  *)
(* computes from a boot block and that sd_cluster_to_block() hands out,    *)
(* os/drivers/sdcard/sdcard.c and sdasm.S.                                 *)
(*                                                                         *)
(* Block numbers are unsigned words and wrap around.  Clusters are         *)
(* shifted by the logarithm of their size, here multiplied and divided by  *)
(* their size, which is a power of two.                                    *)
(***************************************************************************)
EXTENDS Integers

CONSTANT WORD  \* 2^32

ASSUME WordAssumption == WORD \in Nat \ {0}

Word == 0..(WORD - 1)
Wrap(n) == n % WORD

\* cluster_sizes[]
ClusterSizes == {1, 2, 4, 8, 16, 32, 64, 128}

\* What the boot block says: blocks per cluster, blocks in front of the first
\* FAT, blocks of a FAT, and the first cluster of the root directory.
BootBlock == [cluster_size : ClusterSizes, reserved : Word, fat_size : Word, root : Word]

\* The numbers of the volume of boot block b, in a partition.
SdInfo(b, part_offset, part_size) ==
  LET fat1 == b.reserved
      fat2 == Wrap(fat1 + b.fat_size)
      data == Wrap(fat2 + b.fat_size) IN
  [cluster_size   |-> b.cluster_size,
   root           |-> b.root,
   fat1           |-> Wrap(fat1 + part_offset),
   fat2           |-> Wrap(fat2 + part_offset),
   cluster_offset |-> Wrap(data + part_offset),
   cluster_count  |-> Wrap(part_size - data) \div b.cluster_size]

\* The first block of a cluster, 0 if the volume does not have it.
sd_cluster_to_block(v, cluster) ==
  IF cluster < 2 \/ cluster - 2 >= v.cluster_count THEN 0
  ELSE Wrap(v.cluster_offset + Wrap((cluster - 2) * v.cluster_size))

\* fat_get() reads this block for the entry of a cluster, of which there are
\* 128 in a block, and refuses clusters that the volume does not have.
FatHas(v, cluster) == cluster <= Wrap(v.cluster_count + 1)
FatBlock(v, cluster) == Wrap(v.fat1 + cluster \div 128)

\* What sd_read() sends to the card: a block number, or the number of a byte
\* on cards that are not SDHC.
sd_adjust_block_number(sdhc, blknum) == IF sdhc THEN blknum ELSE Wrap(blknum * 512)

-----------------------------------------------------------------------------
(***************************************************************************)
(* A volume as it is formatted: the partition is on the card, the FATs are *)
(* in the partition and have an entry for every cluster.                   *)
(***************************************************************************)
Data(b) == b.reserved + 2 * b.fat_size

Formatted(b, part_offset, part_size) ==
  /\ b.reserved > 0 /\ Data(b) <= part_size
  /\ part_offset + part_size < WORD
  /\ (part_size - Data(b)) \div b.cluster_size + 2 <= 128 * b.fat_size
=============================================================================
