---------------------------- MODULE VolumeProofs ----------------------------
(***************************************************************************)
(* The block numbers of a formatted volume, for words of any width, and    *)
(* the cursor of an open file on it, for blocks of any size.               *)
(***************************************************************************)
EXTENDS FatCursor, TLAPS

\* A word below the limit does not wrap around.
LEMMA WrapIsIdentity == \A n \in Word : Wrap(n) = n
BY WordAssumption DEF Word, Wrap

\* With whole clusters only, none of them reaches past the end.
LEMMA ClusterFits ==
  ASSUME NEW size \in ClusterSizes, NEW blocks \in Nat, NEW k \in Nat,
         k < blocks \div size
  PROVE  /\ k * size \in Nat
         /\ k * size + size <= blocks
<1>1. CASE size = 1
  BY <1>1
<1>2. CASE size = 2
  BY <1>2
<1>3. CASE size = 4
  BY <1>3
<1>4. CASE size = 8
  BY <1>4
<1>5. CASE size = 16
  BY <1>5
<1>6. CASE size = 32
  BY <1>6
<1>7. CASE size = 64
  BY <1>7
<1>8. CASE size = 128
  BY <1>8
<1> QED BY <1>1, <1>2, <1>3, <1>4, <1>5, <1>6, <1>7, <1>8 DEF ClusterSizes

-----------------------------------------------------------------------------
\* The numbers of a formatted volume: none of the sums of sd_detect() wraps.
LEMMA NumbersOfVolume ==
  ASSUME NEW b \in BootBlock, NEW off \in Word, NEW size \in Word,
         Formatted(b, off, size)
  PROVE  LET v == SdInfo(b, off, size) IN
         /\ b.cluster_size \in ClusterSizes /\ v.cluster_size = b.cluster_size
         /\ Data(b) \in Nat /\ b.fat_size \in Nat /\ b.reserved \in Nat
         /\ v.fat1 = off + b.reserved
         /\ v.fat2 = off + b.reserved + b.fat_size
         /\ v.cluster_offset = off + Data(b)
         /\ v.cluster_count = (size - Data(b)) \div b.cluster_size
<1>1. b.cluster_size \in ClusterSizes /\ b.reserved \in Word /\ b.fat_size \in Word
  BY DEF BootBlock
<1>2. /\ b.reserved \in Nat /\ b.fat_size \in Nat /\ Data(b) \in Nat
      /\ Data(b) = b.reserved + 2 * b.fat_size
      /\ Data(b) <= size /\ off + size < WORD
  BY <1>1, WordAssumption DEF Formatted, Data, Word
<1>3. Wrap(b.reserved + b.fat_size) = b.reserved + b.fat_size
  BY <1>2, WrapIsIdentity, WordAssumption DEF Word
<1>4. Wrap(b.reserved + b.fat_size + b.fat_size) = Data(b)
  BY <1>2, WrapIsIdentity, WordAssumption DEF Word
<1>5. /\ Wrap(b.reserved + off) = off + b.reserved
      /\ Wrap(b.reserved + b.fat_size + off) = off + b.reserved + b.fat_size
      /\ Wrap(Data(b) + off) = off + Data(b)
      /\ Wrap(size - Data(b)) = size - Data(b)
  BY <1>2, WrapIsIdentity, WordAssumption DEF Word
<1> QED BY <1>1, <1>2, <1>3, <1>4, <1>5 DEF SdInfo

\* The block of a cluster of a formatted volume.
LEMMA BlockOfCluster ==
  ASSUME NEW b \in BootBlock, NEW off \in Word, NEW size \in Word,
         Formatted(b, off, size), NEW c \in Nat
  PROVE  LET v == SdInfo(b, off, size)
             block == sd_cluster_to_block(v, c) IN
         IF 2 <= c /\ c < v.cluster_count + 2
         THEN /\ block = off + Data(b) + (c - 2) * b.cluster_size
              /\ (c - 2) * b.cluster_size \in Nat
              /\ block + b.cluster_size <= off + size
         ELSE block = 0
<1> DEFINE v == SdInfo(b, off, size)
<1>1. /\ b.cluster_size \in ClusterSizes /\ v.cluster_size = b.cluster_size
      /\ Data(b) \in Nat /\ v.cluster_offset = off + Data(b)
      /\ v.cluster_count = (size - Data(b)) \div b.cluster_size
  BY NumbersOfVolume
<1>2. /\ off \in Nat /\ size \in Nat /\ size - Data(b) \in Nat /\ off + size < WORD
  BY <1>1, WordAssumption DEF Formatted, Word
<1>3. v.cluster_count \in Nat
  BY <1>1, <1>2 DEF ClusterSizes
<1>4. CASE 2 <= c /\ c < v.cluster_count + 2
  <2>1. c - 2 \in Nat /\ c - 2 < v.cluster_count
    BY <1>3, <1>4
  <2>2. /\ (c - 2) * b.cluster_size \in Nat
        /\ (c - 2) * b.cluster_size + b.cluster_size <= size - Data(b)
    BY <1>1, <1>2, <2>1, ClusterFits
  <2>3. b.cluster_size \in Nat
    BY <1>1 DEF ClusterSizes
  <2>4. /\ Wrap((c - 2) * b.cluster_size) = (c - 2) * b.cluster_size
        /\ Wrap(off + Data(b) + (c - 2) * b.cluster_size)
             = off + Data(b) + (c - 2) * b.cluster_size
    <3> DEFINE d == (c - 2) * b.cluster_size
    <3>1. d \in Nat /\ d + b.cluster_size <= size - Data(b)
      BY <2>2
    <3> HIDE DEF d
    <3>2. d \in Word /\ off + Data(b) + d \in Word
      BY <1>1, <1>2, <2>3, <3>1, WordAssumption DEF Word
    <3> QED BY <3>2, WrapIsIdentity DEF d
  <2>5. sd_cluster_to_block(v, c) = off + Data(b) + (c - 2) * b.cluster_size
    BY <1>1, <1>3, <2>1, <2>4 DEF sd_cluster_to_block
  <2>6. off + Data(b) + (c - 2) * b.cluster_size + b.cluster_size <= off + size
    BY <1>1, <1>2, <2>2, <2>3
  <2> QED BY <1>4, <2>2, <2>5, <2>6
<1>5. CASE ~(2 <= c /\ c < v.cluster_count + 2)
  <2>1. sd_cluster_to_block(v, c) = 0
    BY <1>3, <1>5 DEF sd_cluster_to_block
  <2> QED BY <1>5, <2>1
<1> QED BY <1>4, <1>5

\* Clusters of a size do not overlap.
LEMMA ClustersInRow ==
  ASSUME NEW size \in ClusterSizes, NEW j \in Nat, NEW k \in Nat, j < k
  PROVE  j * size + size <= k * size
<1>1. CASE size = 1
  BY <1>1
<1>2. CASE size = 2
  BY <1>2
<1>3. CASE size = 4
  BY <1>3
<1>4. CASE size = 8
  BY <1>4
<1>5. CASE size = 16
  BY <1>5
<1>6. CASE size = 32
  BY <1>6
<1>7. CASE size = 64
  BY <1>7
<1>8. CASE size = 128
  BY <1>8
<1> QED BY <1>1, <1>2, <1>3, <1>4, <1>5, <1>6, <1>7, <1>8 DEF ClusterSizes

-----------------------------------------------------------------------------
\* The blocks of cluster c on the volume v.
BlocksOf(v, c) ==
  sd_cluster_to_block(v, c)..(sd_cluster_to_block(v, c) + v.cluster_size - 1)

(***************************************************************************)
(* A cluster that sd_cluster_to_block() accepts lies behind the two FATs   *)
(* and in the partition with all its blocks: none of the sums and shifts   *)
(* of sd_detect() and sd_cluster_to_block() wraps on a formatted volume.   *)
(***************************************************************************)
THEOREM ClustersInPlace ==
  ASSUME NEW b \in BootBlock, NEW off \in Word, NEW size \in Word,
         Formatted(b, off, size), NEW c \in Nat,
         sd_cluster_to_block(SdInfo(b, off, size), c) # 0
  PROVE  BlocksOf(SdInfo(b, off, size), c) \subseteq (off + Data(b))..(off + size - 1)
<1> DEFINE v == SdInfo(b, off, size)
           block == sd_cluster_to_block(v, c)
           d == (c - 2) * b.cluster_size
<1>1. /\ v.cluster_size = b.cluster_size /\ b.cluster_size \in Nat
      /\ Data(b) \in Nat /\ off \in Nat /\ size \in Nat
  BY NumbersOfVolume DEF ClusterSizes, Word
<1>2. /\ d \in Nat /\ block = off + Data(b) + d
      /\ block + b.cluster_size <= off + size
  BY BlockOfCluster
<1> HIDE DEF d, block
<1>3. \A n \in block..(block + v.cluster_size - 1) : n \in (off + Data(b))..(off + size - 1)
  BY <1>1, <1>2
<1> QED BY <1>3 DEF BlocksOf, block

(***************************************************************************)
(* Two clusters of a volume have no block in common.  (sd_cluster_to_block *)
(* in os/drivers/sdcard/sdasm.S)                                           *)
(***************************************************************************)
THEOREM ClustersApart ==
  ASSUME NEW b \in BootBlock, NEW off \in Word, NEW size \in Word,
         Formatted(b, off, size), NEW c \in Nat, NEW d \in Nat, c < d,
         sd_cluster_to_block(SdInfo(b, off, size), c) # 0,
         sd_cluster_to_block(SdInfo(b, off, size), d) # 0
  PROVE  BlocksOf(SdInfo(b, off, size), c) \cap BlocksOf(SdInfo(b, off, size), d) = {}
<1> DEFINE v == SdInfo(b, off, size)
           m == (c - 2) * b.cluster_size
           n == (d - 2) * b.cluster_size
<1>1. /\ v.cluster_size = b.cluster_size /\ b.cluster_size \in ClusterSizes
      /\ b.cluster_size \in Nat
      /\ Data(b) \in Nat /\ off \in Nat
  BY NumbersOfVolume DEF ClusterSizes, Word
<1>2. /\ 2 <= c /\ m \in Nat
      /\ sd_cluster_to_block(v, c) = off + Data(b) + m
  BY BlockOfCluster
<1>3. n \in Nat /\ sd_cluster_to_block(v, d) = off + Data(b) + n
  BY BlockOfCluster
<1>4. c - 2 \in Nat /\ d - 2 \in Nat /\ c - 2 < d - 2
  BY <1>2
<1>5. m + b.cluster_size <= n
  BY <1>1, <1>4, ClustersInRow
<1> HIDE DEF m, n, v
<1>6. \A k \in BlocksOf(v, c) : k \notin BlocksOf(v, d)
  BY <1>1, <1>2, <1>3, <1>5 DEF BlocksOf
<1> QED BY <1>6 DEF v

(***************************************************************************)
(* The entry of every cluster that fat_get() accepts is in the first FAT,  *)
(* so that following a chain reads neither the second FAT nor data.        *)
(***************************************************************************)
THEOREM EntriesInFat ==
  ASSUME NEW b \in BootBlock, NEW off \in Word, NEW size \in Word,
         Formatted(b, off, size), NEW c \in Nat,
         FatHas(SdInfo(b, off, size), c)
  PROVE  LET v == SdInfo(b, off, size) IN FatBlock(v, c) \in v.fat1..(v.fat2 - 1)
<1> DEFINE v == SdInfo(b, off, size)
<1>1. /\ b.cluster_size \in ClusterSizes
      /\ Data(b) \in Nat /\ b.fat_size \in Nat /\ b.reserved \in Nat
      /\ v.fat1 = off + b.reserved /\ v.fat2 = off + b.reserved + b.fat_size
      /\ v.cluster_count = (size - Data(b)) \div b.cluster_size
  BY NumbersOfVolume
<1>2. /\ off \in Nat /\ size \in Nat /\ size - Data(b) \in Nat /\ off + size < WORD
      /\ Data(b) = b.reserved + 2 * b.fat_size /\ b.reserved > 0
      /\ v.cluster_count + 2 <= 128 * b.fat_size
  BY <1>1, WordAssumption DEF Formatted, Word, Data
<1>3. v.cluster_count \in Nat /\ v.cluster_count <= size - Data(b)
  <2>1. ASSUME NEW s \in ClusterSizes
        PROVE  /\ (size - Data(b)) \div s \in Nat
               /\ (size - Data(b)) \div s <= size - Data(b)
    BY <1>2 DEF ClusterSizes
  <2> QED BY <1>1, <2>1
<1>4. v.cluster_count + 1 \in Word
  BY <1>1, <1>2, <1>3, WordAssumption DEF Word
<1>5. c <= v.cluster_count + 1
  BY <1>4, WrapIsIdentity DEF FatHas
<1>6. c \div 128 \in Nat /\ c \div 128 < b.fat_size
  BY <1>1, <1>2, <1>3, <1>5
<1>7. off + b.reserved + c \div 128 \in Word
  BY <1>1, <1>2, <1>6, WordAssumption DEF Word
<1>8. FatBlock(v, c) = off + b.reserved + c \div 128
  BY <1>1, <1>7, WrapIsIdentity DEF FatBlock
<1> QED BY <1>1, <1>2, <1>6, <1>8

(***************************************************************************)
(* Cards that are not SDHC take byte addresses.  As long as the partition  *)
(* ends below WORD bytes, the multiplication of sd_adjust_block_number()   *)
(* loses nothing: every block of every cluster has its own address.        *)
(***************************************************************************)
THEOREM BlocksAddressed ==
  ASSUME NEW b \in BootBlock, NEW off \in Word, NEW size \in Word,
         Formatted(b, off, size), 512 * (off + size) <= WORD,
         NEW c \in Nat, sd_cluster_to_block(SdInfo(b, off, size), c) # 0,
         NEW n \in BlocksOf(SdInfo(b, off, size), c)
  PROVE  sd_adjust_block_number(FALSE, n) = 512 * n
<1>1. n \in (off + Data(b))..(off + size - 1) /\ Data(b) \in Nat
  BY ClustersInPlace, NumbersOfVolume
<1>2. n \in Nat /\ 512 * n \in Word
  BY <1>1, WordAssumption DEF Word
<1> QED BY <1>2, WrapIsIdentity DEF sd_adjust_block_number

-----------------------------------------------------------------------------
\* A cursor in the middle of a block.
InBlock(cur) ==
  /\ cur \in [cluster : Nat, block : Nat \ {0}, offset : Nat, left : Nat]
  /\ cur.offset < EPB

(***************************************************************************)
(* A directory is read in its first block only, whatever its length: since *)
(* the offset is a bit field that cannot hold the size of a block, and the *)
(* last entry is refused, no read ever moves the cursor to the next block, *)
(* and the entries it returns are those in front of the last one.          *)
(* (fatfs_info_read_prepare, fatfs_info_read_dirent)                       *)
(***************************************************************************)
THEOREM OnlyFirstBlock ==
  ASSUME NEW v, NEW cur, InBlock(cur), NEW works \in BOOLEAN
  PROVE  LET r == fatfs_info_read_dirent(v, cur, works) IN
         /\ InBlock(r.cur)
         /\ r.cur.cluster = cur.cluster /\ r.cur.block = cur.block
         /\ r.res = "entry" => r.at.offset = cur.offset /\ cur.offset + 1 < EPB
         /\ r.res = "entry" => r.cur.offset = cur.offset + 1
         /\ r.res # "entry" => r.cur = cur
<1> DEFINE p == fatfs_info_read_prepare(v, cur, works)
           r == fatfs_info_read_dirent(v, cur, works)
<1>1. /\ cur.block # 0 /\ cur.offset \in Nat /\ cur.offset < EPB /\ EPB \in Nat
      /\ cur \in [cluster : Nat, block : Nat \ {0}, offset : Nat, left : Nat]
  BY FatCursorAssumption DEF InBlock
<1>2. p = [cur |-> cur, size |-> EPB - cur.offset]
  BY <1>1 DEF fatfs_info_read_prepare
<1>3. p.cur = cur /\ p.size = EPB - cur.offset /\ p.size # 0 /\ ~(p.size < 0) /\ p.size > 0
  BY <1>1, <1>2
<1> HIDE DEF p
<1>4. CASE ~works
  <2>1. r = Yields("EIO", cur, cur)
    BY <1>3, <1>4 DEF fatfs_info_read_dirent, p
  <2> QED BY <2>1 DEF Yields
<1>5. CASE works /\ p.size = 1
  <2>1. r = Yields("EINVAL", cur, cur)
    BY <1>3, <1>5, Zenon DEF fatfs_info_read_dirent, p
  <2> QED BY <2>1 DEF Yields
<1>6. CASE works /\ p.size # 1
  <2>1. r = Yields("entry", Behind(cur), cur)
    BY <1>3, <1>6 DEF fatfs_info_read_dirent, p
  <2>2. cur.offset + 1 < EPB /\ (cur.offset + 1) % EPB = cur.offset + 1
    BY <1>1, <1>3, <1>6
  <2>3. Behind(cur) = [cur EXCEPT !.offset = cur.offset + 1]
    BY <2>2 DEF Behind
  <2>4. /\ InBlock(Behind(cur)) /\ Behind(cur).offset = cur.offset + 1
        /\ Behind(cur).cluster = cur.cluster /\ Behind(cur).block = cur.block
    BY <1>1, <2>2, <2>3 DEF InBlock
  <2> QED BY <2>1, <2>2, <2>4 DEF Yields
<1> QED BY <1>4, <1>5, <1>6
=============================================================================
