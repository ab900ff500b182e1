------------------------------- MODULE SdCard -------------------------------
(***************************************************************************)
(* SD card detection and the block cache: os/drivers/sdcard/sdcard.c.      *)
(*                                                                         *)
(* The card is external: one can be inserted or removed between any two    *)
(* calls, may refuse or not answer any command, and may accept a read and  *)
(* never start the transfer.  A card that has not been through CMD0 and    *)
(* ACMD41 since it was inserted refuses the commands that read from it.    *)
(*                                                                         *)
(* sd_info.block is shared by the cache, by the card-specific data and by  *)
(* the boot blocks that detection reads; it is modelled as what it holds:  *)
(* a block of a card, its card-specific data, or noise.  The numbers that  *)
(* detection computes are modelled as the card they describe.              *)
(***************************************************************************)
EXTENDS Naturals

CONSTANTS
  Cards,          \* SD cards that exist
  PartitionStart, \* block where the partition of a card starts, 0 if it has none
  Unsupported,    \* cards that hold no FAT32 volume
  Blocks,         \* block numbers
  NULL, Csd, Noise

ASSUME SdAssumption ==
  /\ 0 \in Blocks /\ PartitionStart \in [Cards -> Blocks]
  /\ Unsupported \subseteq Cards /\ NULL \notin Cards
  /\ Csd \notin Blocks

VARIABLES
  card,     \* the card in the slot
  ready,    \* that card has been initialised
  detect,   \* sd_info.detect # 0
  geometry, \* the card that sd_info describes, NULL if it mixes several
  block,    \* contents of sd_info.block
  cblock,   \* sd_info.cache_block
  mode,     \* sd_info.cache_mode: SD_C_EMPTY or SD_C_READ
  inUse,    \* block numbers of a card have been given out
  ret       \* result of the last call

sdVars == <<card, ready, detect, geometry, block, cblock, mode, inUse, ret>>

Init ==
  /\ card \in Cards \cup {NULL}
  /\ ready = FALSE
  /\ detect = FALSE
  /\ geometry = NULL
  /\ block = Noise
  /\ cblock = 0
  /\ mode = "empty"
  /\ inUse = FALSE
  /\ ret = "none"

-----------------------------------------------------------------------------
(***************************************************************************)
(* The slot.                                                               *)
(***************************************************************************)
InsertCard ==
  /\ card = NULL
  /\ card' \in Cards
  /\ UNCHANGED <<ready, detect, geometry, block, cblock, mode, inUse, ret>>

RemoveCard ==
  /\ card # NULL
  /\ card' = NULL
  /\ ready' = FALSE
  /\ UNCHANGED <<detect, geometry, block, cblock, mode, inUse, ret>>

(***************************************************************************)
(* What a transfer leaves in sd_info.block.  sd_wait_for_start() returns   *)
(* 0xFF when the transfer does not start in time, and its callers only     *)
(* test for zero.                                                          *)
(***************************************************************************)
Transfer(what) == {<<card, what>>, Noise}

-----------------------------------------------------------------------------
(***************************************************************************)
(* sd_detect() when the card that was detected before answers the query    *)
(* for its identification.                                                 *)
(***************************************************************************)
DetectExisting ==
  /\ detect /\ card # NULL /\ ready
  /\ ret' = "existing"
  /\ UNCHANGED <<card, ready, detect, geometry, block, cblock, mode, inUse>>

(***************************************************************************)
(* sd_detect() from the beginning, because nothing is detected or the      *)
(* query failed.  DetectFails(init, b) is the way out through "fail" with  *)
(* the card initialised if init, and b left in the block.                  *)
(***************************************************************************)

\* Slip: the old state is kept until the new one is complete.
ClearedLate == UNCHANGED <<detect, geometry>>

Cleared == detect' = FALSE /\ geometry' = NULL

DetectFails(init, b) ==
  /\ Cleared
  /\ ready' = init
  /\ block' = b
  /\ ret' = "none"
  /\ UNCHANGED <<card, cblock, mode, inUse>>

\* CMD0, CMD8, ACMD41: the card does not answer, or gives up.
DetectNoCard == DetectFails(FALSE, block) \/ DetectFails(ready, block)

\* CMD58 or CMD9 fails.
DetectNoData == card # NULL /\ DetectFails(TRUE, block)

\* The card-specific data is not understood, or sd_read(0) fails after it.
DetectNoSize == card # NULL /\ \E b \in Transfer(Csd) : DetectFails(TRUE, b)

\* Block 0 is no boot block of FAT32, or reading the first block of the
\* partition fails after it.
DetectNoBoot ==
  /\ card # NULL
  /\ \E b \in Transfer(0) :
       /\ b = Noise \/ card \in Unsupported \/ PartitionStart[card] # 0
       /\ DetectFails(TRUE, b)

\* The first block of the partition is not one of FAT32.
DetectNoVolume ==
  /\ card # NULL /\ PartitionStart[card] # 0
  /\ \E b \in Transfer(PartitionStart[card]) :
       /\ b = Noise \/ card \in Unsupported
       /\ DetectFails(TRUE, b)

\* Slip: the cache is not emptied.
CacheKept == UNCHANGED <<cblock, mode>>

CacheEmptied == cblock' = 0 /\ mode' = "empty"

DetectNew ==
  /\ card # NULL /\ card \notin Unsupported
  /\ ready' = TRUE
  /\ detect' = TRUE
  /\ geometry' = card
  /\ block' = <<card, PartitionStart[card]>>
  /\ CacheEmptied
  /\ inUse' = TRUE
  /\ ret' = "new"
  /\ UNCHANGED card

DetectFull ==
  \/ DetectNoCard \/ DetectNoData \/ DetectNoSize \/ DetectNoBoot \/ DetectNoVolume
  \/ DetectNew

sd_detect == DetectExisting \/ DetectFull

sd_redetect == DetectFull

-----------------------------------------------------------------------------
(***************************************************************************)
(* sd_cache_read(b): a hit, or an empty cache and an attempt to read.      *)
(* Whoever calls it got b from a card that was detected, perhaps long ago: *)
(* an open file or directory keeps its block number.                       *)
(***************************************************************************)
Hit(b) == b = cblock /\ mode # "empty"

CacheHit(b) ==
  /\ Hit(b)
  /\ ret' = "ready"
  /\ UNCHANGED <<card, ready, detect, geometry, block, cblock, mode, inUse>>

\* sd_read() is refused, or the transfer starts with a zero.
CacheReadFails(b) ==
  /\ ~Hit(b)
  /\ cblock' = IF mode = "empty" THEN cblock ELSE 0
  /\ mode' = "empty"
  /\ ret' = "error"
  /\ UNCHANGED <<card, ready, detect, geometry, block, inUse>>

CacheReadWorks(b) ==
  /\ ~Hit(b)
  /\ card # NULL /\ ready
  /\ block' \in Transfer(b)
  /\ cblock' = b
  /\ mode' = "read"
  /\ ret' = "ready"
  /\ UNCHANGED <<card, ready, detect, geometry, inUse>>

sd_cache_read(b) == inUse /\ (CacheHit(b) \/ CacheReadFails(b) \/ CacheReadWorks(b))

Next ==
  \/ InsertCard \/ RemoveCard
  \/ sd_detect \/ sd_redetect
  \/ \E b \in Blocks : sd_cache_read(b)

Spec == Init /\ [][Next]_sdVars

-----------------------------------------------------------------------------
(***************************************************************************)
(* Type invariant.  (sd_info_t)                                            *)
(***************************************************************************)
TypeOK ==
  /\ card \in Cards \cup {NULL}
  /\ ready \in BOOLEAN
  /\ detect \in BOOLEAN
  /\ geometry \in Cards \cup {NULL}
  /\ block \in (Cards \X (Blocks \cup {Csd})) \cup {Noise}
  /\ cblock \in Blocks
  /\ mode \in {"empty", "read"}
  /\ inUse \in BOOLEAN
  /\ ret \in {"none", "existing", "new", "ready", "error"}

(***************************************************************************)
(* A detected card is described completely and by its own geometry, and it *)
(* is the only card that answers: however cards are exchanged and wherever *)
(* detection gives up, the block numbers of one card are never used to     *)
(* read another one while it counts as detected.  (sd_detect)              *)
(***************************************************************************)
GeometryOfTheCard ==
  detect => /\ geometry \in Cards \ Unsupported
            /\ ready => card = geometry

(***************************************************************************)
(* While a card is detected, a cached block is that block of that card, or *)
(* noise from a transfer that never started: it is not one of an earlier   *)
(* card, nor what detection read into the same memory.  (sd_detect,        *)
(* sd_cache_read)                                                          *)
(***************************************************************************)
CacheOfTheCard ==
  detect /\ mode # "empty" => block \in {<<geometry, cblock>>, Noise}

-----------------------------------------------------------------------------
(***************************************************************************)
(* os/drivers/sdcard/sdcard.h on cache_mode: "Mode for the cached block (0 *)
(* if nothing cached)".  So where it is not 0, what sd_info.block holds    *)
(* came from reading cache_block.                                          *)
(***************************************************************************)
CacheHoldsItsBlock ==
  mode # "empty" => \/ block = Noise
                    \/ \E c \in Cards : block = <<c, cblock>>

(***************************************************************************)
(* os/drivers/sdcard/sdcard.h on sd_cache_read(): "SD_R1_READY if the      *)
(* block was read successfully".                                           *)
(***************************************************************************)
ReadyMeansRead == ret = "ready" => block # Noise
=============================================================================
