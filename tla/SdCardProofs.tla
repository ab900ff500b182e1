---------------------------- MODULE SdCardProofs ----------------------------
(***************************************************************************)
(* What SdCard promises of a detected card, for any set of cards and of    *)
(* blocks.  The invariants hold together once it is known that only a card *)
(* in the slot can be initialised.                                         *)
(***************************************************************************)
EXTENDS SdCard, TLAPS

IInv ==
  /\ TypeOK
  /\ GeometryOfTheCard
  /\ CacheOfTheCard
  /\ ready => card # NULL

\* The machine starts with nothing detected.
LEMMA InitIInv == Init => IInv
  BY SdAssumption, Zenon DEF Init, IInv, TypeOK, GeometryOfTheCard, CacheOfTheCard

\* What a transfer leaves in the block is well typed when there is a card.
LEMMA TransferType ==
  ASSUME card \in Cards, NEW w \in Blocks \cup {Csd}
  PROVE  Transfer(w) \subseteq (Cards \X (Blocks \cup {Csd})) \cup {Noise}
  BY DEF Transfer

\* Exchanging the card keeps the invariant.
LEMMA SlotStep == IInv /\ (InsertCard \/ RemoveCard) => IInv'
<1> SUFFICES ASSUME IInv, InsertCard \/ RemoveCard PROVE IInv'
    OBVIOUS
<1> USE SdAssumption DEF IInv
<1>1. CASE InsertCard
  <2>1. TypeOK'
      BY <1>1 DEF TypeOK, InsertCard
  <2>2. ~ready /\ ready' = ready
      BY <1>1 DEF InsertCard
  <2>3. GeometryOfTheCard' /\ CacheOfTheCard'
      BY <1>1, <2>2 DEF GeometryOfTheCard, CacheOfTheCard, InsertCard
  <2> QED BY <2>1, <2>2, <2>3
<1>2. CASE RemoveCard
  <2>1. TypeOK'
      BY <1>2, Zenon DEF TypeOK, RemoveCard
  <2>2. GeometryOfTheCard' /\ CacheOfTheCard'
      BY <1>2 DEF GeometryOfTheCard, CacheOfTheCard, RemoveCard
  <2> QED BY <1>2, <2>1, <2>2 DEF RemoveCard
<1> QED BY <1>1, <1>2

\* Detection that fails forgets the old card, whatever it leaves behind.
LEMMA FailStep ==
  ASSUME IInv, NEW init \in BOOLEAN,
         NEW b \in (Cards \X (Blocks \cup {Csd})) \cup {Noise},
         init => card # NULL, DetectFails(init, b)
  PROVE  IInv'
  BY Zenon DEF IInv, TypeOK, GeometryOfTheCard, CacheOfTheCard, DetectFails, Cleared

\* Detection keeps the invariant, wherever it gives up.
LEMMA DetectStep == IInv /\ (sd_detect \/ sd_redetect) => IInv'
<1> SUFFICES ASSUME IInv, sd_detect \/ sd_redetect PROVE IInv'
    OBVIOUS
<1> USE SdAssumption
<1>t. TypeOK /\ (ready => card # NULL)
    BY DEF IInv
<1>1. CASE DetectExisting
    BY <1>1 DEF IInv, TypeOK, GeometryOfTheCard, CacheOfTheCard, DetectExisting
<1>2. CASE DetectNoCard
  <2>1. CASE DetectFails(FALSE, block)
      BY <2>1, <1>t, FailStep, Zenon DEF TypeOK
  <2>2. CASE DetectFails(ready, block)
    <3>1. ready \in BOOLEAN /\ block \in (Cards \X (Blocks \cup {Csd})) \cup {Noise}
        BY <1>t DEF TypeOK
    <3> QED BY <3>1, <2>2, <1>t, FailStep
  <2> QED BY <1>2, <2>1, <2>2, Zenon DEF DetectNoCard
<1>3. CASE DetectNoData
    BY <1>3, <1>t, FailStep, Zenon DEF DetectNoData, TypeOK
<1>4. CASE DetectNoSize
  <2>1. card \in Cards
      BY <1>4, <1>t DEF DetectNoSize, TypeOK
  <2>2. PICK b \in Transfer(Csd) : DetectFails(TRUE, b)
      BY <1>4, Zenon DEF DetectNoSize
  <2>3. b \in (Cards \X (Blocks \cup {Csd})) \cup {Noise}
      BY <2>1, <2>2, TransferType
  <2> QED BY <2>1, <2>2, <2>3, FailStep, Zenon
<1>5. CASE DetectNoBoot
  <2>1. card \in Cards
      BY <1>5, <1>t DEF DetectNoBoot, TypeOK
  <2>2. PICK b \in Transfer(0) : DetectFails(TRUE, b)
      BY <1>5, Zenon DEF DetectNoBoot
  <2>3. b \in (Cards \X (Blocks \cup {Csd})) \cup {Noise}
      BY <2>1, <2>2, TransferType
  <2> QED BY <2>1, <2>2, <2>3, FailStep, Zenon
<1>6. CASE DetectNoVolume
  <2>1. card \in Cards
      BY <1>6, <1>t DEF DetectNoVolume, TypeOK
  <2>2. PICK b \in Transfer(PartitionStart[card]) : DetectFails(TRUE, b)
      BY <1>6, Zenon DEF DetectNoVolume
  <2>3. b \in (Cards \X (Blocks \cup {Csd})) \cup {Noise}
      BY <2>1, <2>2, TransferType
  <2> QED BY <2>1, <2>2, <2>3, FailStep, Zenon
<1>7. CASE DetectNew
    BY <1>7, <1>t
       DEF IInv, TypeOK, GeometryOfTheCard, CacheOfTheCard, DetectNew, CacheEmptied
<1> QED BY <1>1, <1>2, <1>3, <1>4, <1>5, <1>6, <1>7 DEF sd_detect, sd_redetect, DetectFull

\* Reading through the cache keeps the invariant: a card that answers while
\* it counts as detected is the one that sd_info describes.
LEMMA CacheStep ==
  ASSUME IInv, NEW b \in Blocks, sd_cache_read(b)
  PROVE  IInv'
<1> USE SdAssumption DEF IInv
<1>1. CASE CacheHit(b)
    BY <1>1 DEF TypeOK, GeometryOfTheCard, CacheOfTheCard, CacheHit
<1>2. CASE CacheReadFails(b)
    BY <1>2 DEF TypeOK, GeometryOfTheCard, CacheOfTheCard, CacheReadFails
<1>3. CASE CacheReadWorks(b)
  <2>1. card \in Cards /\ block' \in Transfer(b)
      BY <1>3 DEF CacheReadWorks, TypeOK
  <2>2. TypeOK'
      BY <1>3, <2>1, TransferType DEF CacheReadWorks, TypeOK
  <2>3. GeometryOfTheCard' /\ CacheOfTheCard' /\ (ready => card # NULL)'
      BY <1>3, <2>1 DEF CacheReadWorks, GeometryOfTheCard, CacheOfTheCard, Transfer
  <2> QED BY <2>2, <2>3
<1> QED BY <1>1, <1>2, <1>3 DEF sd_cache_read

\* The invariant holds in every reachable state.
LEMMA SpecIInv == Spec => []IInv
<1>1. IInv /\ UNCHANGED sdVars => IInv'
    BY DEF IInv, TypeOK, GeometryOfTheCard, CacheOfTheCard, sdVars
<1>2. IInv /\ Next => IInv'
    BY SlotStep, DetectStep, CacheStep DEF Next
<1> QED BY <1>1, <1>2, InitIInv, PTL DEF Spec

(***************************************************************************)
(* The state of the driver keeps its types.  (sd_info_t)                   *)
(***************************************************************************)
THEOREM SdTypes == Spec => []TypeOK
  BY SpecIInv, PTL DEF IInv

(***************************************************************************)
(* A card that counts as detected is described by its own geometry, and no *)
(* other card answers.  (sd_detect)                                        *)
(***************************************************************************)
THEOREM GeometryIsRight == Spec => []GeometryOfTheCard
  BY SpecIInv, PTL DEF IInv

(***************************************************************************)
(* While a card is detected the cache holds its blocks, or noise.          *)
(* (sd_cache_read, sd_detect)                                              *)
(***************************************************************************)
THEOREM CacheIsRight == Spec => []CacheOfTheCard
  BY SpecIInv, PTL DEF IInv
=============================================================================
