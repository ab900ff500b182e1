------------------------------ MODULE UserAlloc ------------------------------
(***************************************************************************)
(* The allocator of user space and the copying of argument arrays          *)
(* (os/kmalloc.c).                                                         *)
(*                                                                         *)
(* A block is the address of its header and its size without the header,   *)
(* in bytes.  The headers are in memory: a block stays what it is as long  *)
(* as nobody else writes over it.  An argument is its length, or NULL.     *)
(***************************************************************************)
EXTENDS Integers, Sequences, FiniteSets, SequencesExt

CONSTANTS
  HEADER,    \* sizeof(struct kmalloc_user_block), 4
  POINTER,   \* sizeof(char *), 2
  WORD,      \* values of a size_t, 2^16
  KMALLOC_MIN_BLOCK_SIZE,
  SPACE,     \* bytes from user_space_ram_start to user_space_ram_end
  RAM,       \* bound: bytes of memory that behaviours are followed in
  ARGC_MAX,  \* CONFIG_ARGC_MAX
  ARG_MAX,   \* CONFIG_ARG_MAX
  Sizes,     \* sizes that are asked for, none of them 0
  Argvs,     \* argument arrays that are copied
  NULL

VARIABLES
  free, \* free_blocks, the list of free blocks
  live, \* blocks in use, with the slots of an argument array
  ret   \* the last result

vars == <<free, live, ret>>

Init ==
  /\ free = <<[at |-> 0, size |-> SPACE - HEADER]>>
  /\ live = {} /\ ret = NULL

Data(block) == block.at + HEADER
End(block)  == Data(block) + block.size

Rounded(size) == ((size + 3) \div 4) * 4

-----------------------------------------------------------------------------
(***************************************************************************)
(* kmalloc_user_alloc(): the first block that fits, split if the unsigned  *)
(* difference of the sizes says so.  The address of the second part counts *)
(* the size in headers, because the sum is one of pointers to headers.     *)
(***************************************************************************)
FirstFit(size) == SelectInSeq(free, LAMBDA b : b.size >= size)

Splits(block, size) == (size - block.size) % WORD >= KMALLOC_MIN_BLOCK_SIZE

SecondPart(block, size) ==
  [at |-> Data(block) + HEADER * size, size |-> (block.size - size - HEADER) % WORD]

\* The free list and the block taken from it, i being the first that fits.
Taken(i, size) ==
  LET b == free[i] IN
  IF Splits(b, size)
  THEN [free |-> ReplaceAt(free, i, SecondPart(b, size)), block |-> [b EXCEPT !.size = size]]
  ELSE [free |-> RemoveAt(free, i), block |-> b]

InRam(t) == \A i \in 1..Len(t.free) : t.free[i].at + HEADER <= RAM

Alloc(asked, slots) ==
  LET size == Rounded(asked)
      i == FirstFit(size) IN
  \/ /\ i = 0
     /\ ret' = NULL /\ UNCHANGED <<free, live>>
  \/ /\ i # 0
     /\ LET t == Taken(i, size) IN
        /\ InRam(t)
        /\ free' = t.free
        /\ live' = live \cup {[at |-> t.block.at, size |-> t.block.size, slots |-> slots]}
        /\ ret' = Data(t.block)

kmalloc_user_alloc(size) == Alloc(size, <<>>)

(***************************************************************************)
(* kmalloc_user_free(): back into the list by address, combined with the   *)
(* block behind it and the block in front of it if they touch.             *)
(***************************************************************************)
\* The list with the block in front of position j, combined with what is there.
WithNext(b, j) ==
  IF j <= Len(free) /\ End(b) = free[j].at
  THEN [block |-> [b EXCEPT !.size = @ + HEADER + free[j].size], free |-> RemoveAt(free, j)]
  ELSE [block |-> b, free |-> free]

PutBack(b) ==
  LET after == SelectInSeq(free, LAMBDA c : c.at > b.at)
      j == IF after = 0 THEN Len(free) + 1 ELSE after
      w == WithNext(b, j) IN
  IF j > 1 /\ End(w.free[j - 1]) = b.at
  THEN ReplaceAt(w.free, j - 1,
         [w.free[j - 1] EXCEPT !.size = @ + HEADER + w.block.size])
  ELSE InsertAt(w.free, j, w.block)

kmalloc_user_free(b) ==
  /\ free' = PutBack([at |-> b.at, size |-> b.size])
  /\ live' = live \ {b}
  /\ ret' = NULL

-----------------------------------------------------------------------------
(***************************************************************************)
(* kmalloc_copy_argv(): the slots for the pointers, then the strings with  *)
(* their ends.  Only the slot behind the last argument is ever written.    *)
(***************************************************************************)
ArgLen(arg) == IF arg = NULL THEN 0 ELSE IF arg < ARG_MAX THEN arg ELSE ARG_MAX

\* The sum of the lengths of the first n arguments, with their ends.
Strings(argv, n) ==
  FoldLeft(LAMBDA sum, arg : sum + ArgLen(arg) + 1, 0, SubSeq(argv, 1, n))

Clamp(argc) == IF argc > ARGC_MAX THEN ARGC_MAX ELSE argc

CopySize(argv) == (Clamp(Len(argv)) + 1) * POINTER + Strings(argv, Clamp(Len(argv)))

kmalloc_copy_argv(argv) ==
  LET argc == Clamp(Len(argv)) IN
  Alloc(CopySize(argv),
        [i \in 1..(argc + 1) |-> IF i = argc + 1 THEN "null" ELSE "unset"])

-----------------------------------------------------------------------------
Next ==
  \/ \E size \in Sizes : kmalloc_user_alloc(size)
  \/ \E b \in live : kmalloc_user_free(b)
  \/ \E argv \in Argvs : kmalloc_copy_argv(argv)

Spec == Init /\ [][Next]_vars

-----------------------------------------------------------------------------
\* As the comment on kmalloc_user_alloc() has it, memory is allocated in user
\* space.
InUserSpace == \A b \in live : End(b) <= SPACE

\* As the comment on KMALLOC_MIN_BLOCK_SIZE has it, a block is not split if
\* what remains is smaller than that.
NoSmallRests ==
  \A i \in 1..Len(free), size \in Sizes :
    free[i].size >= Rounded(size) /\ Splits(free[i], Rounded(size)) =>
      free[i].size - Rounded(size) >= KMALLOC_MIN_BLOCK_SIZE

\* As the comment on kmalloc_copy_argv() has it, the argument array is copied:
\* its slots point to the copies.
ArgvPointsToCopies ==
  \A b \in live : \A i \in 1..(Len(b.slots) - 1) : b.slots[i] # "unset"
==============================================================================
