------------------------------ MODULE MCFatDir ------------------------------
(***************************************************************************)
(* Directories of two blocks.  The second block is empty, to keep the      *)
(* number of directories small: the cursor never gets there.               *)
(***************************************************************************)
EXTENDS FatDir

MCInit == Init /\ \A k \in Place : k > EPB => dir[k] = "end"
MCSpec == MCInit /\ [][Next]_vars /\ WF_vars(Step)
=============================================================================
