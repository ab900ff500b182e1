------------------------------ MODULE MCFatName ------------------------------
(***************************************************************************)
(* Names of two characters in front of the dot and two behind it.          *)
(***************************************************************************)
EXTENDS FatName
==============================================================================
