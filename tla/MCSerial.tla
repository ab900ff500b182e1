------------------------------ MODULE MCSerial ------------------------------
(***************************************************************************)
(* Serial for TLC: a ring of six bytes over a two-letter alphabet.         *)
(***************************************************************************)
EXTENDS Serial
CONSTANTS a, b
MCBytes == {a, b}
=============================================================================
