------------------------------- MODULE MCPath -------------------------------
(***************************************************************************)
(* Buffers of six characters and paths of up to four, with one letter.     *)
(***************************************************************************)
EXTENDS Path

MCLetters == {"a"}
MCHome == <<"/", "a">>
=============================================================================
