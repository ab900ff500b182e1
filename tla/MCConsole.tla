------------------------------ MODULE MCConsole ------------------------------
(***************************************************************************)
(* Lines of up to two characters.                                          *)
(***************************************************************************)
EXTENDS Console
MCLetters == {"x", "y"}
==============================================================================
