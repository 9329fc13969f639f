------------------------------ MODULE Nothing ------------------------------
(***************************************************************************)
(* The value of what is not there, one and the same in all modules that an *)
(* instance puts side by side.                                             *)
(***************************************************************************)
CONSTANT None
=============================================================================
