------------------------------- MODULE MCLayout -------------------------------
(***************************************************************************)
(* Accounts of every type over three keys, with numbers on both sides of a   *)
(* byte boundary, and identity accounts around the shortest legal length.  *)
(***************************************************************************)
EXTENDS AccountLayout
=============================================================================
