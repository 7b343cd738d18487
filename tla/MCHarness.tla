------------------------------ MODULE MCHarness ------------------------------
(***************************************************************************)
(* Two runs of the localnet script at the same time, on a machine where    *)
(* another program comes and goes at the test ports.                       *)
(***************************************************************************)
EXTENDS LocalnetHarness
=============================================================================
