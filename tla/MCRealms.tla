------------------------------- MODULE MCRealms -------------------------------
(***************************************************************************)
(* Two realms of two governance programs, each with its own authority,     *)
(* governing with the same mint; a wallet that votes in both.              *)
(***************************************************************************)
EXTENDS VotingHistory, TLC

CONSTANTS r1, r2, m1, g1, g2, a1, a2

TwoRealms ==
  {[r \in Realm |-> [owner |-> IF r = r1 THEN g1 ELSE g2,
                     authority |-> IF r = r1 THEN a1 ELSE a2,
                     community_mint |-> m1, council_mint |-> NoMint]]}
=============================================================================
