------------------------------- MODULE MCAdmin -------------------------------
(***************************************************************************)
(* One realm that governs with a community and a council mint, whose       *)
(* authority passes between two keys or is given up, beside a governance   *)
(* program that does not own the realm.                                    *)
(***************************************************************************)
EXTENDS VotingHistory, TLC

CONSTANTS r1, m1, m2, g1, g2, a1, a2

CouncilRealm ==
  {[r \in Realm |-> [owner |-> g1, authority |-> a1,
                     community_mint |-> m1, council_mint |-> m2]]}
=============================================================================
