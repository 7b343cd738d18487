------------------------------ MODULE MCHistory ------------------------------
(***************************************************************************)
(* Two voters whose entitlement comes and goes: verifications age, scores  *)
(* drop and the policy moves while weights are in use.  Both have keys     *)
(* that decode as part of a max record, one with None and one with Some.   *)
(***************************************************************************)
EXTENDS VotingHistory

CONSTANTS r1, m1, g1, a1

OneMintRealm ==
  {[r \in Realm |-> [owner |-> g1, authority |-> a1,
                     community_mint |-> m1, council_mint |-> NoMint]]}
=============================================================================
