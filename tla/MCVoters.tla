------------------------------- MODULE MCVoters -------------------------------
(***************************************************************************)
(* Two voters of one realm with one mint, over a clock that outlives the   *)
(* window of a grant.                                                      *)
(***************************************************************************)
EXTENDS EntrosVoterWeight

CONSTANTS r1, m1, g1, a1

OneMintRealm ==
  {[r \in Realm |-> [owner |-> g1, authority |-> a1,
                     community_mint |-> m1, council_mint |-> NoMint]]}
=============================================================================
