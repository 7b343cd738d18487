---------------------------- MODULE VotingHistory ----------------------------
(***************************************************************************)
(* The program with two history variables, which no action reads: when     *)
(* each owner was last entitled, and who signed the last transaction.      *)
(***************************************************************************)
EXTENDS EntrosVoterWeight

VARIABLES
  last_entitled,   \* record address -> last slot at which its owner was entitled
  signer           \* signer of the last step; Nobody for the environment's

historyVars == <<vars, last_entitled, signer>>

HistoryInit ==
  /\ Init
  /\ last_entitled = [q \in VoterWeightRecordAddress |-> 0]
  /\ signer = Nobody

Remember ==
  last_entitled' = [q \in VoterWeightRecordAddress |->
                      IF Entitled(q)' THEN slot' ELSE last_entitled[q]]

HistoryNext ==
  /\ \/ Environs /\ signer' = Nobody
     \/ \E s \in Signer : Instruction(s) /\ signer' = s
  /\ Remember

HistorySpec == HistoryInit /\ [][HistoryNext]_historyVars

HistoryTypeOK ==
  /\ TypeOK
  /\ last_entitled \in [VoterWeightRecordAddress -> 0 .. slot]
  /\ signer \in Signer \cup {Nobody}

-----------------------------------------------------------------------------

\* How stale a usable weight can be: a verification that ages, a score that
\* drops, a policy that tightens or a registrar that is closed ends the weight
\* at most ExpirySlots slots after its owner was last entitled.
RevocationLag ==
  \A q \in VoterWeightRecordAddress :
    Usable(q) => slot - last_entitled[q] <= ExpirySlots

\* A step of the realm's authority that reaches the owner field, and that only.
OwnerFieldOnly(q) ==
  /\ q[3] \in TagNone \cup TagSome
  /\ signer' = realm[q[1]].authority
  /\ voter_weight_record'[q] # NoAccount
  /\ GrantKept(q)
  /\ voter_weight_record'[q].realm = voter_weight_record[q].realm
  /\ voter_weight_record'[q].governing_token_mint
       = voter_weight_record[q].governing_token_mint

\* Nobody but its owner can create, refresh or close a voter weight record,
\* whichever registrar, record and identity accounts a transaction passes.  The
\* one other change is to the owner field, by the authority the realm has at
\* that moment, and only where the owner's key decodes as part of a max record
\* (update_max_voter_weight_record.rs compares no discriminator).
OwnerConsent ==
  [][ \A q \in VoterWeightRecordAddress :
        voter_weight_record'[q] # voter_weight_record[q] =>
          signer' = q[3] \/ OwnerFieldOnly(q) ]_historyVars

\* A policy and a quorum base are in the hands of the authority the realm has
\* at that moment, and of nobody else: not of a former authority, and not of
\* the authority of another realm.
AuthorityConsent ==
  [][ \A p \in RegistrarAddress :
        \/ registrar'[p] # registrar[p]
        \/ max_voter_weight_record'[p] # max_voter_weight_record[p]
        => signer' = realm[p[1]].authority ]_historyVars
=============================================================================
