------------------------- MODULE MaxVoterWeightRecord -------------------------
(***************************************************************************)
(* The max voter weight records: one per realm and mint, the size of the   *)
(* electorate that spl-governance measures its quorum against.  The        *)
(* program has no instruction that closes one.                             *)
(*                                                                         *)
(* Updating one compares realm and mint of the account passed, which a     *)
(* voter weight record has at the same place, and no discriminator.        *)
(***************************************************************************)
EXTENDS VoterWeightRecord

CONSTANTS
  MaxVoterWeight,   \* values of the max_voter_weight argument (u64)
  NeverExpires      \* max_voter_weight_expiry = None

ASSUME MaxVoterWeightAssumption ==
  /\ MaxVoterWeight \subseteq U64
  /\ NeverExpires \notin U64

VARIABLE max_voter_weight_record   \* address -> MaxVoterWeightRecord, or NoAccount

\* Seeds "max-voter-weight-record", realm, governing_token_mint.
MaxVoterWeightRecordPda(r, m) == <<r, m>>

MaxVoterWeightRecordAddress == Realm \X Mint

MaxVoterWeightRecordAccount ==
  [realm : Realm, governing_token_mint : Mint,
   max_voter_weight : MaxVoterWeight \cup {0},
   max_voter_weight_expiry : {0, NeverExpires}]

ASSUME MaxVoterWeightRecordDistinct == NoAccount \notin MaxVoterWeightRecordAccount

MaxVoterWeightRecordTypeOK ==
  max_voter_weight_record \in
    [MaxVoterWeightRecordAddress -> MaxVoterWeightRecordAccount \cup {NoAccount}]

MaxVoterWeightRecordInit ==
  max_voter_weight_record = [q \in MaxVoterWeightRecordAddress |-> NoAccount]

-----------------------------------------------------------------------------

\* Mutant: zero is accepted.
PositiveMaxWeightOrZero(weight) == weight >= 0

\* Zero would make a quorum unreachable.
PositiveMaxWeight(weight) == weight > 0

\* Mutant: the realms are not compared.
MaxRecordOfMint(q, p) ==
  /\ max_voter_weight_record[q] # NoAccount
  /\ max_voter_weight_record[q].governing_token_mint = registrar[p].governing_token_mint

\* The record passed belongs to the realm and the mint of the registrar passed.
MaxRecordOfRegistrar(q, p) ==
  /\ max_voter_weight_record[q] # NoAccount
  /\ max_voter_weight_record[q].realm = registrar[p].realm
  /\ max_voter_weight_record[q].governing_token_mint = registrar[p].governing_token_mint

CreateMaxVoterWeightRecord(p, r, signer) ==
  LET m == registrar[p].governing_token_mint
      q == MaxVoterWeightRecordPda(registrar[p].realm, m)
  IN  /\ AdminOf(p, r, signer)
      /\ max_voter_weight_record[q] = NoAccount
      /\ max_voter_weight_record' = [max_voter_weight_record EXCEPT ![q] =
           [realm |-> registrar[p].realm, governing_token_mint |-> m,
            max_voter_weight |-> 0, max_voter_weight_expiry |-> 0]]

UpdateMaxVoterWeightRecord(p, q, r, signer, weight) ==
  /\ AdminOf(p, r, signer)
  /\ MaxRecordOfRegistrar(q, p)
  /\ PositiveMaxWeight(weight)
  /\ max_voter_weight_record' = [max_voter_weight_record EXCEPT
       ![q].max_voter_weight = weight,
       ![q].max_voter_weight_expiry = NeverExpires]

\* A voter weight record decodes as a max voter weight record: the byte of the
\* owner field where the tag of the expiry is read is a tag.
DecodesAsMaxRecord(q) ==
  voter_weight_record[q].governing_token_owner \in TagNone \cup TagSome \cup {Overwritten}

\* What the owner field may hold afterwards: the weight over its first bytes,
\* then the tag of None.  A key that has that tag anyway comes back when the
\* weight is the number its own first bytes are.
OwnerAfter(q) == {Overwritten} \cup ({q[3]} \cap TagNone)

\* update_max_voter_weight_record, passed a voter weight record: the owner field
\* lies where a max voter weight record has its weight and its expiry.
OverwriteOwner(p, q, r, signer, weight) ==
  /\ AdminOf(p, r, signer)
  /\ RecordOfRegistrar(q, p)
  /\ DecodesAsMaxRecord(q)
  /\ PositiveMaxWeight(weight)
  /\ \E owner \in OwnerAfter(q) :
       voter_weight_record' = [voter_weight_record EXCEPT
         ![q].governing_token_owner = owner]

MaxVoterWeightRecordNext(signer) ==
  \E p \in RegistrarAddress, r \in Realm :
    \/ /\ CreateMaxVoterWeightRecord(p, r, signer)
       /\ UNCHANGED voter_weight_record
    \/ \E weight \in MaxVoterWeight :
         \/ /\ \E q \in MaxVoterWeightRecordAddress :
                 UpdateMaxVoterWeightRecord(p, q, r, signer, weight)
            /\ UNCHANGED voter_weight_record
         \/ /\ \E q \in VoterWeightRecordAddress :
                 OverwriteOwner(p, q, r, signer, weight)
            /\ UNCHANGED max_voter_weight_record
=============================================================================
