-------------------------- MODULE VoterWeightRecord --------------------------
(***************************************************************************)
(* The voter weight records: one per realm, mint and governing token       *)
(* owner.  An owner creates the record, refreshes it against the owner's   *)
(* IdentityState and the registrar's policy, and closes it.                *)
(*                                                                         *)
(* Refreshing and closing compare the FIELDS of the record passed with     *)
(* those of the registrar passed; they do not derive the record's address. *)
(* weight_action and weight_action_target are None from creation on and    *)
(* are left out.                                                           *)
(*                                                                         *)
(* governance.rs does not implement the discriminator check of the record  *)
(* types, so a record may be written as one of the other type: see         *)
(* OverwriteOwner in MaxVoterWeightRecord.  There the owner's key is read  *)
(* as a number (bytes 0 to 7), the tag of an Option (byte 8) and the rest. *)
(***************************************************************************)
EXTENDS Registrar

CONSTANTS
  TagNone,      \* the wallets with a key whose byte 8 is 0, the tag of None
  TagSome,      \* the wallets with a key whose byte 8 is 1, the tag of Some
  Overwritten   \* an owner field that holds no wallet's key any more

ASSUME OwnerTagAssumption ==
  /\ TagNone \subseteq Wallet /\ TagSome \subseteq Wallet
  /\ TagNone \cap TagSome = {}
  /\ Overwritten \notin Signer

VARIABLE voter_weight_record   \* address -> VoterWeightRecord, or NoAccount

\* Mutant: the realm is not among the seeds.
VoterWeightRecordPdaOfMint(r, m, owner) == <<CHOOSE any \in Realm : TRUE, m, owner>>

\* Seeds "voter-weight-record", realm, governing_token_mint, governing_token_owner.
VoterWeightRecordPda(r, m, owner) == <<r, m, owner>>

VoterWeightRecordAddress == Realm \X Mint \X Wallet

\* voter_weight_expiry is always Some(slot).
VoterWeightRecordAccount ==
  [realm : Realm, governing_token_mint : Mint,
   governing_token_owner : Wallet \cup {Overwritten},
   voter_weight : {0, 1}, voter_weight_expiry : U64]

ASSUME VoterWeightRecordDistinct == NoAccount \notin VoterWeightRecordAccount

VoterWeightRecordTypeOK ==
  voter_weight_record \in
    [VoterWeightRecordAddress -> VoterWeightRecordAccount \cup {NoAccount}]

VoterWeightRecordInit ==
  voter_weight_record = [q \in VoterWeightRecordAddress |-> NoAccount]

-----------------------------------------------------------------------------

\* Mutant: the mints are not compared.
RecordOfRealm(q, p) ==
  /\ voter_weight_record[q] # NoAccount
  /\ voter_weight_record[q].realm = registrar[p].realm

\* Mutant: the realms are not compared.
RecordOfMint(q, p) ==
  /\ voter_weight_record[q] # NoAccount
  /\ voter_weight_record[q].governing_token_mint = registrar[p].governing_token_mint

\* The record passed belongs to the realm and the mint of the registrar passed.
RecordOfRegistrar(q, p) ==
  /\ voter_weight_record[q] # NoAccount
  /\ voter_weight_record[q].realm = registrar[p].realm
  /\ voter_weight_record[q].governing_token_mint = registrar[p].governing_token_mint

\* Mutant: any readable identity will do, whoever's PDA it is at.
IsIdentityOfAnyone(address, voter) ==
  identity[address].owner = "Anchor" /\ identity[address].kind = "IdentityState"

\* Mutant: neither discriminator nor length is looked at.
IsIdentityOfUnchecked(address, voter) ==
  identity[address].owner = "Anchor" /\ address = voter

\* Steps 2 to 4b: the account at the identity PDA of `address` is owned by the
\* Anchor program, is the voter's, and holds an IdentityState.
IsIdentityOf(address, voter) ==
  /\ identity[address].owner = "Anchor"
  /\ address = voter
  /\ identity[address].kind = "IdentityState"

\* Mutant: the recency of the verification is not checked.
SatisfiesPolicyAtAnyAge(address, p) ==
  TrustSufficient(identity[address].trust_score, registrar[p].min_trust_score)

\* Steps 7 and 8: trust score and recency against the registrar's policy.
SatisfiesPolicy(address, p) ==
  /\ TrustSufficient(identity[address].trust_score, registrar[p].min_trust_score)
  /\ VerifiedRecently(unix_timestamp, identity[address].last_verification_timestamp,
                      registrar[p].max_verification_age)

\* Mutant: any signer will do.
SignedByAnyone(q, signer) == signer \in Signer

\* voter_authority signs and is the owner the record names.
SignedByOwner(q, signer) == voter_weight_record[q].governing_token_owner = signer

\* Mutant: the initial expiry is the end of the window.
InitialExpiryOpen == ExpiryAfter(slot)

InitialExpiry == 0

-----------------------------------------------------------------------------

CreateVoterWeightRecord(p, owner, signer) ==
  LET r == registrar[p].realm
      m == registrar[p].governing_token_mint
      q == VoterWeightRecordPda(r, m, owner)
  IN  /\ IsRegistrar(p)
      /\ voter_weight_record[q] = NoAccount
      /\ signer = owner
      /\ voter_weight_record' = [voter_weight_record EXCEPT ![q] =
           [realm |-> r, governing_token_mint |-> m, governing_token_owner |-> owner,
            voter_weight |-> 0, voter_weight_expiry |-> InitialExpiry]]

\* `address` names the identity account passed as remaining_accounts[0].
UpdateVoterWeightRecord(p, q, signer, address) ==
  /\ IsRegistrar(p)
  /\ RecordOfRegistrar(q, p)
  /\ SignedByOwner(q, signer)
  /\ IsIdentityOf(address, signer)
  /\ SatisfiesPolicy(address, p)
  /\ voter_weight_record' = [voter_weight_record EXCEPT
       ![q].voter_weight = 1,
       ![q].voter_weight_expiry = ExpiryAfter(slot)]

MayCloseVoterWeightRecord(p, q, signer) ==
  /\ IsRegistrar(p)
  /\ RecordOfRegistrar(q, p)
  /\ SignedByOwner(q, signer)

CloseVoterWeightRecord(p, q, signer) ==
  /\ MayCloseVoterWeightRecord(p, q, signer)
  /\ voter_weight_record' = [voter_weight_record EXCEPT ![q] = NoAccount]

VoterWeightRecordNext(signer) ==
  \E p \in RegistrarAddress :
    \/ \E owner \in Wallet : CreateVoterWeightRecord(p, owner, signer)
    \/ \E q \in VoterWeightRecordAddress :
         \/ \E address \in Wallet : UpdateVoterWeightRecord(p, q, signer, address)
         \/ CloseVoterWeightRecord(p, q, signer)
=============================================================================
