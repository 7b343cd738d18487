-------------------------- MODULE EntrosVoterWeight --------------------------
(***************************************************************************)
(* The whole program: the accounts it owns, its eight instructions, and    *)
(* between any two of them whatever spl-governance, the Entros Anchor      *)
(* program and the clock do.  Solana executes transactions that touch the  *)
(* same account one after the other, so an instruction is one step.        *)
(***************************************************************************)
EXTENDS MaxVoterWeightRecord

vars == <<realm, identity, slot, unix_timestamp,
          registrar, voter_weight_record, max_voter_weight_record>>

Init ==
  /\ EnvInit
  /\ RegistrarInit
  /\ VoterWeightRecordInit
  /\ MaxVoterWeightRecordInit

\* The dispatch of #[program]: one instruction, signed by `signer`.
Instruction(signer) ==
  /\ UNCHANGED envVars
  /\ \/ /\ RegistrarNext(signer)
        /\ UNCHANGED <<voter_weight_record, max_voter_weight_record>>
     \/ /\ VoterWeightRecordNext(signer)
        /\ UNCHANGED <<registrar, max_voter_weight_record>>
     \/ /\ MaxVoterWeightRecordNext(signer)
        /\ UNCHANGED registrar

Environs == EnvNext /\ UNCHANGED <<registrar, voter_weight_record, max_voter_weight_record>>

Next == Environs \/ \E signer \in Signer : Instruction(signer)

Spec == Init /\ [][Next]_vars

\* The cluster goes on producing slots.  Nobody has to sign anything.
SlotsGoOn ==
  WF_vars(Tick /\ UNCHANGED <<registrar, voter_weight_record, max_voter_weight_record>>)

FairSpec == Spec /\ SlotsGoOn

TypeOK ==
  /\ EnvTypeOK
  /\ RegistrarTypeOK
  /\ VoterWeightRecordTypeOK
  /\ MaxVoterWeightRecordTypeOK

-----------------------------------------------------------------------------
(* Records and their addresses                                             *)

\* A registrar sits at the address its own fields derive, names the program
\* that owns its realm, and allows an age that a fresh verification is within
\* (its trust floor has no bound, and may be one that nobody reaches).  Only
\* then can every later instruction find it and its authority manage it
\* (create_registrar.rs).
RegistrarSound ==
  \A p \in RegistrarAddress : registrar[p] # NoAccount =>
    /\ p = <<registrar[p].realm, registrar[p].governing_token_mint>>
    /\ registrar[p].governance_program_id = realm[registrar[p].realm].owner
    /\ registrar[p].max_verification_age > 0

\* The owner field of the record has been written as part of a max record.
OwnerOverwritten(q) ==
  /\ voter_weight_record[q] # NoAccount
  /\ voter_weight_record[q].governing_token_owner = Overwritten

\* Every record sits at the address its fields derive; the one field that may
\* leave it is the owner, of a wallet with a key that decodes as part of a max
\* record, and then it names nobody.  The update and close instructions carry no
\* seeds constraint and compare fields only: they act on the one record of a
\* voter, or of a mint, because of this.
AddressBinding ==
  /\ \A q \in VoterWeightRecordAddress : voter_weight_record[q] # NoAccount =>
       /\ q[1] = voter_weight_record[q].realm
       /\ q[2] = voter_weight_record[q].governing_token_mint
       /\ \/ q[3] = voter_weight_record[q].governing_token_owner
          \/ OwnerOverwritten(q) /\ q[3] \in TagNone \cup TagSome
  /\ \A q \in MaxVoterWeightRecordAddress : max_voter_weight_record[q] # NoAccount =>
       q = <<max_voter_weight_record[q].realm,
             max_voter_weight_record[q].governing_token_mint>>

-----------------------------------------------------------------------------
(* Voter weights                                                           *)

\* A record grants nothing (weight 0, expired since slot 0) until its first
\* refresh; a granted weight of 1 ends within the window that starts now.
GrantWindow ==
  \A q \in VoterWeightRecordAddress : voter_weight_record[q] # NoAccount =>
    LET v == voter_weight_record[q]
    IN  IF v.voter_weight = 0 THEN v.voter_weight_expiry = 0
                              ELSE v.voter_weight_expiry \in 1 .. slot + ExpirySlots

\* The owner w of the record at <<r, m, w>> meets the policy that the registrar
\* at <<r, m>> states at this moment, computed with unbounded integers.
Entitled(q) ==
  LET policy == registrar[<<q[1], q[2]>>]
      id == identity[q[3]]
  IN  /\ policy # NoAccount
      /\ id.kind = "IdentityState"
      /\ id.trust_score >= policy.min_trust_score
      /\ unix_timestamp - id.last_verification_timestamp < policy.max_verification_age

\* spl-governance counts a weight up to and including its expiry slot.
Usable(q) ==
  /\ voter_weight_record[q] # NoAccount
  /\ voter_weight_record[q].voter_weight = 1
  /\ slot <= voter_weight_record[q].voter_weight_expiry

\* The step leaves the record with the weight and the expiry it has had.
GrantKept(q) ==
  /\ voter_weight_record[q] # NoAccount
  /\ voter_weight_record'[q].voter_weight = voter_weight_record[q].voter_weight
  /\ voter_weight_record'[q].voter_weight_expiry
       = voter_weight_record[q].voter_weight_expiry

GrantsToEntitled ==
  \A q \in VoterWeightRecordAddress :
    /\ voter_weight_record'[q] # NoAccount
    /\ voter_weight_record'[q].voter_weight = 1
    /\ ~ GrantKept(q)
    => Entitled(q)

\* A weight of 1 is given or extended only for an entitled owner: with the owner's own
\* identity, and by the policy of the record's realm and mint although any
\* registrar and any record may be passed (update_voter_weight_record.rs).
WeightOnlyToEntitled == [][GrantsToEntitled]_vars

\* An owner who is no longer entitled ends up without a usable weight, or is
\* entitled again: the weight runs out by itself, with no instruction that
\* revokes it and nobody who has to act (there is no such instruction).
RevocationEnds ==
  \A q \in VoterWeightRecordAddress :
    (~ Entitled(q) /\ slot + ExpirySlots < MaxSlot) ~> (Entitled(q) \/ ~ Usable(q))

-----------------------------------------------------------------------------
(* What becomes of accounts whose registrar or realm authority is gone     *)

OrphansKept ==
  \A r \in Realm, m \in Mint : registrar[<<r, m>>] = NoAccount =>
    /\ max_voter_weight_record'[<<r, m>>] = max_voter_weight_record[<<r, m>>]
    /\ \A w \in Wallet :
         voter_weight_record'[<<r, m, w>>] = voter_weight_record[<<r, m, w>>]

\* A voter weight record or max voter weight record whose registrar has been
\* closed stays as it is until a registrar is created there again: its owner
\* can neither refresh nor close it (close_registrar.rs looks at no record).
OrphansFrozen == [][OrphansKept]_vars

UngovernedKept ==
  \A r \in Realm, m \in Mint :
    realm[r].authority = Nobody
      \/ m \notin {realm[r].community_mint, realm[r].council_mint} =>
    /\ registrar'[<<r, m>>] = registrar[<<r, m>>]
    /\ max_voter_weight_record'[<<r, m>>] = max_voter_weight_record[<<r, m>>]

\* Once the realm has no authority, or no longer governs with the mint, the
\* policy and the quorum base of the mint are final: nobody can create, change
\* or close the registrar, or the max voter weight record.
UngovernedFrozen == [][UngovernedKept]_vars

QuorumBaseKept ==
  \A q \in MaxVoterWeightRecordAddress :
    max_voter_weight_record[q] # NoAccount =>
      /\ max_voter_weight_record'[q] # NoAccount
      /\ \/ max_voter_weight_record'[q] = max_voter_weight_record[q]
         \/ /\ max_voter_weight_record'[q].max_voter_weight > 0
            /\ max_voter_weight_record'[q].max_voter_weight_expiry = NeverExpires

\* A max voter weight record, once set, stays set: no sequence of instructions
\* removes it, zeroes it or gives it an expiry, also when registrars are closed
\* and created again in between.
QuorumBaseStays == [][QuorumBaseKept]_vars

OverwrittenKept ==
  \A q \in VoterWeightRecordAddress : OwnerOverwritten(q) =>
    /\ voter_weight_record'[q] # NoAccount
    /\ GrantKept(q)
    /\ OwnerOverwritten(q)' \/ q[3] \in TagNone

\* A record whose owner has been overwritten is out of everybody's reach: it is
\* never refreshed, closed or created again, and what weight it has runs out.
\* For good, unless byte 8 of the owner's key is 0 (update_max_voter_weight_record
\* can then write the key back; a tag of Some it has replaced is lost).
OverwrittenFrozen == [][OverwrittenKept]_vars

-----------------------------------------------------------------------------
(* What the documentation says and the program does not do                 *)

\* What the instruction table of the README says: a voter can close the record
\* and reclaim its rent.
OwnerCanClose ==
  \A q \in VoterWeightRecordAddress : voter_weight_record[q] # NoAccount =>
    \E p \in RegistrarAddress, signer \in Wallet :
      MayCloseVoterWeightRecord(p, q, signer)

\* The same of a record whose registrar is there.
OwnerCanCloseGoverned ==
  \A q \in VoterWeightRecordAddress :
    /\ voter_weight_record[q] # NoAccount
    /\ registrar[<<q[1], q[2]>>] # NoAccount
    => MayCloseVoterWeightRecord(<<q[1], q[2]>>, q, q[3])

-----------------------------------------------------------------------------
(* The promise to spl-governance                                           *)

Lease ==
  [q \in VoterWeightRecordAddress |->
     IF voter_weight_record[q] # NoAccount /\ voter_weight_record[q].voter_weight = 1
       THEN voter_weight_record[q].voter_weight_expiry
       ELSE 0]

Promise == INSTANCE VotingLease WITH
  Member <- VoterWeightRecordAddress,
  Window <- ExpirySlots,
  now <- slot,
  entitled <- {q \in VoterWeightRecordAddress : Entitled(q)},
  lease <- Lease

\* The records of the program are leases: whatever accounts are passed to its
\* instructions, each of them gives at most one entitled owner a weight within
\* the window, takes one away at its owner's wish, or leaves every weight alone.
LeasePromise == Promise!LeaseSpec
=============================================================================
