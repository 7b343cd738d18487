----------------------- MODULE EntrosVoterWeightProofs -----------------------
(***************************************************************************)
(* Theorems about the program for every set of realms, mints, wallets and  *)
(* administrators, every policy, every window and every length of run.     *)
(***************************************************************************)
EXTENDS EntrosVoterWeight, EligibilityProofs

-----------------------------------------------------------------------------
(* Type correctness                                                        *)

\* The initial accounts have their types.
LEMMA TypeInit ==
  ASSUME Init
  PROVE  TypeOK
<1>1. EnvTypeOK
  BY EnvironmentAssumption, WidthAssumption
  DEF Init, EnvInit, EnvTypeOK, InitialIdentity, U64
<1>2. RegistrarTypeOK /\ VoterWeightRecordTypeOK /\ MaxVoterWeightRecordTypeOK
  BY DEF Init, RegistrarInit, RegistrarTypeOK, VoterWeightRecordInit,
         VoterWeightRecordTypeOK, MaxVoterWeightRecordInit, MaxVoterWeightRecordTypeOK
<1> QED
  BY <1>1, <1>2 DEF TypeOK

\* What happens outside the program keeps the accounts it reads well typed.
LEMMA EnvTypeStep ==
  ASSUME EnvTypeOK, EnvNext
  PROVE  EnvTypeOK'
<1> USE DEF EnvTypeOK
<1>1. CASE \E r \in Realm, signer \in Admin, successor \in Admin \cup {Nobody} :
             SetRealmAuthority(r, signer, successor)
  BY <1>1 DEF SetRealmAuthority, RealmAccount
<1>2. CASE \E r \in Realm, signer \in Admin : RemoveCouncilMint(r, signer)
  BY <1>2 DEF RemoveCouncilMint, RealmAccount
<1>3. CASE \E w \in Wallet, score \in TrustScore : VerifyIdentity(w, score)
  <2>1. unix_timestamp \in I64
    BY EnvironmentAssumption, WidthAssumption DEF I64, I64Min, U64
  <2> QED
    BY <1>3, <2>1 DEF VerifyIdentity, IdentityAccount, IdentityKind
<1>4. CASE Tick
  BY <1>4, EnvironmentAssumption, WidthAssumption DEF Tick, U64
<1> QED
  BY <1>1, <1>2, <1>3, <1>4 DEF EnvNext

\* The clock's slot is within u64, as ExpiryWindow needs.
LEMMA SlotIsU64 ==
  ASSUME EnvTypeOK
  PROVE  slot \in U64
BY EnvironmentAssumption, WidthAssumption DEF EnvTypeOK, U64

\* The registrar instructions write registrars of the declared type.
LEMMA RegistrarTypeStep ==
  ASSUME RegistrarTypeOK, NEW signer \in Signer, RegistrarNext(signer)
  PROVE  RegistrarTypeOK'
<1> USE DEF RegistrarTypeOK
<1>1. ASSUME NEW program \in Program, NEW r \in Realm, NEW m \in Mint,
             NEW minScore \in MinTrustScore, NEW maxAge \in MaxVerificationAge,
             CreateRegistrar(program, r, m, signer, minScore, maxAge)
      PROVE  RegistrarTypeOK'
  BY <1>1 DEF CreateRegistrar, RegistrarPda, RegistrarAddress, RegistrarAccount
<1>2. ASSUME NEW p \in RegistrarAddress, NEW r \in Realm,
             NEW minScore \in MinTrustScore, NEW maxAge \in MaxVerificationAge,
             UpdateRegistrar(p, r, signer, minScore, maxAge)
      PROVE  RegistrarTypeOK'
  <2>1. registrar[p] \in RegistrarAccount
    BY <1>2 DEF UpdateRegistrar, AdminOf, IsRegistrar
  <2> QED
    BY <1>2, <2>1 DEF UpdateRegistrar, RegistrarAccount
<1>3. ASSUME NEW p \in RegistrarAddress, NEW r \in Realm, CloseRegistrar(p, r, signer)
      PROVE  RegistrarTypeOK'
  BY <1>3 DEF CloseRegistrar
<1> QED
  BY <1>1, <1>2, <1>3 DEF RegistrarNext

\* The address of a record created through a registrar is an address of records.
LEMMA PassedRegistrar ==
  ASSUME RegistrarTypeOK, NEW p \in RegistrarAddress, IsRegistrar(p)
  PROVE  /\ registrar[p] \in RegistrarAccount
         /\ registrar[p].realm \in Realm
         /\ registrar[p].governing_token_mint \in Mint
         /\ p = <<registrar[p].realm, registrar[p].governing_token_mint>>
BY DEF RegistrarTypeOK, IsRegistrar, RegistrarPda, RegistrarAccount

\* The voter's instructions write voter weight records of the declared type.
LEMMA VoterWeightRecordTypeStep ==
  ASSUME TypeOK, NEW signer \in Signer, VoterWeightRecordNext(signer)
  PROVE  VoterWeightRecordTypeOK'
<1> USE DEF TypeOK, VoterWeightRecordTypeOK
<1>1. ASSUME NEW p \in RegistrarAddress, NEW owner \in Wallet,
             CreateVoterWeightRecord(p, owner, signer)
      PROVE  VoterWeightRecordTypeOK'
  <2>1. InitialExpiry \in U64
    BY WidthAssumption DEF InitialExpiry, U64
  <2>2. registrar[p].realm \in Realm /\ registrar[p].governing_token_mint \in Mint
    BY <1>1, PassedRegistrar DEF CreateVoterWeightRecord
  <2> QED
    BY <1>1, <2>1, <2>2
    DEF CreateVoterWeightRecord, VoterWeightRecordPda, VoterWeightRecordAddress,
        VoterWeightRecordAccount
<1>2. ASSUME NEW p \in RegistrarAddress, NEW q \in VoterWeightRecordAddress,
             NEW address \in Wallet, UpdateVoterWeightRecord(p, q, signer, address)
      PROVE  VoterWeightRecordTypeOK'
  <2>1. voter_weight_record[q] \in VoterWeightRecordAccount
    BY <1>2 DEF UpdateVoterWeightRecord, RecordOfRegistrar
  <2>2. ExpiryAfter(slot) \in U64
    BY SlotIsU64, ExpiryWindow
  <2> QED
    BY <1>2, <2>1, <2>2 DEF UpdateVoterWeightRecord, VoterWeightRecordAccount
<1>3. ASSUME NEW p \in RegistrarAddress, NEW q \in VoterWeightRecordAddress,
             CloseVoterWeightRecord(p, q, signer)
      PROVE  VoterWeightRecordTypeOK'
  BY <1>3 DEF CloseVoterWeightRecord
<1> QED
  BY <1>1, <1>2, <1>3 DEF VoterWeightRecordNext

\* Writing a voter weight record as a max record changes its owner field only.
LEMMA OverwrittenRecord ==
  ASSUME VoterWeightRecordTypeOK,
         NEW p \in RegistrarAddress, NEW q \in VoterWeightRecordAddress,
         NEW r \in Realm, NEW signer \in Signer, NEW weight \in MaxVoterWeight,
         OverwriteOwner(p, q, r, signer, weight)
  PROVE  /\ voter_weight_record[q] # NoAccount
         /\ voter_weight_record[q].governing_token_owner \in TagNone \cup TagSome \cup {Overwritten}
         /\ voter_weight_record'[q] \in VoterWeightRecordAccount
         /\ voter_weight_record'[q] # NoAccount
         /\ voter_weight_record'[q].realm = voter_weight_record[q].realm
         /\ voter_weight_record'[q].governing_token_mint
              = voter_weight_record[q].governing_token_mint
         /\ voter_weight_record'[q].governing_token_owner \in OwnerAfter(q)
         /\ voter_weight_record'[q].voter_weight = voter_weight_record[q].voter_weight
         /\ voter_weight_record'[q].voter_weight_expiry
              = voter_weight_record[q].voter_weight_expiry
         /\ \A other \in VoterWeightRecordAddress \ {q} :
              voter_weight_record'[other] = voter_weight_record[other]
         /\ voter_weight_record' \in [VoterWeightRecordAddress ->
                                       VoterWeightRecordAccount \cup {NoAccount}]
<1>1. /\ voter_weight_record[q] # NoAccount
      /\ voter_weight_record[q].governing_token_owner \in TagNone \cup TagSome \cup {Overwritten}
  BY DEF OverwriteOwner, RecordOfRegistrar, DecodesAsMaxRecord
<1>2. voter_weight_record[q] \in VoterWeightRecordAccount
  BY <1>1 DEF VoterWeightRecordTypeOK
<1>3. PICK owner \in OwnerAfter(q) :
        voter_weight_record' = [voter_weight_record EXCEPT ![q].governing_token_owner = owner]
  BY DEF OverwriteOwner
<1>4. owner \in Wallet \cup {Overwritten}
  BY <1>3, OwnerTagAssumption DEF OwnerAfter
<1>5. voter_weight_record'[q] = [voter_weight_record[q] EXCEPT !.governing_token_owner = owner]
  BY <1>3 DEF VoterWeightRecordTypeOK
<1>6. voter_weight_record'[q] \in VoterWeightRecordAccount
  BY <1>2, <1>4, <1>5 DEF VoterWeightRecordAccount
<1>7. voter_weight_record'[q] # NoAccount
  BY <1>6, VoterWeightRecordDistinct
<1>8. \A other \in VoterWeightRecordAddress \ {q} :
        voter_weight_record'[other] = voter_weight_record[other]
  BY <1>3 DEF VoterWeightRecordTypeOK
<1>9. voter_weight_record' \in [VoterWeightRecordAddress ->
                                 VoterWeightRecordAccount \cup {NoAccount}]
  BY <1>2, <1>3, <1>4 DEF VoterWeightRecordTypeOK, VoterWeightRecordAccount
<1>10. /\ voter_weight_record'[q].realm = voter_weight_record[q].realm
       /\ voter_weight_record'[q].governing_token_mint
            = voter_weight_record[q].governing_token_mint
       /\ voter_weight_record'[q].governing_token_owner = owner
       /\ voter_weight_record'[q].voter_weight = voter_weight_record[q].voter_weight
       /\ voter_weight_record'[q].voter_weight_expiry
            = voter_weight_record[q].voter_weight_expiry
  BY <1>2, <1>5 DEF VoterWeightRecordAccount
<1> QED
  BY <1>1, <1>3, <1>6, <1>7, <1>8, <1>9, <1>10

\* The quorum instructions write records of the declared types.
LEMMA MaxVoterWeightRecordTypeStep ==
  ASSUME TypeOK, NEW signer \in Signer, MaxVoterWeightRecordNext(signer)
  PROVE  MaxVoterWeightRecordTypeOK' /\ VoterWeightRecordTypeOK'
<1> USE DEF TypeOK, MaxVoterWeightRecordTypeOK
<1>1. ASSUME NEW p \in RegistrarAddress, NEW r \in Realm,
             CreateMaxVoterWeightRecord(p, r, signer)
      PROVE  MaxVoterWeightRecordTypeOK'
  <2>1. registrar[p].realm \in Realm /\ registrar[p].governing_token_mint \in Mint
    BY <1>1, PassedRegistrar DEF CreateMaxVoterWeightRecord, AdminOf
  <2> QED
    BY <1>1, <2>1
    DEF CreateMaxVoterWeightRecord, MaxVoterWeightRecordPda,
        MaxVoterWeightRecordAddress, MaxVoterWeightRecordAccount
<1>2. ASSUME NEW p \in RegistrarAddress, NEW q \in MaxVoterWeightRecordAddress,
             NEW r \in Realm, NEW weight \in MaxVoterWeight,
             UpdateMaxVoterWeightRecord(p, q, r, signer, weight)
      PROVE  MaxVoterWeightRecordTypeOK'
  <2>1. max_voter_weight_record[q] \in MaxVoterWeightRecordAccount
    BY <1>2 DEF UpdateMaxVoterWeightRecord, MaxRecordOfRegistrar
  <2> QED
    BY <1>2, <2>1 DEF UpdateMaxVoterWeightRecord, MaxVoterWeightRecordAccount
<1>3. ASSUME NEW p \in RegistrarAddress, NEW q \in VoterWeightRecordAddress,
             NEW r \in Realm, NEW weight \in MaxVoterWeight,
             OverwriteOwner(p, q, r, signer, weight)
      PROVE  VoterWeightRecordTypeOK'
  BY <1>3, OverwrittenRecord DEF VoterWeightRecordTypeOK
<1> QED
  BY <1>1, <1>2, <1>3 DEF MaxVoterWeightRecordNext, VoterWeightRecordTypeOK

\* A step changes the accounts of one kind only, or none.
LEMMA TypeStep ==
  ASSUME TypeOK, [Next]_vars
  PROVE  TypeOK'
<1> USE DEF TypeOK
<1>1. CASE Environs
  <2>1. EnvTypeOK'
    BY <1>1, EnvTypeStep DEF Environs
  <2> QED
    BY <1>1, <2>1 DEF Environs, RegistrarTypeOK, VoterWeightRecordTypeOK,
                      MaxVoterWeightRecordTypeOK
<1>2. ASSUME NEW signer \in Signer, Instruction(signer)
      PROVE  TypeOK'
  <2>1. EnvTypeOK'
    BY <1>2 DEF Instruction, envVars, EnvTypeOK
  <2>2. CASE RegistrarNext(signer) /\ UNCHANGED <<voter_weight_record, max_voter_weight_record>>
    BY <2>1, <2>2, RegistrarTypeStep DEF VoterWeightRecordTypeOK, MaxVoterWeightRecordTypeOK
  <2>3. CASE VoterWeightRecordNext(signer) /\ UNCHANGED <<registrar, max_voter_weight_record>>
    BY <2>1, <2>3, VoterWeightRecordTypeStep DEF RegistrarTypeOK, MaxVoterWeightRecordTypeOK
  <2>4. CASE MaxVoterWeightRecordNext(signer) /\ UNCHANGED registrar
    BY <2>1, <2>4, MaxVoterWeightRecordTypeStep DEF RegistrarTypeOK
  <2> QED
    BY <1>2, <2>2, <2>3, <2>4 DEF Instruction
<1>3. CASE UNCHANGED vars
  BY <1>3 DEF vars, EnvTypeOK, RegistrarTypeOK, VoterWeightRecordTypeOK,
              MaxVoterWeightRecordTypeOK
<1> QED
  BY <1>1, <1>2, <1>3 DEF Next

\* Every account keeps the type its struct declares: in particular a voter
\* weight is 0 or 1 and an expiry fits u64.
THEOREM TypeCorrect == Spec => []TypeOK
<1>1. Init => TypeOK
  BY TypeInit
<1>2. TypeOK /\ [Next]_vars => TypeOK'
  BY TypeStep
<1> QED
  BY <1>1, <1>2, PTL DEF Spec

-----------------------------------------------------------------------------
(* Which instruction changes which accounts                                *)

\* Some voter weight record is written as a max record.
Overwriting(signer) ==
  \E p \in RegistrarAddress, r \in Realm, weight \in MaxVoterWeight,
     q \in VoterWeightRecordAddress : OverwriteOwner(p, q, r, signer, weight)

\* Only the instructions on voter weight records change one, and an update of a
\* max record that is passed one.
LEMMA WhoChangesVoterWeightRecords ==
  ASSUME [Next]_vars, voter_weight_record' # voter_weight_record
  PROVE  \E signer \in Signer :
           /\ VoterWeightRecordNext(signer) \/ Overwriting(signer)
           /\ UNCHANGED <<envVars, registrar>>
BY DEF Next, Environs, Instruction, vars, MaxVoterWeightRecordNext, Overwriting

\* Only the instructions on registrars change one.
LEMMA WhoChangesRegistrars ==
  ASSUME [Next]_vars, registrar' # registrar
  PROVE  \E signer \in Signer : RegistrarNext(signer) /\ UNCHANGED envVars
BY DEF Next, Environs, Instruction, vars

\* Only the instructions on max voter weight records change one.
LEMMA WhoChangesMaxVoterWeightRecords ==
  ASSUME [Next]_vars, max_voter_weight_record' # max_voter_weight_record
  PROVE  \E signer \in Signer :
           MaxVoterWeightRecordNext(signer) /\ UNCHANGED <<envVars, registrar>>
BY DEF Next, Environs, Instruction, vars

\* The program that owns a realm account never changes; the slot never falls.
LEMMA EnvMonotone ==
  ASSUME TypeOK, [Next]_vars
  PROVE  /\ \A r \in Realm : realm'[r].owner = realm[r].owner
         /\ slot' >= slot
<1>1. CASE EnvNext
  BY <1>1 DEF EnvNext, SetRealmAuthority, RemoveCouncilMint, VerifyIdentity, Tick,
              TypeOK, EnvTypeOK, RealmAccount
<1>2. CASE UNCHANGED envVars
  BY <1>2 DEF envVars, TypeOK, EnvTypeOK
<1> QED
  BY <1>1, <1>2 DEF Next, Environs, Instruction, vars, envVars

-----------------------------------------------------------------------------
(* Registrars and addresses                                                *)

\* Creating checks the owner of the realm and the age; updating keeps the
\* fields and checks the age again; a realm account never changes its owner.
LEMMA RegistrarSoundStep ==
  ASSUME TypeOK, RegistrarSound, [Next]_vars
  PROVE  RegistrarSound'
<1> USE DEF TypeOK, RegistrarTypeOK
<1>1. CASE registrar' = registrar
  BY <1>1, EnvMonotone DEF RegistrarSound, RegistrarAccount
<1>2. CASE registrar' # registrar
  <2> PICK signer \in Signer : RegistrarNext(signer) /\ UNCHANGED envVars
    BY <1>2, WhoChangesRegistrars
  <2>1. ASSUME NEW program \in Program, NEW r \in Realm, NEW m \in Mint,
               NEW minScore \in MinTrustScore, NEW maxAge \in MaxVerificationAge,
               CreateRegistrar(program, r, m, signer, minScore, maxAge)
        PROVE  RegistrarSound'
    BY <2>1 DEF CreateRegistrar, RegistrarSound, RegistrarPda, RegistrarAddress,
                PositiveMaxAge, AuthorizedAdmin, MintGovernsRealm, envVars
  <2>2. ASSUME NEW p \in RegistrarAddress, NEW r \in Realm,
               NEW minScore \in MinTrustScore, NEW maxAge \in MaxVerificationAge,
               UpdateRegistrar(p, r, signer, minScore, maxAge)
        PROVE  RegistrarSound'
    <3>1. registrar[p] \in RegistrarAccount
      BY <2>2 DEF UpdateRegistrar, AdminOf, IsRegistrar
    <3> QED
      BY <2>2, <3>1 DEF UpdateRegistrar, AdminOf, IsRegistrar, RegistrarSound,
                        RegistrarAccount, PositiveMaxAge, envVars
  <2>3. ASSUME NEW p \in RegistrarAddress, NEW r \in Realm, CloseRegistrar(p, r, signer)
        PROVE  RegistrarSound'
    BY <2>3 DEF CloseRegistrar, RegistrarSound, envVars
  <2> QED
    BY <2>1, <2>2, <2>3 DEF RegistrarNext
<1> QED
  BY <1>1, <1>2

\* Every registrar is at its address, names the program that owns its realm,
\* and states an age that a fresh verification is within.
THEOREM RegistrarsAreSound == Spec => []RegistrarSound
<1>1. Init => RegistrarSound
  BY DEF Init, RegistrarInit, RegistrarSound
<1>2. TypeOK /\ RegistrarSound /\ [Next]_vars => RegistrarSound'
  BY RegistrarSoundStep
<1> QED
  BY <1>1, <1>2, TypeCorrect, PTL DEF Spec

\* A refresh rewrites weight and expiry of the one record passed.
LEMMA RefreshedRecord ==
  ASSUME VoterWeightRecordTypeOK,
         NEW p \in RegistrarAddress, NEW q \in VoterWeightRecordAddress,
         NEW signer \in Signer, NEW address \in Wallet,
         UpdateVoterWeightRecord(p, q, signer, address)
  PROVE  /\ voter_weight_record[q] # NoAccount
         /\ voter_weight_record[q] \in VoterWeightRecordAccount
         /\ voter_weight_record'[q].realm = voter_weight_record[q].realm
         /\ voter_weight_record'[q].governing_token_mint
              = voter_weight_record[q].governing_token_mint
         /\ voter_weight_record'[q].governing_token_owner
              = voter_weight_record[q].governing_token_owner
         /\ voter_weight_record'[q].voter_weight = 1
         /\ voter_weight_record'[q].voter_weight_expiry = ExpiryAfter(slot)
         /\ \A other \in VoterWeightRecordAddress \ {q} :
              voter_weight_record'[other] = voter_weight_record[other]
<1>1. voter_weight_record[q] # NoAccount
  BY DEF UpdateVoterWeightRecord, RecordOfRegistrar
<1>2. voter_weight_record[q] \in VoterWeightRecordAccount
  BY <1>1 DEF VoterWeightRecordTypeOK
<1> QED
  BY <1>1, <1>2
  DEF UpdateVoterWeightRecord, VoterWeightRecordTypeOK, VoterWeightRecordAccount

\* Setting the quorum base rewrites weight and expiry of the one record passed.
LEMMA ResizedRecord ==
  ASSUME MaxVoterWeightRecordTypeOK,
         NEW p \in RegistrarAddress, NEW q \in MaxVoterWeightRecordAddress,
         NEW r \in Realm, NEW signer \in Signer, NEW weight \in MaxVoterWeight,
         UpdateMaxVoterWeightRecord(p, q, r, signer, weight)
  PROVE  /\ max_voter_weight_record[q] # NoAccount
         /\ max_voter_weight_record[q] \in MaxVoterWeightRecordAccount
         /\ max_voter_weight_record'[q].realm = max_voter_weight_record[q].realm
         /\ max_voter_weight_record'[q].governing_token_mint
              = max_voter_weight_record[q].governing_token_mint
         /\ max_voter_weight_record'[q].max_voter_weight = weight
         /\ max_voter_weight_record'[q].max_voter_weight_expiry = NeverExpires
         /\ \A other \in MaxVoterWeightRecordAddress \ {q} :
              max_voter_weight_record'[other] = max_voter_weight_record[other]
<1>1. max_voter_weight_record[q] # NoAccount
  BY DEF UpdateMaxVoterWeightRecord, MaxRecordOfRegistrar
<1>2. max_voter_weight_record[q] \in MaxVoterWeightRecordAccount
  BY <1>1 DEF MaxVoterWeightRecordTypeOK
<1> QED
  BY <1>1, <1>2
  DEF UpdateMaxVoterWeightRecord, MaxVoterWeightRecordTypeOK, MaxVoterWeightRecordAccount

\* Voter weight records are created at the address of their fields, and no
\* instruction changes those fields.
LEMMA VoterWeightRecordBindingStep ==
  ASSUME TypeOK, AddressBinding, NEW signer \in Signer, VoterWeightRecordNext(signer),
         UNCHANGED max_voter_weight_record
  PROVE  AddressBinding'
<1> USE DEF AddressBinding, OwnerOverwritten
<1> VoterWeightRecordTypeOK
  BY DEF TypeOK
<1>1. ASSUME NEW p \in RegistrarAddress, NEW owner \in Wallet,
             CreateVoterWeightRecord(p, owner, signer)
      PROVE  AddressBinding'
  BY <1>1 DEF CreateVoterWeightRecord, VoterWeightRecordPda
<1>2. ASSUME NEW p \in RegistrarAddress, NEW q \in VoterWeightRecordAddress,
             NEW address \in Wallet, UpdateVoterWeightRecord(p, q, signer, address)
      PROVE  AddressBinding'
  BY <1>2, RefreshedRecord
<1>3. ASSUME NEW p \in RegistrarAddress, NEW q \in VoterWeightRecordAddress,
             CloseVoterWeightRecord(p, q, signer)
      PROVE  AddressBinding'
  BY <1>3 DEF CloseVoterWeightRecord
<1> QED
  BY <1>1, <1>2, <1>3 DEF VoterWeightRecordNext

\* The same for max voter weight records.
LEMMA MaxVoterWeightRecordBindingStep ==
  ASSUME TypeOK, AddressBinding, NEW signer \in Signer, MaxVoterWeightRecordNext(signer)
  PROVE  AddressBinding'
<1> USE DEF AddressBinding, OwnerOverwritten
<1> MaxVoterWeightRecordTypeOK /\ VoterWeightRecordTypeOK
  BY DEF TypeOK
<1>1. ASSUME NEW p \in RegistrarAddress, NEW r \in Realm,
             CreateMaxVoterWeightRecord(p, r, signer), UNCHANGED voter_weight_record
      PROVE  AddressBinding'
  BY <1>1 DEF CreateMaxVoterWeightRecord, MaxVoterWeightRecordPda
<1>2. ASSUME NEW p \in RegistrarAddress, NEW q \in MaxVoterWeightRecordAddress,
             NEW r \in Realm, NEW weight \in MaxVoterWeight,
             UpdateMaxVoterWeightRecord(p, q, r, signer, weight),
             UNCHANGED voter_weight_record
      PROVE  AddressBinding'
  BY <1>2, ResizedRecord
<1>3. ASSUME NEW p \in RegistrarAddress, NEW q \in VoterWeightRecordAddress,
             NEW r \in Realm, NEW weight \in MaxVoterWeight,
             OverwriteOwner(p, q, r, signer, weight), UNCHANGED max_voter_weight_record
      PROVE  AddressBinding'
  <2>1. q[3] \in TagNone \cup TagSome
    BY <1>3, OverwrittenRecord, OwnerTagAssumption DEF Signer, VoterWeightRecordAddress
  <2>2. voter_weight_record'[q].governing_token_owner \in {q[3], Overwritten}
    BY <1>3, OverwrittenRecord DEF OwnerAfter
  <2> QED
    BY <1>3, <2>1, <2>2, OverwrittenRecord
<1> QED
  BY <1>1, <1>2, <1>3 DEF MaxVoterWeightRecordNext

\* Every record is at the address its fields derive, the owner field of some
\* wallets apart, although only the two create instructions constrain an address.
THEOREM AddressesAreBound == Spec => []AddressBinding
<1>1. Init => AddressBinding
  BY DEF Init, VoterWeightRecordInit, MaxVoterWeightRecordInit, AddressBinding
<1>2. TypeOK /\ AddressBinding /\ [Next]_vars => AddressBinding'
  <2> SUFFICES ASSUME TypeOK, AddressBinding, [Next]_vars
               PROVE  AddressBinding'
    OBVIOUS
  <2>1. CASE UNCHANGED <<voter_weight_record, max_voter_weight_record>>
    BY <2>1 DEF AddressBinding, OwnerOverwritten
  <2>2. ASSUME NEW signer \in Signer, Instruction(signer)
        PROVE  AddressBinding'
    BY <2>1, <2>2, VoterWeightRecordBindingStep, MaxVoterWeightRecordBindingStep
    DEF Instruction
  <2> QED
    BY <2>1, <2>2 DEF Next, Environs, vars
<1> QED
  BY <1>1, <1>2, TypeCorrect, PTL DEF Spec

-----------------------------------------------------------------------------
(* Voter weights                                                           *)

\* A created record grants nothing, a refreshed one until the end of the
\* window, and the window moves with the clock.
LEMMA GrantWindowStep ==
  ASSUME TypeOK, GrantWindow, [Next]_vars
  PROVE  GrantWindow'
<1> USE DEF GrantWindow
<1> VoterWeightRecordTypeOK /\ EnvTypeOK
  BY DEF TypeOK
<1>1. slot \in Nat /\ slot' \in Nat /\ slot' >= slot /\ slot >= 1
  BY EnvMonotone, TypeStep, EnvironmentAssumption DEF TypeOK, EnvTypeOK, U64
<1>2. CASE voter_weight_record' = voter_weight_record
  BY <1>1, <1>2, WidthAssumption
<1>3. CASE voter_weight_record' # voter_weight_record
  <2> PICK signer \in Signer : /\ VoterWeightRecordNext(signer) \/ Overwriting(signer)
                               /\ UNCHANGED <<envVars, registrar>>
    BY <1>3, WhoChangesVoterWeightRecords
  <2>1. slot' = slot
    BY DEF envVars
  <2>2. ASSUME NEW p \in RegistrarAddress, NEW owner \in Wallet,
               CreateVoterWeightRecord(p, owner, signer)
        PROVE  GrantWindow'
    BY <2>1, <2>2 DEF CreateVoterWeightRecord, InitialExpiry, VoterWeightRecordTypeOK
  <2>3. ASSUME NEW p \in RegistrarAddress, NEW q \in VoterWeightRecordAddress,
               NEW address \in Wallet, UpdateVoterWeightRecord(p, q, signer, address)
        PROVE  GrantWindow'
    <3>1. ExpiryAfter(slot) \in 1 .. slot + ExpirySlots
      BY <1>1, SlotIsU64, ExpiryWindow, WidthAssumption DEF U64
    <3> QED
      BY <2>1, <2>3, <3>1, RefreshedRecord
  <2>4. ASSUME NEW p \in RegistrarAddress, NEW q \in VoterWeightRecordAddress,
               CloseVoterWeightRecord(p, q, signer)
        PROVE  GrantWindow'
    BY <2>1, <2>4 DEF CloseVoterWeightRecord, VoterWeightRecordTypeOK
  <2>5. ASSUME NEW p \in RegistrarAddress, NEW q \in VoterWeightRecordAddress,
               NEW r \in Realm, NEW weight \in MaxVoterWeight,
               OverwriteOwner(p, q, r, signer, weight)
        PROVE  GrantWindow'
    BY <2>1, <2>5, OverwrittenRecord
  <2> QED
    BY <2>2, <2>3, <2>4, <2>5 DEF VoterWeightRecordNext, Overwriting
<1> QED
  BY <1>2, <1>3

\* A record grants nothing before its first refresh, and then for no longer
\* than the window from the current slot on.
THEOREM GrantsEndInWindow == Spec => []GrantWindow
<1>1. Init => GrantWindow
  BY DEF Init, VoterWeightRecordInit, GrantWindow
<1>2. TypeOK /\ GrantWindow /\ [Next]_vars => GrantWindow'
  BY GrantWindowStep
<1> QED
  BY <1>1, <1>2, TypeCorrect, PTL DEF Spec

\* The guard of a refresh, which compares fields of whatever accounts were
\* passed, means that the owner of the record is entitled.
LEMMA RefreshedIsEntitled ==
  ASSUME TypeOK, AddressBinding,
         NEW p \in RegistrarAddress, NEW q \in VoterWeightRecordAddress,
         NEW signer \in Signer, NEW address \in Wallet,
         UpdateVoterWeightRecord(p, q, signer, address)
  PROVE  Entitled(q)
<1>1. /\ IsRegistrar(p) /\ RecordOfRegistrar(q, p) /\ SignedByOwner(q, signer)
      /\ IsIdentityOf(address, signer) /\ SatisfiesPolicy(address, p)
  BY DEF UpdateVoterWeightRecord
<1>2. q = <<registrar[p].realm, registrar[p].governing_token_mint, signer>>
  <2>1. voter_weight_record[q].governing_token_owner # Overwritten
    BY <1>1, OwnerTagAssumption DEF SignedByOwner
  <2>2. /\ q[1] = registrar[p].realm /\ q[2] = registrar[p].governing_token_mint
        /\ q[3] = signer
    BY <1>1, <2>1 DEF AddressBinding, OwnerOverwritten, RecordOfRegistrar, SignedByOwner
  <2> QED
    BY <2>2 DEF VoterWeightRecordAddress
<1>3. <<q[1], q[2]>> = p /\ q[3] = address
  BY <1>1, <1>2 DEF IsRegistrar, RegistrarPda, IsIdentityOf
<1>4. registrar[p] \in RegistrarAccount /\ identity[address] \in IdentityAccount
  BY <1>1, PassedRegistrar DEF TypeOK, EnvTypeOK
<1>5. unix_timestamp - identity[address].last_verification_timestamp
        < registrar[p].max_verification_age
  <2>1. unix_timestamp \in 0 .. I64Max
    BY EnvironmentAssumption, WidthAssumption DEF TypeOK, EnvTypeOK, U64
  <2>2. registrar[p].max_verification_age \in I64
    BY <1>4, RegistrarAssumption DEF RegistrarAccount
  <2>3. identity[address].last_verification_timestamp \in I64
    BY <1>4 DEF IdentityAccount
  <2> QED
    BY <1>1, <2>1, <2>2, <2>3, RecencyIsExact DEF SatisfiesPolicy
<1> QED
  BY <1>1, <1>3, <1>5 DEF Entitled, IsIdentityOf, SatisfiesPolicy, TrustSufficient,
                          IsRegistrar

\* An instruction that changes a voter weight record is signed by its owner,
\* passes its registrar, and creates, closes, or grants to the entitled.
LEMMA RecordStep ==
  ASSUME TypeOK, AddressBinding, NEW signer \in Signer, VoterWeightRecordNext(signer),
         NEW q \in VoterWeightRecordAddress,
         voter_weight_record'[q] # voter_weight_record[q]
  PROVE  /\ registrar[<<q[1], q[2]>>] # NoAccount
         /\ signer = q[3]
         /\ \/ /\ voter_weight_record'[q] # NoAccount
               /\ voter_weight_record'[q].voter_weight = 0
            \/ Entitled(q)
            \/ voter_weight_record'[q] = NoAccount
<1> VoterWeightRecordTypeOK /\ RegistrarTypeOK
  BY DEF TypeOK
<1>1. ASSUME NEW p \in RegistrarAddress, NEW owner \in Wallet,
             CreateVoterWeightRecord(p, owner, signer)
      PROVE  /\ registrar[<<q[1], q[2]>>] # NoAccount
             /\ signer = q[3]
             /\ voter_weight_record'[q] # NoAccount
             /\ voter_weight_record'[q].voter_weight = 0
  <2>1. q = <<registrar[p].realm, registrar[p].governing_token_mint, owner>>
    BY <1>1 DEF CreateVoterWeightRecord, VoterWeightRecordPda, VoterWeightRecordTypeOK
  <2>2. <<q[1], q[2]>> = p /\ q[3] = signer /\ registrar[p] # NoAccount
    BY <1>1, <2>1 DEF CreateVoterWeightRecord, IsRegistrar, RegistrarPda
  <2>3. voter_weight_record'[q] =
          [realm |-> registrar[p].realm,
           governing_token_mint |-> registrar[p].governing_token_mint,
           governing_token_owner |-> owner,
           voter_weight |-> 0, voter_weight_expiry |-> InitialExpiry]
    BY <1>1, <2>1 DEF CreateVoterWeightRecord, VoterWeightRecordPda, VoterWeightRecordTypeOK
  <2>4. voter_weight_record'[q] \in VoterWeightRecordAccount
    BY <1>1, <2>3, PassedRegistrar, WidthAssumption
    DEF CreateVoterWeightRecord, VoterWeightRecordAccount, InitialExpiry, U64
  <2> QED
    BY <2>2, <2>3, <2>4, VoterWeightRecordDistinct
<1>2. ASSUME NEW p \in RegistrarAddress, NEW passed \in VoterWeightRecordAddress,
             NEW address \in Wallet, UpdateVoterWeightRecord(p, passed, signer, address)
      PROVE  registrar[<<q[1], q[2]>>] # NoAccount /\ signer = q[3] /\ Entitled(q)
  <2>1. passed = q
    BY <1>2, RefreshedRecord
  <2>2. Entitled(q)
    BY <1>2, <2>1, RefreshedIsEntitled
  <2>3. signer = q[3]
    BY <1>2, <2>1, OwnerTagAssumption
    DEF UpdateVoterWeightRecord, RecordOfRegistrar, SignedByOwner, AddressBinding,
        OwnerOverwritten
  <2> QED
    BY <2>2, <2>3 DEF Entitled
<1>3. ASSUME NEW p \in RegistrarAddress, NEW passed \in VoterWeightRecordAddress,
             CloseVoterWeightRecord(p, passed, signer)
      PROVE  /\ registrar[<<q[1], q[2]>>] # NoAccount
             /\ signer = q[3]
             /\ voter_weight_record'[q] = NoAccount
  <2>1. passed = q /\ voter_weight_record'[q] = NoAccount
    BY <1>3 DEF CloseVoterWeightRecord, VoterWeightRecordTypeOK
  <2>2. <<q[1], q[2]>> = p /\ q[3] = signer /\ registrar[p] # NoAccount
    BY <1>3, <2>1, OwnerTagAssumption
    DEF CloseVoterWeightRecord, MayCloseVoterWeightRecord, RecordOfRegistrar, SignedByOwner,
        IsRegistrar, RegistrarPda, AddressBinding, OwnerOverwritten
  <2> QED
    BY <2>1, <2>2
<1> QED
  BY <1>1, <1>2, <1>3 DEF VoterWeightRecordNext

\* An update of a max record that changes a voter weight record comes from the
\* administrator of the record's registrar and reaches the owner field only.
LEMMA OverwriteStep ==
  ASSUME TypeOK, AddressBinding, NEW signer \in Signer, Overwriting(signer),
         NEW q \in VoterWeightRecordAddress,
         voter_weight_record'[q] # voter_weight_record[q]
  PROVE  /\ AdminOf(<<q[1], q[2]>>, q[1], signer)
         /\ voter_weight_record[q] # NoAccount /\ voter_weight_record'[q] # NoAccount
         /\ voter_weight_record'[q].realm = voter_weight_record[q].realm
         /\ voter_weight_record'[q].governing_token_mint
              = voter_weight_record[q].governing_token_mint
         /\ voter_weight_record'[q].governing_token_owner \in OwnerAfter(q)
         /\ GrantKept(q)
         /\ q[3] \in TagNone \cup TagSome
<1> VoterWeightRecordTypeOK /\ RegistrarTypeOK
  BY DEF TypeOK
<1>1. PICK p \in RegistrarAddress, r \in Realm, weight \in MaxVoterWeight,
           passed \in VoterWeightRecordAddress :
        OverwriteOwner(p, passed, r, signer, weight)
  BY DEF Overwriting
<1>2. passed = q
  BY <1>1, OverwrittenRecord
<1>3. AdminOf(p, r, signer) /\ RecordOfRegistrar(q, p)
  BY <1>1, <1>2 DEF OverwriteOwner
<1>4. p = <<q[1], q[2]>> /\ r = q[1]
  BY <1>3 DEF AdminOf, IsRegistrar, RegistrarPda, RecordOfRegistrar, AddressBinding
<1>5. q[3] \in TagNone \cup TagSome
  BY <1>1, <1>2, OverwrittenRecord, OwnerTagAssumption
  DEF AddressBinding, OwnerOverwritten, Signer, VoterWeightRecordAddress
<1> QED
  BY <1>1, <1>2, <1>3, <1>4, <1>5, OverwrittenRecord DEF GrantKept

\* Only entitled owners are granted a weight, with their own identity and by
\* the policy of the record's own realm and mint.
THEOREM OnlyEntitledAreGranted == Spec => WeightOnlyToEntitled
<1>1. TypeOK /\ AddressBinding /\ [Next]_vars => [GrantsToEntitled]_vars
  <2> SUFFICES ASSUME TypeOK, AddressBinding, [Next]_vars,
                      NEW q \in VoterWeightRecordAddress,
                      voter_weight_record'[q] # NoAccount,
                      voter_weight_record'[q].voter_weight = 1,
                      ~ GrantKept(q)
               PROVE  Entitled(q)
    BY DEF GrantsToEntitled
  <2>1. voter_weight_record'[q].voter_weight # 0
    OBVIOUS
  <2>2. voter_weight_record'[q] # voter_weight_record[q]
    BY DEF GrantKept
  <2>3. PICK signer \in Signer : VoterWeightRecordNext(signer) \/ Overwriting(signer)
    BY <2>2, WhoChangesVoterWeightRecords
  <2>4. VoterWeightRecordNext(signer)
    BY <2>2, <2>3, OverwriteStep
  <2> QED
    BY <2>1, <2>2, <2>4, RecordStep, Zenon
<1> QED
  BY <1>1, TypeCorrect, AddressesAreBound, PTL DEF Spec, WeightOnlyToEntitled

-----------------------------------------------------------------------------
(* Registrars that are closed, realms that are no longer governed          *)

\* An instruction that changes a max voter weight record comes from its
\* administrator, who creates it or sets a positive weight without expiry.
LEMMA MaxRecordStep ==
  ASSUME TypeOK, AddressBinding, NEW signer \in Signer, MaxVoterWeightRecordNext(signer),
         NEW q \in MaxVoterWeightRecordAddress,
         max_voter_weight_record'[q] # max_voter_weight_record[q]
  PROVE  /\ AdminOf(q, q[1], signer)
         /\ \/ max_voter_weight_record[q] = NoAccount
            \/ /\ max_voter_weight_record'[q] # NoAccount
               /\ max_voter_weight_record'[q].max_voter_weight > 0
               /\ max_voter_weight_record'[q].max_voter_weight_expiry = NeverExpires
<1> MaxVoterWeightRecordTypeOK /\ RegistrarTypeOK
  BY DEF TypeOK
<1>1. ASSUME NEW p \in RegistrarAddress, NEW r \in Realm,
             CreateMaxVoterWeightRecord(p, r, signer)
      PROVE  AdminOf(q, q[1], signer) /\ max_voter_weight_record[q] = NoAccount
  <2>1. /\ AdminOf(p, r, signer)
        /\ q = <<registrar[p].realm, registrar[p].governing_token_mint>>
        /\ max_voter_weight_record[q] = NoAccount
    BY <1>1 DEF CreateMaxVoterWeightRecord, MaxVoterWeightRecordPda,
                MaxVoterWeightRecordTypeOK
  <2>2. p = q /\ r = q[1]
    BY <2>1 DEF AdminOf, IsRegistrar, RegistrarPda
  <2> QED
    BY <2>1, <2>2
<1>2. ASSUME NEW p \in RegistrarAddress, NEW passed \in MaxVoterWeightRecordAddress,
             NEW r \in Realm, NEW weight \in MaxVoterWeight,
             UpdateMaxVoterWeightRecord(p, passed, r, signer, weight)
      PROVE  /\ AdminOf(q, q[1], signer)
             /\ max_voter_weight_record'[q] # NoAccount
             /\ max_voter_weight_record'[q].max_voter_weight > 0
             /\ max_voter_weight_record'[q].max_voter_weight_expiry = NeverExpires
  <2>1. passed = q
    BY <1>2, ResizedRecord
  <2>2. /\ AdminOf(p, r, signer) /\ MaxRecordOfRegistrar(q, p) /\ weight > 0
    BY <1>2, <2>1 DEF UpdateMaxVoterWeightRecord, PositiveMaxWeight
  <2>3. p = q /\ r = q[1]
    BY <2>2 DEF AdminOf, IsRegistrar, RegistrarPda, MaxRecordOfRegistrar, AddressBinding
  <2>4. max_voter_weight_record'[q] =
          [max_voter_weight_record[q] EXCEPT !.max_voter_weight = weight,
                                             !.max_voter_weight_expiry = NeverExpires]
    BY <1>2, <2>1 DEF UpdateMaxVoterWeightRecord, MaxVoterWeightRecordTypeOK
  <2>5. max_voter_weight_record'[q] # NoAccount
    <3>1. max_voter_weight_record'[q] \in MaxVoterWeightRecordAccount
      BY <1>2, <2>1, <2>4, ResizedRecord DEF MaxVoterWeightRecordAccount
    <3> QED
      BY <3>1, MaxVoterWeightRecordDistinct
  <2> QED
    BY <1>2, <2>1, <2>2, <2>3, <2>5, ResizedRecord
<1> QED
  BY <1>1, <1>2 DEF MaxVoterWeightRecordNext

\* An instruction that changes a registrar comes from the authority of its
\* realm, while the realm governs with its mint.
LEMMA RegistrarStep ==
  ASSUME TypeOK, NEW signer \in Signer, RegistrarNext(signer),
         NEW p \in RegistrarAddress, registrar'[p] # registrar[p]
  PROVE  \E program \in Program : AuthorizedAdmin(program, p[1], p[2], signer)
<1> RegistrarTypeOK
  BY DEF TypeOK
<1>1. ASSUME NEW program \in Program, NEW r \in Realm, NEW m \in Mint,
             NEW minScore \in MinTrustScore, NEW maxAge \in MaxVerificationAge,
             CreateRegistrar(program, r, m, signer, minScore, maxAge)
      PROVE  AuthorizedAdmin(program, p[1], p[2], signer)
  BY <1>1 DEF CreateRegistrar, RegistrarPda, RegistrarTypeOK
<1>2. ASSUME NEW passed \in RegistrarAddress, NEW r \in Realm,
             AdminOf(passed, r, signer), passed = p
      PROVE  \E program \in Program : AuthorizedAdmin(program, p[1], p[2], signer)
  <2>1. p = <<registrar[p].realm, registrar[p].governing_token_mint>>
    BY <1>2 DEF AdminOf, IsRegistrar, RegistrarPda
  <2>2. registrar[p].governance_program_id \in Program
    BY <1>2, PassedRegistrar DEF AdminOf, RegistrarAccount
  <2> QED
    BY <1>2, <2>1, <2>2 DEF AdminOf
<1>3. ASSUME NEW passed \in RegistrarAddress, NEW r \in Realm,
             NEW minScore \in MinTrustScore, NEW maxAge \in MaxVerificationAge,
             UpdateRegistrar(passed, r, signer, minScore, maxAge)
      PROVE  AdminOf(passed, r, signer) /\ passed = p
  BY <1>3 DEF UpdateRegistrar, RegistrarTypeOK
<1>4. ASSUME NEW passed \in RegistrarAddress, NEW r \in Realm,
             CloseRegistrar(passed, r, signer)
      PROVE  AdminOf(passed, r, signer) /\ passed = p
  BY <1>4 DEF CloseRegistrar, RegistrarTypeOK
<1> QED
  BY <1>1, <1>2, <1>3, <1>4 DEF RegistrarNext

\* Without its registrar an account stays as it is, whatever other registrars
\* are passed.
THEOREM OrphansStay == Spec => OrphansFrozen
<1>1. TypeOK /\ AddressBinding /\ [Next]_vars => [OrphansKept]_vars
  <2> SUFFICES ASSUME TypeOK, AddressBinding, [Next]_vars,
                      NEW r \in Realm, NEW m \in Mint, registrar[<<r, m>>] = NoAccount
               PROVE  /\ max_voter_weight_record'[<<r, m>>] = max_voter_weight_record[<<r, m>>]
                      /\ \A w \in Wallet :
                           voter_weight_record'[<<r, m, w>>] = voter_weight_record[<<r, m, w>>]
    BY DEF OrphansKept
  <2>1. max_voter_weight_record'[<<r, m>>] = max_voter_weight_record[<<r, m>>]
    BY WhoChangesMaxVoterWeightRecords, MaxRecordStep
    DEF MaxVoterWeightRecordAddress, AdminOf, IsRegistrar
  <2>2. ASSUME NEW w \in Wallet
        PROVE  voter_weight_record'[<<r, m, w>>] = voter_weight_record[<<r, m, w>>]
    <3>1. /\ <<r, m, w>> \in VoterWeightRecordAddress
          /\ <<r, m, w>>[1] = r /\ <<r, m, w>>[2] = m
      BY DEF VoterWeightRecordAddress
    <3> SUFFICES ASSUME voter_weight_record'[<<r, m, w>>] # voter_weight_record[<<r, m, w>>]
                 PROVE  FALSE
      OBVIOUS
    <3>2. PICK signer \in Signer : VoterWeightRecordNext(signer) \/ Overwriting(signer)
      BY WhoChangesVoterWeightRecords
    <3> QED
      BY <3>1, <3>2, RecordStep, OverwriteStep DEF AdminOf, IsRegistrar
  <2> QED
    BY <2>1, <2>2
<1> QED
  BY <1>1, TypeCorrect, AddressesAreBound, PTL DEF Spec, OrphansFrozen

\* Without an authority, or without its mint in the realm, a policy and a
\* quorum base are final.
THEOREM UngovernedStay == Spec => UngovernedFrozen
<1>1. TypeOK /\ AddressBinding /\ [Next]_vars => [UngovernedKept]_vars
  <2> SUFFICES ASSUME TypeOK, AddressBinding, [Next]_vars,
                      NEW r \in Realm, NEW m \in Mint,
                      \A program \in Program, signer \in Signer :
                        ~ AuthorizedAdmin(program, r, m, signer)
               PROVE  /\ registrar'[<<r, m>>] = registrar[<<r, m>>]
                      /\ max_voter_weight_record'[<<r, m>>] = max_voter_weight_record[<<r, m>>]
    BY DEF UngovernedKept, AuthorizedAdmin, MintGovernsRealm, ConfiguredMint
  <2>1. registrar'[<<r, m>>] = registrar[<<r, m>>]
    BY WhoChangesRegistrars, RegistrarStep DEF RegistrarAddress
  <2>2. max_voter_weight_record'[<<r, m>>] = max_voter_weight_record[<<r, m>>]
    <3> SUFFICES ASSUME max_voter_weight_record'[<<r, m>>] # max_voter_weight_record[<<r, m>>]
                 PROVE  FALSE
      OBVIOUS
    <3>1. PICK signer \in Signer : AdminOf(<<r, m>>, r, signer)
      BY WhoChangesMaxVoterWeightRecords, MaxRecordStep DEF MaxVoterWeightRecordAddress
    <3>2. registrar[<<r, m>>].governance_program_id \in Program
      BY <3>1, PassedRegistrar
      DEF AdminOf, RegistrarAddress, RegistrarAccount, TypeOK
    <3> QED
      BY <3>1, <3>2 DEF AdminOf, IsRegistrar, RegistrarPda
  <2> QED
    BY <2>1, <2>2
<1> QED
  BY <1>1, TypeCorrect, AddressesAreBound, PTL DEF Spec, UngovernedFrozen

\* A quorum base, once set, is neither removed nor zeroed nor made to expire.
THEOREM QuorumBaseIsKept == Spec => QuorumBaseStays
<1>1. TypeOK /\ AddressBinding /\ [Next]_vars => [QuorumBaseKept]_vars
  BY WhoChangesMaxVoterWeightRecords, MaxRecordStep DEF QuorumBaseKept
<1> QED
  BY <1>1, TypeCorrect, AddressesAreBound, PTL DEF Spec, QuorumBaseStays

\* No instruction of a voter changes a record that names nobody.
LEMMA OverwrittenIsNobodys ==
  ASSUME TypeOK, NEW signer \in Signer, VoterWeightRecordNext(signer),
         NEW q \in VoterWeightRecordAddress, OwnerOverwritten(q)
  PROVE  voter_weight_record'[q] = voter_weight_record[q]
<1> VoterWeightRecordTypeOK
  BY DEF TypeOK
<1> USE OwnerTagAssumption DEF OwnerOverwritten, SignedByOwner
<1>1. ASSUME NEW p \in RegistrarAddress, NEW owner \in Wallet,
             CreateVoterWeightRecord(p, owner, signer)
      PROVE  voter_weight_record'[q] = voter_weight_record[q]
  BY <1>1 DEF CreateVoterWeightRecord, VoterWeightRecordPda, VoterWeightRecordTypeOK
<1>2. ASSUME NEW p \in RegistrarAddress, NEW passed \in VoterWeightRecordAddress,
             NEW address \in Wallet, UpdateVoterWeightRecord(p, passed, signer, address)
      PROVE  voter_weight_record'[q] = voter_weight_record[q]
  BY <1>2, RefreshedRecord DEF UpdateVoterWeightRecord
<1>3. ASSUME NEW p \in RegistrarAddress, NEW passed \in VoterWeightRecordAddress,
             CloseVoterWeightRecord(p, passed, signer)
      PROVE  voter_weight_record'[q] = voter_weight_record[q]
  BY <1>3 DEF CloseVoterWeightRecord, MayCloseVoterWeightRecord, VoterWeightRecordTypeOK
<1> QED
  BY <1>1, <1>2, <1>3 DEF VoterWeightRecordNext

\* A record whose owner has been overwritten can be changed by nothing but a
\* further write to its owner field.
THEOREM OverwrittenStay == Spec => OverwrittenFrozen
<1>1. TypeOK /\ AddressBinding /\ [Next]_vars => [OverwrittenKept]_vars
  <2> SUFFICES ASSUME TypeOK, AddressBinding, [Next]_vars,
                      NEW q \in VoterWeightRecordAddress, OwnerOverwritten(q)
               PROVE  /\ voter_weight_record'[q] # NoAccount
                      /\ GrantKept(q)
                      /\ OwnerOverwritten(q)' \/ q[3] \in TagNone
    BY DEF OverwrittenKept
  <2>1. q[3] \in Wallet /\ q[3] # Overwritten
    BY OwnerTagAssumption DEF VoterWeightRecordAddress, Signer
  <2>2. CASE voter_weight_record'[q] = voter_weight_record[q]
    BY <2>2 DEF OwnerOverwritten, GrantKept
  <2>3. CASE voter_weight_record'[q] # voter_weight_record[q]
    <3>1. PICK signer \in Signer : VoterWeightRecordNext(signer) \/ Overwriting(signer)
      BY <2>3, WhoChangesVoterWeightRecords
    <3>2. ~ VoterWeightRecordNext(signer)
      BY <2>3, OverwrittenIsNobodys
    <3> QED
      BY <2>3, <3>1, <3>2, OverwriteStep DEF OwnerOverwritten, OwnerAfter
  <2> QED
    BY <2>2, <2>3
<1> QED
  BY <1>1, TypeCorrect, AddressesAreBound, PTL DEF Spec, OverwrittenFrozen
=============================================================================
