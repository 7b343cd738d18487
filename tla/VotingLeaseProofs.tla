-------------------------- MODULE VotingLeaseProofs --------------------------
(***************************************************************************)
(* The program implements the promise of VotingLease: the lease of a voter *)
(* is the expiry slot of the voter's record while its weight is 1.         *)
(***************************************************************************)
EXTENDS EntrosVoterWeightProofs

EntitledMembers == {q \in VoterWeightRecordAddress : Entitled(q)}

\* A program that starts holds no record, so nobody has a lease.
LEMMA LeaseInitial ==
  ASSUME Init
  PROVE  Promise!LeaseInit
<1>1. slot \in Nat
  BY DEF Init, EnvInit
<1>2. Lease = [q \in VoterWeightRecordAddress |-> 0]
  BY DEF Init, VoterWeightRecordInit, Lease
<1> QED
  BY <1>1, <1>2 DEF Promise!LeaseInit

\* Entitlement depends on registrars, identities and the time only.
LEMMA EntitlementStands ==
  ASSUME UNCHANGED <<envVars, registrar>>
  PROVE  EntitledMembers' = EntitledMembers /\ slot' = slot
BY DEF EntitledMembers, Entitled, envVars

\* A step that leaves the records alone leaves the leases alone.
LEMMA RecordsStand ==
  ASSUME TypeOK, [Next]_vars, voter_weight_record' = voter_weight_record
  PROVE  Promise!WorldChanges
<1>1. slot' \in {slot, slot + 1}
  BY DEF Next, Environs, EnvNext, SetRealmAuthority, RemoveCouncilMint, VerifyIdentity,
         Tick, Instruction, vars, envVars
<1>2. Lease' = Lease
  BY DEF Lease
<1>3. EntitledMembers' \subseteq VoterWeightRecordAddress
  BY DEF EntitledMembers
<1> QED
  BY <1>1, <1>2, <1>3 DEF Promise!WorldChanges, EntitledMembers

\* Each instruction on a record grants one lease to an entitled member, hands
\* one back, or leaves all leases alone.
LEMMA RecordsChange ==
  ASSUME TypeOK, AddressBinding, NEW signer \in Signer,
         VoterWeightRecordNext(signer), UNCHANGED <<envVars, registrar>>
  PROVE  Promise!LeaseNext
<1> VoterWeightRecordTypeOK /\ EnvTypeOK
  BY DEF TypeOK
<1>1. EntitledMembers' = EntitledMembers /\ slot' = slot
  BY EntitlementStands
<1>2. ASSUME NEW p \in RegistrarAddress, NEW owner \in Wallet,
             CreateVoterWeightRecord(p, owner, signer)
      PROVE  Promise!WorldChanges
  <2>1. ASSUME NEW q \in VoterWeightRecordAddress
        PROVE  Lease'[q] = Lease[q]
    <3>1. CASE voter_weight_record'[q] = voter_weight_record[q]
      BY <3>1 DEF Lease
    <3>2. CASE voter_weight_record'[q] # voter_weight_record[q]
      <4>1. /\ voter_weight_record[q] = NoAccount
            /\ voter_weight_record'[q].voter_weight = 0
        BY <1>2, <3>2 DEF CreateVoterWeightRecord, VoterWeightRecordTypeOK
      <4> QED
        BY <4>1 DEF Lease
    <3> QED
      BY <3>1, <3>2
  <2>2. Lease' = Lease
    BY <2>1 DEF Lease
  <2> QED
    BY <1>1, <2>2 DEF Promise!WorldChanges, EntitledMembers
<1>3. ASSUME NEW p \in RegistrarAddress, NEW q \in VoterWeightRecordAddress,
             NEW address \in Wallet, UpdateVoterWeightRecord(p, q, signer, address)
      PROVE  Promise!Grant(q)
  <2>1. q \in EntitledMembers
    BY <1>3, RefreshedIsEntitled DEF EntitledMembers
  <2>2. ExpiryAfter(slot) \in slot .. slot + ExpirySlots
    BY SlotIsU64, ExpiryWindow, WidthAssumption DEF U64
  <2>3. voter_weight_record'[q] # NoAccount
    <3>1. ExpiryAfter(slot) \in U64
      BY SlotIsU64, ExpiryWindow
    <3>2. voter_weight_record[q] \in VoterWeightRecordAccount
      BY <1>3, RefreshedRecord
    <3>3. voter_weight_record'[q] =
            [voter_weight_record[q] EXCEPT !.voter_weight = 1,
                                           !.voter_weight_expiry = ExpiryAfter(slot)]
      BY <1>3 DEF UpdateVoterWeightRecord, VoterWeightRecordTypeOK
    <3>4. voter_weight_record'[q] \in VoterWeightRecordAccount
      BY <3>1, <3>2, <3>3 DEF VoterWeightRecordAccount
    <3> QED
      BY <3>4, VoterWeightRecordDistinct
  <2>4. /\ Lease'[q] = ExpiryAfter(slot)
        /\ \A other \in VoterWeightRecordAddress \ {q} : Lease'[other] = Lease[other]
    BY <1>3, <2>3, RefreshedRecord DEF Lease
  <2>5. Lease' = [Lease EXCEPT ![q] = ExpiryAfter(slot)]
    BY <2>4 DEF Lease
  <2> QED
    BY <1>1, <2>1, <2>2, <2>5 DEF Promise!Grant, EntitledMembers
<1>4. ASSUME NEW p \in RegistrarAddress, NEW q \in VoterWeightRecordAddress,
             CloseVoterWeightRecord(p, q, signer)
      PROVE  Promise!HandBack(q)
  <2>1. Lease' = [Lease EXCEPT ![q] = 0]
    BY <1>4 DEF CloseVoterWeightRecord, Lease, VoterWeightRecordTypeOK
  <2> QED
    BY <1>1, <2>1 DEF Promise!HandBack, EntitledMembers
<1> QED
  BY <1>2, <1>3, <1>4 DEF VoterWeightRecordNext, Promise!LeaseNext

\* Overwriting an owner field leaves all leases alone.
LEMMA OwnersChange ==
  ASSUME TypeOK, AddressBinding, NEW signer \in Signer,
         Overwriting(signer), UNCHANGED <<envVars, registrar>>
  PROVE  Promise!WorldChanges
<1>1. ASSUME NEW q \in VoterWeightRecordAddress
      PROVE  Lease'[q] = Lease[q]
  <2>1. CASE voter_weight_record'[q] = voter_weight_record[q]
    BY <2>1 DEF Lease
  <2>2. CASE voter_weight_record'[q] # voter_weight_record[q]
    <3>1. GrantKept(q) /\ voter_weight_record'[q] # NoAccount
      BY <2>2, OverwriteStep
    <3> QED
      BY <3>1 DEF Lease, GrantKept
  <2> QED
    BY <2>1, <2>2
<1>2. Lease' = Lease
  BY <1>1 DEF Lease
<1> QED
  BY <1>2, EntitlementStands DEF Promise!WorldChanges, EntitledMembers

\* Every behaviour of the program is a behaviour of the abstract leases.
THEOREM ImplementsLeases == Spec => LeasePromise
<1>1. Init => Promise!LeaseInit
  BY LeaseInitial
<1>2. TypeOK /\ AddressBinding /\ [Next]_vars => [Promise!LeaseNext]_(Promise!leaseVars)
  <2> SUFFICES ASSUME TypeOK, AddressBinding, [Next]_vars
               PROVE  Promise!LeaseNext
    OBVIOUS
  <2>1. CASE voter_weight_record' = voter_weight_record
    BY <2>1, RecordsStand DEF Promise!LeaseNext
  <2>2. CASE voter_weight_record' # voter_weight_record
    BY <2>2, WhoChangesVoterWeightRecords, RecordsChange, OwnersChange
    DEF Promise!LeaseNext
  <2> QED
    BY <2>1, <2>2
<1> QED
  BY <1>1, <1>2, TypeCorrect, AddressesAreBound, PTL
  DEF Spec, LeasePromise, Promise!LeaseSpec
=============================================================================
