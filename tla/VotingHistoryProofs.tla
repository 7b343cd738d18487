------------------------- MODULE VotingHistoryProofs -------------------------
(***************************************************************************)
(* Who signed, and for how long a weight outlives its owner's entitlement. *)
(***************************************************************************)
EXTENDS VotingHistory, EntrosVoterWeightProofs

\* The history variables do not constrain the program.
LEMMA HistoryIsSpec == HistorySpec => Spec
<1>1. HistoryInit => Init
  BY DEF HistoryInit
<1>2. [HistoryNext]_historyVars => [Next]_vars
  BY DEF HistoryNext, Next, historyVars
<1> QED
  BY <1>1, <1>2, PTL DEF HistorySpec, Spec

\* What is known of the program's own variables in every state.
ProgramInv == TypeOK /\ AddressBinding /\ GrantWindow

LEMMA HistoryProgramInv == HistorySpec => []ProgramInv
BY HistoryIsSpec, TypeCorrect, AddressesAreBound, GrantsEndInWindow, PTL DEF ProgramInv

LastEntitledOK == last_entitled \in [VoterWeightRecordAddress -> 0 .. slot]

\* The inductive form of the lag: a weight ends within the window that began
\* when its owner was last entitled, whether or not it is still usable.
LagInv ==
  /\ LastEntitledOK
  /\ \A q \in VoterWeightRecordAddress :
       voter_weight_record[q] # NoAccount /\ voter_weight_record[q].voter_weight = 1 =>
         voter_weight_record[q].voter_weight_expiry <= last_entitled[q] + ExpirySlots

\* last_entitled grows, and reaches the slot when the owner is entitled.
LEMMA Remembering ==
  ASSUME TypeOK, TypeOK', [Next]_vars, LastEntitledOK, Remember
  PROVE  /\ LastEntitledOK'
         /\ \A q \in VoterWeightRecordAddress :
              /\ last_entitled'[q] >= last_entitled[q]
              /\ Entitled(q)' => last_entitled'[q] = slot'
<1>1. slot \in Nat /\ slot' \in Nat /\ slot' >= slot
  BY EnvMonotone, EnvironmentAssumption DEF TypeOK, EnvTypeOK, U64
<1> QED
  BY <1>1 DEF Remember, LastEntitledOK

\* A step that gives or extends a weight is a refresh of an entitled owner, who
\* is still entitled after it.
LEMMA GrantedNow ==
  ASSUME TypeOK, AddressBinding, [Next]_vars, NEW q \in VoterWeightRecordAddress,
         ~ GrantKept(q),
         voter_weight_record'[q] # NoAccount, voter_weight_record'[q].voter_weight = 1
  PROVE  Entitled(q)'
<1>0. voter_weight_record'[q] # voter_weight_record[q]
  BY DEF GrantKept
<1> PICK s \in Signer : /\ VoterWeightRecordNext(s) \/ Overwriting(s)
                        /\ UNCHANGED <<envVars, registrar>>
  BY <1>0, WhoChangesVoterWeightRecords
<1>1. voter_weight_record'[q].voter_weight # 0
  OBVIOUS
<1>2. Entitled(q)
  <2>1. ~ Overwriting(s)
    BY <1>0, OverwriteStep
  <2>2. VoterWeightRecordNext(s)
    BY <2>1
  <2> QED
    BY <1>0, <1>1, <2>2, RecordStep, Zenon
<1>3. UNCHANGED <<registrar, identity, unix_timestamp>>
  BY DEF envVars
<1> QED
  BY <1>2, <1>3 DEF Entitled

LEMMA LagInitial == HistoryInit => LagInv
BY DEF HistoryInit, Init, EnvInit, VoterWeightRecordInit, LagInv, LastEntitledOK

LEMMA LagStep ==
  ASSUME ProgramInv, ProgramInv', LagInv, [HistoryNext]_historyVars
  PROVE  LagInv'
<1> [Next]_vars
  BY DEF HistoryNext, Next, historyVars
<1> TypeOK /\ TypeOK' /\ AddressBinding /\ GrantWindow' /\ LastEntitledOK
  BY DEF ProgramInv, LagInv
<1>1. CASE HistoryNext
  <2>1. /\ LastEntitledOK'
        /\ \A q \in VoterWeightRecordAddress :
             /\ last_entitled'[q] >= last_entitled[q]
             /\ Entitled(q)' => last_entitled'[q] = slot'
    BY <1>1, Remembering DEF HistoryNext
  <2>2. ASSUME NEW q \in VoterWeightRecordAddress,
               voter_weight_record'[q] # NoAccount, voter_weight_record'[q].voter_weight = 1
        PROVE  voter_weight_record'[q].voter_weight_expiry <= last_entitled'[q] + ExpirySlots
    <3>1. slot \in Nat /\ slot' \in Nat /\ ExpirySlots \in Nat
      BY EnvironmentAssumption, WidthAssumption DEF TypeOK, EnvTypeOK, U64
    <3>2. last_entitled[q] \in Nat /\ last_entitled'[q] \in Nat
      BY <2>1, <3>1 DEF LastEntitledOK
    <3>3. CASE GrantKept(q)
      <4>1. voter_weight_record[q].voter_weight_expiry <= last_entitled[q] + ExpirySlots
        BY <2>2, <3>3 DEF LagInv, GrantKept
      <4>2. voter_weight_record[q].voter_weight_expiry \in Nat
        BY <2>2, <3>3, WidthAssumption
        DEF GrantKept, TypeOK, VoterWeightRecordTypeOK, VoterWeightRecordAccount, U64
      <4> QED
        BY <2>1, <3>1, <3>2, <3>3, <4>1, <4>2 DEF GrantKept
    <3>4. CASE ~ GrantKept(q)
      <4>1. last_entitled'[q] = slot'
        BY <2>1, <2>2, <3>4, GrantedNow
      <4>2. voter_weight_record'[q].voter_weight_expiry \in 1 .. slot' + ExpirySlots
        BY <2>2 DEF GrantWindow
      <4> QED
        BY <3>1, <4>1, <4>2
    <3> QED
      BY <3>3, <3>4
  <2> QED
    BY <2>1, <2>2 DEF LagInv
<1>2. CASE UNCHANGED historyVars
  BY <1>2 DEF historyVars, vars, LagInv, LastEntitledOK
<1> QED
  BY <1>1, <1>2

\* In every state the accounts have their types and the history variables
\* theirs: nobody has been entitled in a slot that is still to come.
THEOREM HistoryTypesCorrect == HistorySpec => []HistoryTypeOK
<1> DEFINE SignerOK == signer \in Signer \cup {Nobody}
<1>1. HistorySpec => []LagInv
  BY LagInitial, LagStep, HistoryProgramInv, PTL DEF HistorySpec
<1>2. HistorySpec => []SignerOK
  <2>1. HistoryInit => SignerOK
    BY DEF HistoryInit
  <2>2. SignerOK /\ [HistoryNext]_historyVars => SignerOK'
    BY DEF HistoryNext, historyVars
  <2> QED
    BY <2>1, <2>2, PTL DEF HistorySpec
<1>3. ProgramInv /\ LagInv /\ SignerOK => HistoryTypeOK
  BY DEF ProgramInv, LagInv, LastEntitledOK, HistoryTypeOK
<1> QED
  BY <1>1, <1>2, <1>3, HistoryProgramInv, PTL

\* A usable weight is never staler than the window: at most ExpirySlots slots
\* have passed since its owner last met the policy in force.
THEOREM WeightsLagByTheWindow == HistorySpec => []RevocationLag
<1>1. HistoryInit => LagInv
  BY LagInitial
<1>2. ProgramInv /\ ProgramInv' /\ LagInv /\ [HistoryNext]_historyVars => LagInv'
  BY LagStep
<1>3. ProgramInv /\ LagInv => RevocationLag
  <2> SUFFICES ASSUME ProgramInv, LagInv, NEW q \in VoterWeightRecordAddress, Usable(q)
               PROVE  slot - last_entitled[q] <= ExpirySlots
    BY DEF RevocationLag
  <2>1. /\ slot <= voter_weight_record[q].voter_weight_expiry
        /\ voter_weight_record[q].voter_weight_expiry <= last_entitled[q] + ExpirySlots
    BY DEF Usable, LagInv
  <2>2. voter_weight_record[q].voter_weight_expiry \in Nat
    BY WidthAssumption DEF ProgramInv, TypeOK, VoterWeightRecordTypeOK,
                           VoterWeightRecordAccount, U64, Usable
  <2>3. slot \in Nat /\ last_entitled[q] \in Nat
    BY EnvironmentAssumption DEF ProgramInv, TypeOK, EnvTypeOK, U64, LagInv, LastEntitledOK
  <2> QED
    BY <2>1, <2>2, <2>3, WidthAssumption
<1> QED
  BY <1>1, <1>2, <1>3, HistoryProgramInv, PTL DEF HistorySpec

OwnerSigned ==
  \A q \in VoterWeightRecordAddress :
    voter_weight_record'[q] # voter_weight_record[q] =>
      signer' = q[3] \/ OwnerFieldOnly(q)

\* Only its owner's signature changes a voter weight record, but for the owner
\* field of some, which the realm's authority can change.
THEOREM OwnersConsent == HistorySpec => OwnerConsent
<1>1. ProgramInv /\ [HistoryNext]_historyVars => [OwnerSigned]_historyVars
  <2> SUFFICES ASSUME ProgramInv, HistoryNext, NEW q \in VoterWeightRecordAddress,
                      voter_weight_record'[q] # voter_weight_record[q]
               PROVE  signer' = q[3] \/ OwnerFieldOnly(q)
    BY DEF OwnerSigned
  <2>1. PICK s \in Signer : Instruction(s) /\ signer' = s
    BY DEF HistoryNext, Environs
  <2>2. CASE VoterWeightRecordNext(s)
    BY <2>1, <2>2, RecordStep DEF ProgramInv
  <2>3. CASE Overwriting(s)
    BY <2>1, <2>3, OverwriteStep DEF ProgramInv, OwnerFieldOnly, AdminOf, AuthorizedAdmin
  <2> QED
    BY <2>1, <2>2, <2>3 DEF Instruction, MaxVoterWeightRecordNext, Overwriting
<1> QED
  BY <1>1, HistoryProgramInv, PTL DEF HistorySpec, OwnerConsent, OwnerSigned

AuthoritySigned ==
  \A p \in RegistrarAddress :
    \/ registrar'[p] # registrar[p]
    \/ max_voter_weight_record'[p] # max_voter_weight_record[p]
    => signer' = realm[p[1]].authority

\* Only the signature of the authority a realm has at that moment changes a
\* policy or a quorum base of the realm.
THEOREM AuthoritiesConsent == HistorySpec => AuthorityConsent
<1>1. ProgramInv /\ [HistoryNext]_historyVars => [AuthoritySigned]_historyVars
  <2> SUFFICES ASSUME ProgramInv, HistoryNext, NEW p \in RegistrarAddress,
                      \/ registrar'[p] # registrar[p]
                      \/ max_voter_weight_record'[p] # max_voter_weight_record[p]
               PROVE  signer' = realm[p[1]].authority
    BY DEF AuthoritySigned
  <2>1. PICK s \in Signer : Instruction(s) /\ signer' = s
    BY DEF HistoryNext, Environs
  <2>2. CASE registrar'[p] # registrar[p]
    BY <2>1, <2>2, RegistrarStep DEF Instruction, ProgramInv, AuthorizedAdmin
  <2>3. CASE max_voter_weight_record'[p] # max_voter_weight_record[p]
    <3>1. p[1] \in Realm /\ p \in MaxVoterWeightRecordAddress
      BY DEF RegistrarAddress, MaxVoterWeightRecordAddress
    <3>2. AdminOf(p, p[1], s)
      BY <2>1, <2>3, <3>1, MaxRecordStep DEF Instruction, ProgramInv
    <3> QED
      BY <2>1, <3>2 DEF AdminOf, AuthorizedAdmin
  <2> QED
    BY <2>2, <2>3
<1> QED
  BY <1>1, HistoryProgramInv, PTL DEF HistorySpec, AuthorityConsent, AuthoritySigned
=============================================================================
