------------------------------ MODULE Registrar ------------------------------
(***************************************************************************)
(* The registrar accounts: one per realm and governing token mint, holding *)
(* the eligibility policy the realm's authority has chosen.                *)
(*                                                                         *)
(* A PDA is modelled by the tuple of its seeds; an instruction that fails  *)
(* rolls its transaction back, so only successful ones are actions.        *)
(***************************************************************************)
EXTENDS Environment

CONSTANTS
  MinTrustScore,        \* values of the min_trust_score argument (u16)
  MaxVerificationAge    \* values of the max_verification_age argument (i64)

ASSUME RegistrarAssumption ==
  /\ MinTrustScore \subseteq Nat
  /\ MaxVerificationAge \subseteq I64

VARIABLE registrar      \* address -> Registrar, or NoAccount

\* Seeds "registrar", realm, governing_token_mint.
RegistrarPda(r, m) == <<r, m>>

RegistrarAddress == Realm \X Mint

RegistrarAccount ==
  [governance_program_id : Program, realm : Realm, governing_token_mint : Mint,
   min_trust_score : MinTrustScore, max_verification_age : MaxVerificationAge]

ASSUME RegistrarDistinct == NoAccount \notin RegistrarAccount

RegistrarTypeOK ==
  registrar \in [RegistrarAddress -> RegistrarAccount \cup {NoAccount}]

RegistrarInit == registrar = [p \in RegistrarAddress |-> NoAccount]

-----------------------------------------------------------------------------

\* Mutant: max_verification_age >= 0.
PositiveMaxAgeOrZero(maxAge) == maxAge >= 0

\* Zero or less would lock every voter out.
PositiveMaxAge(maxAge) == maxAge > 0

\* Mutant: the program that owns the realm is not compared.
MintGovernsRealmOfAnyProgram(programId, r, m) == m \in ConfiguredMint(r)

\* get_realm_data_for_governing_token_mint succeeds.
MintGovernsRealm(programId, r, m) ==
  /\ realm[r].owner = programId
  /\ m \in ConfiguredMint(r)

\* Mutant: a realm without an authority accepts any signer.
AuthorizedOrUngoverned(programId, r, m, signer) ==
  /\ MintGovernsRealm(programId, r, m)
  /\ realm[r].authority \in {signer, Nobody}

\* Mutant: the signer is not compared with the authority.
AuthorizedAnyone(programId, r, m, signer) ==
  /\ MintGovernsRealm(programId, r, m)
  /\ realm[r].authority # Nobody

\* The check every instruction of an administrator makes.
AuthorizedAdmin(programId, r, m, signer) ==
  /\ MintGovernsRealm(programId, r, m)
  /\ realm[r].authority # Nobody
  /\ realm[r].authority = signer

\* The account passed as the registrar: it exists, at the PDA of its own fields.
IsRegistrar(p) ==
  /\ registrar[p] # NoAccount
  /\ p = RegistrarPda(registrar[p].realm, registrar[p].governing_token_mint)

\* An administrator acts through the registrar at p, passing the realm account r.
AdminOf(p, r, signer) ==
  /\ IsRegistrar(p)
  /\ r = registrar[p].realm
  /\ AuthorizedAdmin(registrar[p].governance_program_id, r,
                     registrar[p].governing_token_mint, signer)

-----------------------------------------------------------------------------

CreateRegistrar(program, r, m, signer, minScore, maxAge) ==
  /\ registrar[RegistrarPda(r, m)] = NoAccount
  /\ PositiveMaxAge(maxAge)
  /\ AuthorizedAdmin(program, r, m, signer)
  /\ registrar' = [registrar EXCEPT ![RegistrarPda(r, m)] =
       [governance_program_id |-> program, realm |-> r, governing_token_mint |-> m,
        min_trust_score |-> minScore, max_verification_age |-> maxAge]]

UpdateRegistrar(p, r, signer, minScore, maxAge) ==
  /\ PositiveMaxAge(maxAge)
  /\ AdminOf(p, r, signer)
  /\ registrar' = [registrar EXCEPT ![p].min_trust_score = minScore,
                                    ![p].max_verification_age = maxAge]

CloseRegistrar(p, r, signer) ==
  /\ AdminOf(p, r, signer)
  /\ registrar' = [registrar EXCEPT ![p] = NoAccount]

RegistrarNext(signer) ==
  \E r \in Realm :
    \/ \E minScore \in MinTrustScore, maxAge \in MaxVerificationAge :
         \/ \E program \in Program, m \in Mint :
              CreateRegistrar(program, r, m, signer, minScore, maxAge)
         \/ \E p \in RegistrarAddress : UpdateRegistrar(p, r, signer, minScore, maxAge)
    \/ \E p \in RegistrarAddress : CloseRegistrar(p, r, signer)
=============================================================================
