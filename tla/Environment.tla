----------------------------- MODULE Environment -----------------------------
(***************************************************************************)
(* What the plugin reads and does not own: the realm accounts of           *)
(* spl-governance, the IdentityState accounts of the Entros Anchor         *)
(* program, and the Clock sysvar.  The code under src/ only reads them;    *)
(* the actions here are the changes their owners can make to them.         *)
(***************************************************************************)
EXTENDS Eligibility

CONSTANTS
  Program,        \* deployed instances of spl-governance
  Realm,          \* addresses of realm accounts
  Mint,           \* governing token mints
  Admin,          \* keys that may be the authority of a realm
  Wallet,         \* keys that own governing tokens
  TrustScore,     \* trust scores the Anchor program may compute
  MaxSlot,        \* bound: the last slot
  InitialRealms,  \* the [Realm -> RealmAccount] a behaviour may start in
  Nobody,         \* realm.authority = None
  NoMint,         \* realm.config.council_mint = None
  NoAccount       \* no account at an address

VARIABLES
  realm,            \* spl-governance: address -> realm account
  identity,         \* Entros Anchor: wallet w -> account at PDA ["identity", w]
  slot,             \* Clock::slot
  unix_timestamp    \* Clock::unix_timestamp

envVars == <<realm, identity, slot, unix_timestamp>>

RealmAccount ==
  [owner : Program, authority : Admin \cup {Nobody},
   community_mint : Mint, council_mint : Mint \cup {NoMint}]

\* The discriminator of an account's data.  Data shorter than the 62 bytes the
\* plugin reads counts as "Other", data with the right discriminator as long.
IdentityKind == {"IdentityState", "Other", "Empty"}

IdentityAccount ==
  [owner : {"Anchor", "System"}, kind : IdentityKind,
   last_verification_timestamp : I64, trust_score : TrustScore]

ASSUME EnvironmentAssumption ==
  /\ TrustScore \subseteq Nat
  /\ MaxSlot \in U64 \ {0} /\ MaxSlot <= I64Max
  /\ InitialRealms \subseteq [Realm -> RealmAccount]
  /\ Nobody \notin Admin \cup Wallet
  /\ NoMint \notin Mint

Signer == Admin \cup Wallet

EnvTypeOK ==
  /\ realm \in [Realm -> RealmAccount]
  /\ identity \in [Wallet -> IdentityAccount]
  /\ slot \in 1 .. MaxSlot
  /\ unix_timestamp \in 0 .. slot

-----------------------------------------------------------------------------

\* An address nobody has initialised, and an account of another type that the
\* Anchor program holds there with bytes that would read as an eligible voter's.
NeverVerified(account) ==
  account.owner = "System" /\ account.kind = "Empty"
ForeignAccount(account) ==
  account.owner = "Anchor" /\ account.kind = "Other"

InitialIdentity ==
  {a \in IdentityAccount : /\ NeverVerified(a) \/ ForeignAccount(a)
                           /\ a.last_verification_timestamp = 1
                           /\ \A score \in TrustScore : score <= a.trust_score}

\* Some wallet can verify itself.
EnvInit ==
  /\ realm \in InitialRealms
  /\ identity \in [Wallet -> InitialIdentity]
  /\ \E w \in Wallet : NeverVerified(identity[w])
  /\ slot = 1
  /\ unix_timestamp = 1

\* The community mint or the council mint of the realm.
ConfiguredMint(r) == {realm[r].community_mint, realm[r].council_mint} \ {NoMint}

\* spl-governance SetRealmAuthority: the authority hands over, or gives up.
SetRealmAuthority(r, signer, successor) ==
  /\ realm[r].authority = signer
  /\ realm' = [realm EXCEPT ![r].authority = successor]
  /\ UNCHANGED <<identity, slot, unix_timestamp>>

\* spl-governance SetRealmConfig without a council mint.
RemoveCouncilMint(r, signer) ==
  /\ realm[r].authority = signer
  /\ realm[r].council_mint # NoMint
  /\ realm' = [realm EXCEPT ![r].council_mint = NoMint]
  /\ UNCHANGED <<identity, slot, unix_timestamp>>

\* Entros Anchor: a wallet proves itself once more and receives a score.
VerifyIdentity(w, score) ==
  /\ identity[w].kind # "Other"
  /\ identity' = [identity EXCEPT ![w] =
       [owner |-> "Anchor", kind |-> "IdentityState",
        last_verification_timestamp |-> unix_timestamp, trust_score |-> score]]
  /\ UNCHANGED <<realm, slot, unix_timestamp>>

\* A slot takes less than a second: the timestamp may stand still.
Tick ==
  /\ slot < MaxSlot
  /\ slot' = slot + 1
  /\ \E seconds \in 0 .. 1 : unix_timestamp' = unix_timestamp + seconds
  /\ UNCHANGED <<realm, identity>>

EnvNext ==
  \/ \E r \in Realm, signer \in Admin :
       \/ \E successor \in Admin \cup {Nobody} : SetRealmAuthority(r, signer, successor)
       \/ RemoveCouncilMint(r, signer)
  \/ \E w \in Wallet, score \in TrustScore : VerifyIdentity(w, score)
  \/ Tick
=============================================================================
