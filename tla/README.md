# TLA+ model of the Entros voter weight plugin

The repository is a voter weight addin for spl-governance. A DAO that installs it
gives one vote to every wallet that has proved, recently enough and with a high
enough trust score, that it belongs to a person. The proof lives in an
`IdentityState` account of another program, the Entros Anchor program; the plugin
reads it and writes a *voter weight record*, which spl-governance reads when the
wallet votes.

This directory holds TLA+ modules of that program, of the bytes of its accounts
and of the shell script that runs its localnet tests, TLC configurations that check
them on small instances, and TLAPS proofs that hold for all instances.

    tlc -config MCVoters.cfg MCVoters        # model-check one run
    tlapm EntrosVoterWeightProofs.tla        # check one proof module

## 1. Inventory

Paths are below `src/`; `P` is `programs/entros-voter-weight/src`.

| Component | State | Operations | What makes it correct |
|---|---|---|---|
| Eligibility arithmetic (`P/instructions/update_voter_weight_record.rs:108-131`) | none; i64 timestamps, u64 slots | age by `checked_sub`, comparison with the maximum age, trust floor, expiry by `saturating_add(100)` | overflow never makes an old proof recent, and the expiry always lies in the window |
| Registrar (`P/state/registrar.rs`, `create_/update_/close_registrar.rs`) | one account per realm and mint: governance program, realm, mint, `min_trust_score`, `max_verification_age` | create, update the policy, close; signed by the realm's authority | only the present authority of the realm acts; a registrar that exists can be managed and satisfied |
| Voter weight record (`create_/update_/close_voter_weight_record.rs`, `P/governance.rs:1-75`) | one account per realm, mint and owner: weight 0 or 1, expiry slot | create, refresh, close; signed by the owner | a weight only for an entitled owner, for one window, in the owner's own record |
| Max voter weight record (`create_/update_max_voter_weight_record.rs`, `P/governance.rs:77-142`) | one account per realm and mint: size of the electorate, expiry | create, update; signed by the realm's authority; **no** close | the quorum base is the authority's choice, and never lost; what an update does to an account of the other record type stays within its owner field |
| Entry points (`P/lib.rs`) | all accounts together | dispatch of the eight instructions | what holds across any sequence of instructions and of outside changes |
| Realms, identities, clock | external accounts | authority transfer, council mint removal, (re)verification, time | *environment*: read, never written, by the plugin |
| Consumer of the records (spl-governance) | votes | counts an unexpired weight | external, and not in the repository; see 6 |
| Account layout (`P/governance.rs`, `P/state/registrar.rs`, offsets in `update_voter_weight_record.rs:12-22`, in the tests and in `scripts/test-devnet.ts`) | the bytes of each account | allocate, read, write over the front, read at offsets | what is written is read back, fits, and is what readers at fixed offsets see |
| Localnet harness (`scripts/test-localnet.sh`) | processes, ports, ledger directory | check ports, start validator, wait, test, clean up on exit or signal | always ends, cleans up, and tests against its own validator |
| Fixtures (`scripts/generate-test-fixtures.ts`, `scripts/verify-fixtures.mjs`) | JSON account fixtures, hashes | generate, compare | accepts exactly what the generator reproduces |
| Devnet script, tests, error codes | - | - | read as statements about the program |

How they interact. There are no calls between the instructions; they share
accounts. A registrar is an input of the six instructions that do not create
one; it is what ties a record to a policy. The realm account is read afresh by every administrator instruction, so
its authority is whoever holds it *then*. The identity account is an unnamed
"remaining account" of the refresh alone. Closing a registrar looks at no record,
so records outlive it, and creating a registrar again at the same address puts
old records under a new policy.

Which behaviours are hard:

* **Stale grants.** Entitlement is evaluated once, at the refresh; the weight stays
  usable for 100 slots whatever happens to identity, policy or registrar.
* **Passing the wrong account.** Update and close check fields, not addresses: any
  record and any registrar may be combined by a transaction.
* **Passing the wrong type.** `governance.rs` implements `try_deserialize_unchecked` only, so no
  discriminator tells a voter weight record from a max record. The update of a max record
  decodes a voter weight record of the same realm and mint, if byte 8 of the owner's key is a
  tag, and writes over the owner.
* **Lifetimes.** Registrars are closed and created again; max records never close;
  the realm's authority moves or disappears; the council mint is removed.
* **Numeric edges.** i64 subtraction of a foreign timestamp, u64 saturation, zero
  arguments.
* **Processes and signals** in the localnet harness: a signal between any two of its
  commands, a validator that dies or never listens, ports that somebody else takes.
* **Bytes.** Optional fields change the length of a record while the account keeps its
  size; others read at fixed offsets, and the plugin itself so reads `IdentityState`.

`PROJECT.json` lists each hazard at its line with the properties that cover it.

## 2. Modules

| Module | Models | Notes |
|---|---|---|
| `Eligibility` | the arithmetic of the refresh | integer widths and `ExpirySlots` are constants |
| `Environment` | realm accounts, identity accounts, clock | external; only the fields the plugin reads |
| `Registrar` | the three registrar instructions | extends `Environment` |
| `VoterWeightRecord` | create, refresh, close | extends `Registrar` |
| `MaxVoterWeightRecord` | create, update, also an update that is passed a voter weight record | extends `VoterWeightRecord` |
| `EntrosVoterWeight` | all instructions and the environment, interleaved | `TypeOK`, the properties of the program |
| `VotingLease` | **abstract specification**: a weight is a lease | refined by `EntrosVoterWeight` |
| `VotingHistory` | `EntrosVoterWeight` with two history variables | who signed the last step, when an owner was last entitled |
| `AccountLayout` | the bytes of the four account types, with the instructions as writers | stands alone; refines `AccountStore` |
| `AccountStore` | **abstract specification**: an account is missing or has named fields | the accounts as the modules of the program keep them |
| `LocalnetHarness` | `scripts/test-localnet.sh`, validators, ports, signals | stands alone: another program than the plugin |
| `EligibilityProofs`, `MCEligibilityProofs`, `EntrosVoterWeightProofs`, `VotingLeaseProofs`, `VotingHistoryProofs`, `BorshProofs`, `AccountLayoutProofs`, `LocalnetHarnessProofs` | theorems | see 5 |
| `MCEligibility`, `MCVoters`, `MCHistory`, `MCAdmin`, `MCRealms`, `MCLayout`, `MCHarness` | instances for TLC | see 3 |

Correspondence with the code:

* **Accounts** are functions from addresses to records, with `NoAccount` where
  nothing is initialised. A program derived address is the tuple of its seeds
  (`RegistrarPda`, `VoterWeightRecordPda`, ...): distinct seeds give distinct
  addresses, and the `init` constraint is the guard `... = NoAccount`. Anchor's
  `close` constraint empties the account.
* **One instruction is one step.** Solana serialises transactions that write the same
  account, and the plugin calls no other program that could call back. Instructions
  of one transaction are consecutive steps.
* **A refused instruction is a disabled action**: an error rolls the transaction back
  and no account changes. Which error is reported is not modelled.
* **Inputs** are quantified in `RegistrarNext`, `VoterWeightRecordNext`,
  `MaxVoterWeightRecordNext`: any signer, any registrar, any record, any identity
  address, any realm account. A guard is one conjunct per constraint or `require!`.
  The guards that several handlers share have a name (`AdminOf`,
  `RecordOfRegistrar`, `IsIdentityOf`, `SatisfiesPolicy`).
* **Accounts of the other type.** Anchor compares the discriminator of a registrar, and not
  that of the two record types. A max record is too short to be decoded as a voter weight record;
  a record passed as a registrar is refused. A voter weight record passed as a max record is the action
  `OverwriteOwner`. `TagNone` and `TagSome` are the wallets whose keys have 0 or 1 for their
  byte 8, where a max record has the tag of its expiry; the keys of all others do not decode.
  `Overwritten` is an owner field that is no key any more: weight, tag of `None`, and the rest of
  the key. The weight may be the number the first bytes of the key are; then a key of
  `TagNone` is written back (`OwnerAfter`), one of `TagSome` has lost its tag.
* **The identity account** the refresh receives is passed by its address, and
  `IsIdentityOf` repeats the steps of the handler: owned by the Anchor program, at
  the signer's PDA, long enough and with the discriminator of an `IdentityState`.
  The environment starts with addresses nobody initialised and with accounts of another type
  that hold bytes an unchecked read would take for an eligible voter.
* **Realms** may change between instructions (`SetRealmAuthority`,
  `RemoveCouncilMint`), **identities** are verified again with any score
  (`VerifyIdentity`), and **time** advances by a slot and by zero or one
  second (`Tick`). The unix timestamp is assumed not to run backwards.

`AccountLayout` holds one account. Every instruction is a read (`Decode`), assignments to
consecutive fields, and a write of the encoded record over the front of the old data
(`WriteOver`), as Anchor does; `record` keeps the values last assigned. Widths, tags of
optional fields, sizes and offsets are those of the code. All bytes of a key or of a
discriminator are one symbol, so that a read that is off by one byte straddles two
symbols and yields nothing. `Account` takes the bytes for what the next instruction takes them
for: the named fields of a record, or what the refresh makes of an identity. Under this
mapping `AccountLayout` refines `AccountStore`, whose accounts look like those of
`Registrar`, `VoterWeightRecord` and `MaxVoterWeightRecord`. That is why those modules may keep
records instead of bytes.

No instruction of `AccountLayout` is guarded by the type of the account where the code compares no
discriminator: `Accepts` lets the update of a max record decode a voter weight record, and
`Readable` says when Borsh succeeds. The owner in a voter weight record is in the five parts a max record has in its
place. `OverwriteOwner` of `AccountStore`, and of the program, is thereby derived from the
bytes: the update reads and writes at most 97 bytes, and the voter weight comes after 104. That a
weight may be the very number that the first bytes of a key are is the one case left to the modules of
the program.

`LocalnetHarness` has one action per command of the script, with `pc` naming the
command that comes next:

* **Exit and traps.** After the traps are set, an `exit` or a failing command goes to
  `cleanup` (`Leave`); before, it ends the run (`Exit`). `cleanup` clears the EXIT trap at
  once, so that inside of it `exit` is final.
* **Signals.** Bash runs a trap between two commands. A signal is therefore `pending` until
  `ActOnSignal`, which comes before the next command. It interrupts a command only where
  that takes long: INT ends the test suite too, TERM waits for it, and both end the `wait` for
  the validator. If both signals are pending bash acts on one; the model has one at a time.
* **The machine.** The three ports are one resource with one `listener`. A validator starts,
  binds or dies, crashes, or stops when told to; another program comes and goes. The
  readiness probe is answered by *whoever* listens, as long as the balance of
  `LOCAL_PAYER` is the genesis balance.
* `passed` and `struck` are history: the runs whose `npm test` has succeeded, and the commands
  before which a run acted on a signal.

Definitions whose comment starts with "Mutant:" are faulty variants of the
definition below them. No specification uses them; each shows that a property
notices the fault (`PROJECT.json`, "mutants").

## 3. Runs

| Run | Instance | Shows |
|---|---|---|
| `eligibility` (`MCEligibility.cfg`) | i64 scaled to -8..7, u64 to 0..6 | recency is decided as unbounded integers would decide it; a lapse is final until the next verification; the expiry lies in the window, also where it saturates |
| `future_timestamp` (violation) | same | a verification in the future counts as recent: finding 1 |
| `voters` (`MCVoters.cfg`) | 1 realm, 1 mint, 2 voters, 4 slots, window 2 | types, `GrantWindow`, weights only to the entitled, refinement of `VotingLease`, and under fairness of the clock `RevocationEnds` |
| `history` (`MCHistory.cfg`) | 2 voters, a key in `TagNone` and one in `TagSome`, 3 slots, window 1, with history variables | `RevocationLag`, `OwnerConsent`, `OverwrittenFrozen` |
| `admin` (`MCAdmin.cfg`) | 1 realm with community and council mint, 2 governance programs, 2 keys for the authority | `OrphansFrozen`, `UngovernedFrozen`, `QuorumBaseStays`, `AuthorityConsent`, `RegistrarSound` |
| `realms` (`MCRealms.cfg`) | 2 realms of 2 programs with the same mint, 1 wallet | `AddressBinding` and others, with records and registrars of one realm passed to instructions of the other, and the wallet's record passed as a max record |
| `orphans` (violation) | as `voters` | an owner may be unable to close a record: finding 2 |
| `overwritten` (violation) | as `history` | an owner may be unable to close a record whose registrar is there: finding 3 |
| `layout` (`MCLayout.cfg`) | 3 keys, of which 2 decode as part of a max record, numbers at byte boundaries, identity data of 8, 61, 62 and 207 bytes | `ReadBack`, `SpaceSuffices`, `IdentityRead`, `ClientsRead`, refinement of `AccountStore` |
| `harness` (`MCHarness.cfg`) | 2 runs of the script, 2 signals, 2 rounds of each loop | `NothingLeft`, `LedgerOutlivesValidator`, `SuccessIsEarned`, `WorkRunsOut`, `Terminates` |
| `interrupted` (violation) | 1 run, 1 signal | a ledger stays behind after a completed suite: finding 4 |
| `isolation` (violation) | 2 runs, no signal | a suite runs on the ledger of another run: finding 5 |

Bounds and why they are enough:

* `MaxSlot` (4) is the last slot. With `ExpirySlots` = 2 instead of 100 a grant
  made in slot 1 or 2 lapses within the run, and one made later outlives the owner's
  entitlement. `U64Max` = 5 makes the grants of slot 4 saturate. `admin` and `realms`
  are not about time and stay in slot 1.
* `I64Max` = 7 in `eligibility`: the subtraction overflows for the oldest
  timestamps, and the clock may jump by up to `Step` = 2 seconds.
* Two voters are enough to confuse one with another, two realms or two mints to
  confuse records and registrars; two administrators to hand the authority over.
  There is no symmetry: it is unsound for liveness (`voters`), and the keys differ (`history`).
* `history` has 3 slots and a window of 1: a grant made in slot 1 lapses within the run, one made
  later outlives the entitlement, and one of slot 3 saturates (`U64Max` = 3). One voter has a key of
  `TagNone`, the other of `TagSome`; a key that does not decode is the second voter of `voters`.
* In `admin` and `realms` the one wallet has a key of `TagSome`, so that its record can be passed as a
  max record there too.
* Two trust scores and floors lie on both sides of each other, and maximum ages
  include 0, which must be refused, and 1, which lapses after a second.
* `layout` needs few values: numbers below and above one byte (and at the limit of a u16),
  and identity data one byte too short, just long enough and of full length. Every length of
  every optional field occurs. `U64Max` lies just above the largest slot, so that the expiry
  saturates there and not below.
* `harness`: `MaxProbes` = `MaxDrains` = 2 instead of 60 and 50, so that a loop is left
  at its first round, at a later one, and at its bound. Two signals may hit any commands of
  either run or of both, also one the tests and the next the cleanup after them. Two runs compete for the ports; a third would meet the same listener.
* The theorems of section 5 have none of these bounds.

Fairness. No instruction is scheduled by anybody, and a voter or an authority may never
act; so none of them is fair. `FairSpec` of `EntrosVoterWeight` assumes only that the
cluster goes on producing slots (weak fairness of `Tick`, up to `MaxSlot`), and that is enough for
`RevocationEnds`: a weight whose owner is no longer entitled runs out by itself.
`FairSpec` of `LocalnetHarness` assumes weak fairness of each run's script (its commands return;
the operating system schedules it) and of `ValidatorStops` (a validator ends after
SIGTERM: the script waits for it without a limit, so without this assumption it
would not terminate). Nothing is assumed of signals, crashes, of a validator that opens its
ports, or of the other program, which may keep the ports for ever.

Deadlock is checked in the runs of the program (a wallet can always verify again), of the layout
(an account can always be written again) and of the harness (the other program can
always come or go).

## 4. Where documentation and code differ

1. **A verification timestamp in the future is accepted.**
   `tests/entros-voter-weight.ts:249-258` says `checked_sub` returns `None` for it and
   the check fails. A negative age does not overflow an i64; it is below every positive
   maximum age (`update_voter_weight_record.rs:117-124`). The overflow in the other
   direction, an ancient timestamp, is handled as intended (`RecencyExact`). The Anchor
   program writes the clock of its own execution, so such a timestamp is unlikely.
2. **A voter cannot always close the record.** `README.md:50` has the voter close the record
   and reclaim the rent. `close_voter_weight_record` needs the registrar, which the authority may
   have closed. `OrphansFrozen` shows that such a record stays exactly as it is.
3. **The update of the max weight can make a record unusable for its owner.** `README.md:52` has the
   DAO admin set the max voter weight. `update_max_voter_weight_record` checks realm and mint of
   the account it is passed, and `governance.rs:97-104` no discriminator. Passed a voter weight record whose
   owner's key has 0 or 1 for its byte 8, it writes weight and expiry over the owner field
   (`update_max_voter_weight_record.rs:61-62`): the owner can neither refresh nor close the record, against
   `README.md:50`. `OwnerConsent` says that this is the only way in which anybody but the owner
   changes a record, and that weight and expiry stay; `OverwrittenFrozen` that nobody gets hold of it.
4. **The ledger may stay behind.** `README.md:100` says that the localnet command removes its
   ledger when complete. `cleanup` clears the EXIT trap (`test-localnet.sh:87`) and the traps of
   INT and TERM exit, so that a signal during `cleanup` ends the script before `rm -r`.
   `NothingLeft` names the other commands where a signal has this effect: between `mktemp` and
   the traps, and between the start of the validator and `VALIDATOR_PID=$!`.
5. **The ledger is not isolated from a concurrent run.** The same line says so of a command that
   refuses occupied ports. The check (`test-localnet.sh:67-72`) comes long before the validator
   binds, and the readiness probe (`:162-171`) accepts any ledger with the genesis balance
   before it looks whether the own validator lives.

The comment at `update_voter_weight_record.rs:130` ("forces update in same tx as governance
action") says more than an expiry 100 slots ahead can do: the weight counts until then in any
transaction. What the window does guarantee is `RevocationLag` and `RevocationEnds`.

## 5. Proofs

All theorems are proved for every value of the constants that satisfies the named
assumptions `WidthAssumption`, `StepAssumption`, `EnvironmentAssumption`, `RegistrarAssumption`,
`OwnerTagAssumption`, `MaxVoterWeightAssumption`, `HarnessAssumption`, `SymbolAssumption` (keys and `None` are no numbers; a key has one byte 8),
`NumberAssumption` (the values of a field fit its width) and the three `...Distinct` (a value that
stands for "nothing" is not one of the things). TLC evaluates these in every run of a module
that extends theirs.

* `EligibilityProofs`: `RecencyIsExact`, `LapseIsPermanent`, `ExpiryWindow`.
  `RecencyIsExact` is why the overflow fallback is harmless: with a clock that
  is not negative the subtraction can only overflow upwards, and then the
  true age exceeds every maximum age as well. `MCEligibilityProofs` carries the three
  over to every state of the clock (`RecencyAlwaysExact`, `ExpiryAlwaysInWindow`,
  `LapseAlwaysFinal`); the invariant is that the clock stays within `0 .. I64Max`.
* `EntrosVoterWeightProofs`: `TypeCorrect` comes first, and every other proof uses it.
  `AddressesAreBound` and `RegistrarsAreSound` are inductive relative to `TypeOK`. They are the
  strengthening the rest needs: the refresh compares fields, so that it writes
  the right record for the right owner (`OnlyEntitledAreGranted`) follows only when
  fields and address agree in every reachable state. `GrantsEndInWindow`
  adds `ExpiryWindow`. `OrphansStay`, `UngovernedStay`, `QuorumBaseIsKept` and `OverwrittenStay` are action
  properties proved from the same invariant, one step per instruction. `AddressBinding` holds of
  realm and mint without exception, and of the owner unless it is overwritten: no signer is
  `Overwritten`, so that nobody can act for such a record.
* `VotingLeaseProofs`: `ImplementsLeases`. Initial states map to initial states; a
  refresh maps to `Grant`, creating a record to a stutter, closing it to
  `HandBack`, and everything else to `WorldChanges`, also `OverwriteOwner`, which keeps weight and expiry.
* `VotingHistoryProofs`: `WeightsLagByTheWindow` strengthens `RevocationLag` to an
  invariant about the expiry, not the clock: `voter_weight_expiry` is at most
  `last_entitled + ExpirySlots`. `OwnersConsent` and `AuthoritiesConsent` use
  `AddressBinding` and `RegistrarSound` in turn.

  `HistoryTypesCorrect` follows from the same invariant.
* `LocalnetHarnessProofs`: `RunsCleanUp`, `ValidatorsKeepTheirLedger` and
  `SuccessIsAlwaysEarned`, for any number of concurrent runs, signals and rounds. The
  inductive invariant `HarnessInv` says for each command what a run owns when it
  comes next (`OwnedOK`), which validators it has lost track of (`LostOK`: only when a signal
  came before the PID was recorded), and what status 0 implies on the way through
  `cleanup` (`StatusOK`). The properties speak of the end only and are not inductive.
  A step of one run leaves the account of every other run alone (`OthersKept`).
  `SuccessIsAlwaysEarned` rests on `StatusOK`: status 0 gets into cleanup only after `npm test` has
  succeeded in that run. `WorkAlwaysRunsOut` bounds the
  work of a run by a variant: `AheadOf` counts the commands that can still come, along the longest
  way and with all rounds of both loops. It is what of `Terminates` does not depend on fairness:
  no run has commands for ever.
* `BorshProofs`: `RecordReadBack`. The codec is not recursive operators but recursive functions
  (`Quotients`, `Sums`, `Encodings`, `Buffers`), so that their defining equations can be proved
  from `WFMin`, the least number at which a claim fails: the induction runs over a *set* of indices, not
  over an operator. First a number is its bytes again (`NumberReadBack`), then a field
  (`FieldReadBack`), then a record of each of the four layouts, field by field, with anything behind it.
* `AccountLayoutProofs`: `ReadBackHolds`, `SpaceSufficesHolds`, `IdentityReadHolds`, `ClientsReadHolds`.
  The inductive invariant `LayoutInv` says that the data is as long as its type asks for and has
  `record` encoded at its front (`Written`), and that every value fits its field. `ReadBack` alone is
  not inductive: it says nothing of the length, without which an update may not fit, and
  nothing of the values, without which the next encoding need not be read back. What is behind
  the encoding is arbitrary, which covers the rest of a longer record. Identities may be cut
  short, so `Written` is claimed of them from 62 bytes on.
  `ImplementsStore`: each instruction maps to the one of the same name in `AccountStore`. What it
  assigns by position is what it assigns by name (`InitialiseCreates`, `AssignChanges`). The update of
  a max record that is passed a voter weight record maps to `OverwriteOwner`. For it the front of the bytes
  is cut into the fields of a max record (`ReadAsMax`), and what is written into the fields of a
  voter weight record again (`WrittenAsMax`). `OwnerTagHolds` says that the byte taken for the tag is
  byte 8 of the owner's key as long as the owner field holds a key; from it follows which records decode.

Only model-checked: the violations, and liveness (`RevocationEnds`, `Terminates`), which is out of
the prover's reach. Every invariant and action property and both refinements that a run
checks have a theorem.

## 6. Not modelled

* Consumer of the records: the repository has no client that votes ("a future Realms client",
  `README.md`), no test that does, and of spl-governance only the account types. Proposals
  and votes would be invented, not translated; `Usable` states the one rule the code relies on.
* Accounts of the program that cannot be taken for one another: a registrar, whose discriminator Anchor
  compares, and a max record in place of a voter weight record, which is too short.
* Rent, lamports and payers: no decision depends on them.
* `weight_action` and `weight_action_target`: `None` from creation on; they are in
  `AccountLayout`, and left out elsewhere.
* Error codes, and the order in which guards that all refuse are evaluated.
* `get_realm_data_for_governing_token_mint` is external: it succeeds when the named
  program owns the realm and the mint is its community or council mint.
* Fixture verification (`verify-fixtures.mjs`), the file handling of the generator, and the devnet
  script: single processes that run straight through, keep no state between runs and
  retry nothing. What they write or read byte by byte is in `AccountLayout`.
* In `LocalnetHarness`: the text of logs, the three ports one by one, a validator that ignores SIGTERM, a second signal that
  is pending at the same time, SIGKILL, and the reuse of a process identifier.

## 7. Plan

Everything planned for the program, the layout and the harness is in place and proved, as far as
it can be. What remains is
`RealmsVoting`, proposals and votes over `EntrosVoterWeight`, once a client that uses the
records is in the repository.
