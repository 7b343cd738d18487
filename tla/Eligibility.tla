----------------------------- MODULE Eligibility -----------------------------
(***************************************************************************)
(* The arithmetic of update_voter_weight_record: the age of a verification *)
(* as a checked i64 subtraction, the two eligibility tests, and the expiry *)
(* slot as a saturating u64 addition.                                      *)
(*                                                                         *)
(* The integer widths are parameters.  A run scales them down so that the  *)
(* overflows happen; the lemmas of EligibilityProofs hold for every width. *)
(***************************************************************************)
EXTENDS Integers

CONSTANTS
  I64Max,        \* i64::MAX
  U64Max,        \* u64::MAX
  ExpirySlots    \* slots for which a granted weight stays valid; 100 in the code

ASSUME WidthAssumption ==
  /\ I64Max \in Nat \ {0}
  /\ U64Max \in Nat
  /\ ExpirySlots \in Nat

I64Min == -I64Max - 1
I64 == I64Min .. I64Max
U64 == 0 .. U64Max

\* Mutant: unwrap_or(i64::MIN).
VerificationAgeFallbackMin(unixTime, lastVerification) ==
  IF unixTime - lastVerification \in I64
    THEN unixTime - lastVerification
    ELSE I64Min

\* clock.unix_timestamp.checked_sub(last_verification_timestamp)
\*      .unwrap_or(i64::MAX)
VerificationAge(unixTime, lastVerification) ==
  IF unixTime - lastVerification \in I64
    THEN unixTime - lastVerification
    ELSE I64Max

\* Step 8 of the handler: the verification is recent enough.
VerifiedRecently(unixTime, lastVerification, maxAge) ==
  VerificationAge(unixTime, lastVerification) < maxAge

\* Step 7 of the handler: the trust score reaches the floor of the DAO.
TrustSufficient(score, floor) == score >= floor

\* Mutant: wrapping_add.
ExpiryAfterWrapping(currentSlot) == (currentSlot + ExpirySlots) % (U64Max + 1)

\* Mutant: an addition that does not saturate.
ExpiryAfterUnbounded(currentSlot) == currentSlot + ExpirySlots

\* Mutant: a weight that never expires.
ExpiryAfterNever(currentSlot) == U64Max

\* clock.slot.saturating_add(100)
ExpiryAfter(currentSlot) ==
  IF currentSlot + ExpirySlots > U64Max THEN U64Max ELSE currentSlot + ExpirySlots
=============================================================================
