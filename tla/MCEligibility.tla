---------------------------- MODULE MCEligibility ----------------------------
(***************************************************************************)
(* A clock, one verification and one policy, over every value the scaled   *)
(* integers can take.  The clock moves on and the voter may verify again;  *)
(* the eligibility arithmetic is evaluated in every state.                 *)
(***************************************************************************)
EXTENDS Eligibility

CONSTANTS Step     \* the number of seconds the clock may jump at once

ASSUME StepAssumption == Step \in Nat

VARIABLES
  unix_timestamp,                \* Clock::unix_timestamp
  slot,                          \* Clock::slot
  last_verification_timestamp,   \* of the IdentityState
  max_verification_age           \* of the Registrar

vars == <<unix_timestamp, slot, last_verification_timestamp, max_verification_age>>

TypeOK ==
  /\ unix_timestamp \in I64
  /\ slot \in U64
  /\ last_verification_timestamp \in I64
  /\ max_verification_age \in I64

Init ==
  /\ unix_timestamp \in 0 .. I64Max
  /\ slot \in U64
  /\ last_verification_timestamp \in I64
  /\ max_verification_age \in 1 .. I64Max

Advance ==
  /\ \E d \in 0 .. Step : /\ unix_timestamp + d <= I64Max
                          /\ unix_timestamp' = unix_timestamp + d
  /\ slot' = IF slot < U64Max THEN slot + 1 ELSE slot
  /\ UNCHANGED <<last_verification_timestamp, max_verification_age>>

Verify ==
  /\ last_verification_timestamp' = unix_timestamp
  /\ UNCHANGED <<unix_timestamp, slot, max_verification_age>>

Next == Advance \/ Verify

Spec == Init /\ [][Next]_vars

Recent ==
  VerifiedRecently(unix_timestamp, last_verification_timestamp, max_verification_age)

-----------------------------------------------------------------------------

\* Recency is decided as unbounded integers would decide it, whatever
\* timestamp the Anchor account holds: the i64::MAX fallback of checked_sub
\* never turns an ancient verification into a recent one.
RecencyExact ==
  Recent <=> unix_timestamp - last_verification_timestamp < max_verification_age

\* Without a new verification, a lapsed one never becomes recent again, also
\* when the subtraction starts to overflow.
LapseFinal ==
  [][ ~ Recent /\ UNCHANGED last_verification_timestamp => ~ Recent' ]_vars

\* The expiry of a grant lies in the ExpirySlots slots from now on, also at
\* the end of the slot range, where the addition saturates.
ExpiryInWindow ==
  /\ slot <= ExpiryAfter(slot)
  /\ ExpiryAfter(slot) <= slot + ExpirySlots

\* What the unit test "handles timestamp overflow gracefully" says: a
\* verification timestamp in the future counts as expired.
FutureTimestampRejected ==
  last_verification_timestamp > unix_timestamp => ~ Recent

=============================================================================
