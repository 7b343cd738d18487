-------------------------- MODULE EligibilityProofs --------------------------
(***************************************************************************)
(* What the arithmetic of update_voter_weight_record computes, for every   *)
(* width of the integers.                                                  *)
(***************************************************************************)
EXTENDS Eligibility, TLAPS

\* For a clock that is not negative, the checked subtraction with its
\* fallback to i64::MAX decides recency exactly as unbounded integers would:
\* overflow never admits a lapsed verification nor rejects a recent one
\* (update_voter_weight_record.rs, step 8).
THEOREM RecencyIsExact ==
  ASSUME NEW t \in 0 .. I64Max, NEW v \in I64, NEW maxAge \in I64
  PROVE  VerifiedRecently(t, v, maxAge) <=> t - v < maxAge
<1>1. t - v \in Int /\ t - v >= I64Min
  BY WidthAssumption DEF I64, I64Min
<1>2. CASE t - v \in I64
  BY <1>2 DEF VerifiedRecently, VerificationAge
<1>3. CASE t - v \notin I64
  <2>1. t - v > I64Max
    BY <1>1, <1>3, WidthAssumption DEF I64, I64Min
  <2>2. VerificationAge(t, v) = I64Max
    BY <1>3 DEF VerificationAge
  <2>3. maxAge <= I64Max
    BY WidthAssumption DEF I64, I64Min
  <2> QED
    BY <2>1, <2>2, <2>3, <1>1, WidthAssumption DEF VerifiedRecently, I64, I64Min
<1> QED
  BY <1>2, <1>3

\* A verification that has become too old stays too old as the clock moves
\* on: without a new verification or a new policy no later update can succeed.
THEOREM LapseIsPermanent ==
  ASSUME NEW t \in 0 .. I64Max, NEW later \in 0 .. I64Max, t <= later,
         NEW v \in I64, NEW maxAge \in I64,
         ~ VerifiedRecently(t, v, maxAge)
  PROVE  ~ VerifiedRecently(later, v, maxAge)
<1>1. ~ (t - v < maxAge)
  BY RecencyIsExact
<1>2. ~ (later - v < maxAge)
  BY <1>1, WidthAssumption DEF I64, I64Min
<1> QED
  BY <1>2, RecencyIsExact

\* The expiry written by a grant is never before the current slot and at most
\* ExpirySlots after it, saturation included (step 10 of the handler).
THEOREM ExpiryWindow ==
  ASSUME NEW s \in U64
  PROVE  /\ ExpiryAfter(s) \in U64
         /\ s <= ExpiryAfter(s)
         /\ ExpiryAfter(s) <= s + ExpirySlots
BY WidthAssumption DEF ExpiryAfter, U64
=============================================================================
