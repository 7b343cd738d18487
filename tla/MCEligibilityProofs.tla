-------------------------- MODULE MCEligibilityProofs --------------------------
(***************************************************************************)
(* The clock of MCEligibility for every width of the integers and every    *)
(* step: what its run checks for scaled integers holds for i64 and u64.    *)
(***************************************************************************)
EXTENDS MCEligibility, EligibilityProofs

\* The clock is not negative and, like verification and policy, within range.
ClockInv ==
  /\ unix_timestamp \in 0 .. I64Max
  /\ slot \in U64
  /\ last_verification_timestamp \in I64
  /\ max_verification_age \in I64

LEMMA ClockInvariant == Spec => []ClockInv
<1> USE WidthAssumption, StepAssumption DEF ClockInv, I64, I64Min, U64
<1>1. Init => ClockInv
  BY DEF Init
<1>2. ClockInv /\ [Next]_vars => ClockInv'
  <2> SUFFICES ASSUME ClockInv, [Next]_vars
               PROVE  ClockInv'
    OBVIOUS
  <2>1. CASE Advance
    BY <2>1 DEF Advance
  <2>2. CASE Verify
    BY <2>2 DEF Verify
  <2>3. CASE UNCHANGED vars
    BY <2>3 DEF vars
  <2> QED
    BY <2>1, <2>2, <2>3 DEF Next
<1> QED
  BY <1>1, <1>2, PTL DEF Spec

\* In every state the handler's recency test decides as unbounded integers
\* would, whatever timestamp the identity account holds.
THEOREM RecencyAlwaysExact == Spec => []RecencyExact
<1>1. ClockInv => RecencyExact
  BY RecencyIsExact DEF ClockInv, RecencyExact, Recent
<1> QED
  BY <1>1, ClockInvariant, PTL

\* In every state, up to the last slot of a u64, the expiry of a grant lies in
\* the window that starts at the current slot.
THEOREM ExpiryAlwaysInWindow == Spec => []ExpiryInWindow
<1>1. ClockInv => ExpiryInWindow
  BY ExpiryWindow DEF ClockInv, ExpiryInWindow
<1> QED
  BY <1>1, ClockInvariant, PTL

LapseKept == ~ Recent /\ UNCHANGED last_verification_timestamp => ~ Recent'

\* A verification that has lapsed does not become recent again while the clock
\* moves on, until the voter verifies again.
THEOREM LapseAlwaysFinal == Spec => LapseFinal
<1>1. ClockInv /\ ClockInv' /\ [Next]_vars => [LapseKept]_vars
  <2> SUFFICES ASSUME ClockInv, ClockInv', Next, ~ Recent,
                      UNCHANGED last_verification_timestamp
               PROVE  ~ Recent'
    BY DEF LapseKept
  <2>1. unix_timestamp <= unix_timestamp' /\ UNCHANGED max_verification_age
    BY StepAssumption, WidthAssumption DEF Next, Advance, Verify, ClockInv
  <2> QED
    BY <2>1, LapseIsPermanent DEF ClockInv, Recent
<1> QED
  BY <1>1, ClockInvariant, PTL DEF LapseFinal, LapseKept, Spec
=============================================================================
