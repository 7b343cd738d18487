----------------------------- MODULE VotingLease -----------------------------
(***************************************************************************)
(* What the plugin promises to spl-governance: a weight is a lease.  It is *)
(* given to one member at a time, only while that member is entitled, ends *)
(* by itself within a window of slots, and may be handed back early.  Who  *)
(* is entitled changes at any time and does not touch leases already given.*)
(***************************************************************************)
EXTENDS Naturals

CONSTANTS Member, Window

VARIABLES
  now,        \* the current slot
  entitled,   \* the members that may be given a lease
  lease       \* member -> last slot of its lease, 0 if it has none

leaseVars == <<now, entitled, lease>>

LeaseInit ==
  /\ now \in Nat
  /\ entitled \subseteq Member
  /\ lease = [m \in Member |-> 0]

Grant(m) ==
  /\ m \in entitled
  /\ \E end \in now .. now + Window : lease' = [lease EXCEPT ![m] = end]
  /\ UNCHANGED <<now, entitled>>

HandBack(m) ==
  /\ lease' = [lease EXCEPT ![m] = 0]
  /\ UNCHANGED <<now, entitled>>

\* Time passes, verifications age or are renewed, policies change.
WorldChanges ==
  /\ now' \in {now, now + 1}
  /\ entitled' \subseteq Member
  /\ UNCHANGED lease

LeaseNext ==
  \/ \E m \in Member : Grant(m) \/ HandBack(m)
  \/ WorldChanges

LeaseSpec == LeaseInit /\ [][LeaseNext]_leaseVars
=============================================================================
