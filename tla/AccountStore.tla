----------------------------- MODULE AccountStore -----------------------------
(***************************************************************************)
(* What an account promises to the program, its bytes aside: it is missing *)
(* or has a value for each of its named fields; an instruction assigns     *)
(* some of them and keeps the others.  The modules of the program state    *)
(* their accounts in this way.  Of an identity account only what the       *)
(* plugin makes of it counts: nothing, or the two fields it uses.          *)
(***************************************************************************)
CONSTANTS Key, TagNone, TagSome, Number16, Number64, Expiry, None, Overwritten

VARIABLES
  kind,      \* the type of the account
  account    \* the set of its value; empty if there is none

storeVars == <<kind, account>>

StoreInit ==
  /\ kind \in {"VoterWeightRecord", "MaxVoterWeightRecord", "Registrar", "IdentityState"}
  /\ account = {}

Of(k) == kind = k /\ UNCHANGED kind

CreateRegistrar ==
  /\ Of("Registrar") /\ account = {}
  /\ account' \in {{new} : new \in
       [governance_program_id : Key, realm : Key, governing_token_mint : Key,
        min_trust_score : Number16, max_verification_age : Number64]}

UpdateRegistrar ==
  /\ Of("Registrar")
  /\ \E old \in account, minScore \in Number16, maxAge \in Number64 :
       account' = {[old EXCEPT !.min_trust_score = minScore, !.max_verification_age = maxAge]}

CreateVoterWeightRecord ==
  /\ Of("VoterWeightRecord") /\ account = {}
  /\ account' \in {{new} : new \in
       [realm : Key, governing_token_mint : Key, governing_token_owner : Key,
        voter_weight : {0}, voter_weight_expiry : {0}]}

UpdateVoterWeightRecord ==
  /\ Of("VoterWeightRecord")
  /\ \E old \in account, end \in Expiry :
       account' = {[old EXCEPT !.voter_weight = 1, !.voter_weight_expiry = end]}

CreateMaxVoterWeightRecord ==
  /\ Of("MaxVoterWeightRecord") /\ account = {}
  /\ account' \in {{new} : new \in
       [realm : Key, governing_token_mint : Key,
        max_voter_weight : {0}, max_voter_weight_expiry : {0}]}

\* The record does not expire any more.
UpdateMaxVoterWeightRecord ==
  /\ Of("MaxVoterWeightRecord")
  /\ \E old \in account, weight \in Number64 :
       account' = {[old EXCEPT !.max_voter_weight = weight,
                               !.max_voter_weight_expiry = None]}

\* The same instruction, passed a voter weight record.
OverwriteOwner ==
  /\ Of("VoterWeightRecord")
  /\ \E old \in account :
       /\ old.governing_token_owner \in TagNone \cup TagSome \cup {Overwritten}
       /\ account' = {[old EXCEPT !.governing_token_owner = Overwritten]}

Close ==
  /\ Of("Registrar") \/ Of("VoterWeightRecord")
  /\ account # {} /\ account' = {}

VerifyIdentity ==
  /\ Of("IdentityState")
  /\ \/ account' = {}
     \/ \E verified \in Number64, score \in Number16 :
          account' = {[last_verification_timestamp |-> verified, trust_score |-> score]}

StoreNext ==
  \/ CreateRegistrar \/ UpdateRegistrar
  \/ CreateVoterWeightRecord \/ UpdateVoterWeightRecord
  \/ CreateMaxVoterWeightRecord \/ UpdateMaxVoterWeightRecord
  \/ OverwriteOwner \/ Close \/ VerifyIdentity

StoreSpec == StoreInit /\ [][StoreNext]_storeVars
=============================================================================
