----------------------------- MODULE AccountLayout -----------------------------
(***************************************************************************)
(* The bytes of an account: how the program lays out the records it writes *)
(* (Borsh, with optional fields of two lengths, over data that is never    *)
(* cleared), how much space it allocates, and at which offsets others read.*)
(* Every instruction reads the account, changes fields and writes the      *)
(* record over the front of the old data.                                  *)
(*                                                                         *)
(* All bytes of a key or a discriminator are one symbol; a number is       *)
(* little-endian.  Negative timestamps are left out.                       *)
(*                                                                         *)
(* Anchor does not compare the discriminators of the two record types, for *)
(* which governance.rs implements try_deserialize_unchecked only: a voter  *)
(* weight record can be read, and written, as a max record.  For this the  *)
(* owner's key is split into the parts a max record has in its place: 8    *)
(* bytes of weight, the tag of the expiry, its 8 bytes, 8 bytes reserved,  *)
(* and 7 more.  That a weight is itself the first bytes of the key is left *)
(* out.                                                                    *)
(***************************************************************************)
EXTENDS Naturals, Sequences

CONSTANTS
  Key,            \* public keys
  TagNone,        \* keys whose byte 8 is 0, the tag of None
  TagSome,        \* keys whose byte 8 is 1, the tag of Some
  VoterTag, MaxTag, RegistrarTag, IdentityTag, OtherTag,   \* discriminators
  None,           \* Option::None
  Overwritten,    \* an owner field that is no key any more
  Number16,       \* values of u16 fields: trust scores and their floors
  Number64,       \* values of 64-bit fields: weights, slots, ages, timestamps
  U64Max,         \* the largest u64
  IdentitySize    \* lengths of the data of an identity account

VARIABLES
  kind,      \* the type of the account
  data,      \* its bytes; empty without an account
  record     \* the values last assigned to its fields, in order

vars == <<kind, data, record>>

Symbol == Key \cup {VoterTag, MaxTag, RegistrarTag, IdentityTag, OtherTag}
Kind == {"VoterWeightRecord", "MaxVoterWeightRecord", "Registrar", "IdentityState"}

\* Keys, numbers and None can be told apart.
ASSUME SymbolAssumption ==
  /\ \A s \in Symbol \cup {None} : s \notin Nat
  /\ None \notin Symbol
  /\ TagNone \subseteq Key /\ TagSome \subseteq Key /\ TagNone \cap TagSome = {}
  /\ Overwritten \notin Key

-----------------------------------------------------------------------------
(* Borsh                                                                   *)

\* The number, and what is left of it after each byte.
Quotients(number, width) ==
  LET left[i \in 0 .. width] == IF i = 0 THEN number ELSE left[i - 1] \div 256
  IN  left

Fits(number, width) == Quotients(number, width)[width] = 0

LittleEndian(number, width) ==
  LET left == Quotients(number, width) IN [i \in 1 .. width |-> left[i - 1] % 256]

\* The number that the bytes after the i-th are.
Sums(bytes) ==
  LET sum[i \in 0 .. Len(bytes)] ==
        IF i = Len(bytes) THEN 0 ELSE bytes[i + 1] + 256 * sum[i + 1]
  IN  sum

FromLittleEndian(bytes) == Sums(bytes)[0]

ToBytes(v, width) == IF v \in Symbol THEN [i \in 1 .. width |-> v] ELSE LittleEndian(v, width)

\* Bytes that straddle a symbol are no value.
FromBytes(bytes) ==
  CASE \A i \in DOMAIN bytes : bytes[i] \in 0 .. 255 -> FromLittleEndian(bytes)
    [] \E s \in Symbol : \A i \in DOMAIN bytes : bytes[i] = s -> bytes[1]
    [] OTHER -> None

Take(bytes, n) == SubSeq(bytes, 1, n)
Drop(bytes, n) == SubSeq(bytes, n + 1, Len(bytes))
Slice(bytes, offset, width) == SubSeq(bytes, offset + 1, offset + width)
Zeros(n) == [i \in 1 .. n |-> 0]

\* An optional value has a tag byte before it.
Field(width) == [tag |-> 0, width |-> width]
Optional(width) == [tag |-> 1, width |-> width]

\* Byte 8 of a key.
NinthByte(key) == IF key \in TagNone THEN 0 ELSE IF key \in TagSome THEN 1 ELSE key

\* The fields of the records of spl-governance-addin-api, of the registrar,
\* and of the IdentityState as far as the plugin reads it.  The owner of a voter
\* weight record is in five parts, fields 4 to 8.
Fields(k) ==
  CASE k = "VoterWeightRecord" ->
         <<Field(8), Field(32), Field(32),
           Field(8), Field(1), Field(8), Field(8), Field(7),
           Field(8), Optional(8), Optional(1), Optional(32), Field(8)>>
    [] k = "MaxVoterWeightRecord" ->
         <<Field(8), Field(32), Field(32), Field(8), Optional(8), Field(8)>>
    [] k = "Registrar" ->
         <<Field(8), Field(32), Field(32), Field(32), Field(2), Field(8), Field(64)>>
    [] k = "IdentityState" ->
         <<Field(8), Field(32), Field(8), Field(8), Field(4), Field(2)>>

\* Mutant: Some is written without its tag.
EncodeFieldUntagged(field, v) ==
  IF field.tag = 1 /\ v = None THEN <<0>> ELSE ToBytes(v, field.width)

EncodeField(field, v) ==
  CASE field.tag = 0 -> ToBytes(v, field.width)
    [] field.tag = 1 /\ v = None -> <<0>>
    [] field.tag = 1 /\ v # None -> <<1>> \o ToBytes(v, field.width)

\* What is written after the i-th field.
Encodings(fields, values) ==
  LET after[i \in 0 .. Len(fields)] ==
        IF i = Len(fields) THEN <<>>
                           ELSE EncodeField(fields[i + 1], values[i + 1]) \o after[i + 1]
  IN  after

Encode(k, values) == Encodings(Fields(k), values)[0]

\* An optional field is as long as its tag, the first byte, says.
DecodeField(field, bytes) ==
  CASE field.tag = 0 -> FromBytes(Take(bytes, field.width))
    [] field.tag = 1 /\ bytes[1] = 0 -> None
    [] field.tag = 1 /\ bytes[1] = 1 -> FromBytes(Slice(bytes, 1, field.width))

LengthOf(field, bytes) ==
  IF field.tag = 1 /\ bytes[1] = 0 THEN 1 ELSE field.tag + field.width

\* What is left to read after the i-th field.
Buffers(fields, bytes) ==
  LET left[i \in 0 .. Len(fields)] ==
        IF i = 0 THEN bytes ELSE Drop(left[i - 1], LengthOf(fields[i], left[i - 1]))
  IN  left

Decode(k, bytes) ==
  LET left == Buffers(Fields(k), bytes)
  IN  [i \in 1 .. Len(Fields(k)) |-> DecodeField(Fields(k)[i], left[i - 1])]

\* Borsh succeeds: there are enough bytes, and every tag is one.
Readable(k, bytes) ==
  LET left == Buffers(Fields(k), bytes)
  IN  \A i \in 1 .. Len(Fields(k)) :
        /\ LengthOf(Fields(k)[i], left[i - 1]) <= Len(left[i - 1])
        /\ Fields(k)[i].tag = 1 => left[i - 1][1] \in {0, 1}

ASSUME NumberAssumption ==
  /\ \A n \in Number16 : n \in Nat /\ Fits(n, 2)
  /\ U64Max \in Nat /\ Fits(U64Max, 8)
  /\ Number64 \subseteq 0 .. U64Max
  /\ IdentitySize \subseteq 0 .. 207

-----------------------------------------------------------------------------
(* Instructions                                                            *)

\* Mutant: the tags of the optional fields of a voter weight record are not counted.
SpaceWithoutTags(k) ==
  CASE k = "VoterWeightRecord" -> 8 + 32 + 32 + 32 + 8 + 8 + 1 + 32 + 8
    [] k = "MaxVoterWeightRecord" -> 8 + 32 + 32 + 8 + 9 + 8
    [] k = "Registrar" -> 8 + 32 + 32 + 32 + 2 + 8 + 64

\* get_space() of the two records, and Registrar::LEN.
Space(k) ==
  CASE k = "VoterWeightRecord" -> 8 + 32 + 32 + 32 + 8 + 9 + 2 + 33 + 8
    [] k = "MaxVoterWeightRecord" -> 8 + 32 + 32 + 8 + 9 + 8
    [] k = "Registrar" -> 8 + 32 + 32 + 32 + 2 + 8 + 64

\* The record is written over the front of the data; the rest stays.
WriteOver(old, bytes) == bytes \o Drop(old, Len(bytes))

\* init allocates zeroed space, which is read as a record before it is written.
Initialise(k, values) ==
  /\ data = <<>> /\ kind = k
  /\ LET zeroed == Zeros(Space(k))
         bytes == Encode(k, values \o Drop(Decode(k, zeroed), Len(values)))
     IN  /\ Len(bytes) <= Len(zeroed)
         /\ data' = WriteOver(zeroed, bytes)
  /\ record' = values \o <<0>>
  /\ UNCHANGED kind

\* The types an instruction that asks for type k accepts the account as: its own,
\* and a max record in place of a voter weight record.  (The other way round the
\* account is too short.  A registrar has a discriminator that Anchor compares,
\* and where it has the key of a program a record has its realm.)
Accepts(k) == kind = k \/ (k = "MaxVoterWeightRecord" /\ kind = "VoterWeightRecord")

\* A voter weight record after an update of it as a max record: weight and tag of
\* None are written over the owner, what follows the expiry moves up to the tag.
OwnerReplaced(old, weight) ==
  [old EXCEPT ![4] = weight, ![5] = 0, ![6] = IF old[5] = 1 THEN old[7] ELSE old[6]]

\* Mutant: the other fields are not read but begin anew.
AssignAnew(k, first, values) ==
  /\ data # <<>> /\ Accepts(k) /\ Readable(k, data)
  /\ LET assigned(old) == [i \in DOMAIN old |->
           IF i \in first .. first + Len(values) - 1 THEN values[i - first + 1] ELSE old[i]]
         bytes == Encode(k, assigned(Decode(k, Zeros(Len(data)))))
     IN  /\ Len(bytes) <= Len(data)
         /\ data' = WriteOver(data, bytes)
         /\ record' = IF kind = k THEN assigned(record) ELSE OwnerReplaced(record, values[1])
  /\ UNCHANGED kind

\* Read, assign `values` to the fields from the first one on, write.
Assign(k, first, values) ==
  /\ data # <<>> /\ Accepts(k) /\ Readable(k, data)
  /\ LET assigned(old) == [i \in DOMAIN old |->
           IF i \in first .. first + Len(values) - 1 THEN values[i - first + 1] ELSE old[i]]
         bytes == Encode(k, assigned(Decode(k, data)))
     IN  /\ Len(bytes) <= Len(data)
         /\ data' = WriteOver(data, bytes)
         /\ record' = IF kind = k THEN assigned(record) ELSE OwnerReplaced(record, values[1])
  /\ UNCHANGED kind

CreateRegistrar ==
  \E program, realm, mint \in Key, minScore \in Number16, maxAge \in Number64 :
    Initialise("Registrar", <<RegistrarTag, program, realm, mint, minScore, maxAge>>)

UpdateRegistrar ==
  \E minScore \in Number16, maxAge \in Number64 : Assign("Registrar", 5, <<minScore, maxAge>>)

CreateVoterWeightRecord ==
  \E realm, mint, owner \in Key :
    Initialise("VoterWeightRecord",
               <<VoterTag, realm, mint, owner, NinthByte(owner), owner, owner, owner,
                 0, 0, None, None>>)

SaturatingAdd(a, b) == IF a + b > U64Max THEN U64Max ELSE a + b

UpdateVoterWeightRecord ==
  \E slot \in Number64 :
    Assign("VoterWeightRecord", 9, <<1, SaturatingAdd(slot, 100), None, None>>)

CreateMaxVoterWeightRecord ==
  \E realm, mint \in Key :
    Initialise("MaxVoterWeightRecord", <<MaxTag, realm, mint, 0, 0>>)

\* The account may be a voter weight record.
UpdateMaxVoterWeightRecord ==
  \E weight \in Number64 : Assign("MaxVoterWeightRecord", 4, <<weight, None>>)

\* close_registrar and close_voter_weight_record: the account is gone.
Close ==
  /\ kind \in {"Registrar", "VoterWeightRecord"} /\ data # <<>>
  /\ data' = <<>> /\ record' = <<>>
  /\ UNCHANGED kind

\* The Anchor program, and buildIdentityStateData of the test fixtures, write an
\* identity field by field; the account may also be another one, or cut short.
VerifyIdentity ==
  /\ kind = "IdentityState"
  /\ \E tag \in {IdentityTag, OtherTag}, owner \in Key,
        score \in Number16, created, verified \in Number64, size \in IdentitySize :
       LET values == <<tag, owner, created, verified, score \div 100, score>>
           bytes == Encode(kind, values) \o Zeros(207 - 62)
       IN  data' = Take(bytes, size) /\ record' = values
  /\ UNCHANGED kind

Init ==
  /\ kind \in Kind
  /\ data = <<>>
  /\ record = <<>>

Next ==
  \/ CreateRegistrar \/ UpdateRegistrar
  \/ CreateVoterWeightRecord \/ UpdateVoterWeightRecord
  \/ CreateMaxVoterWeightRecord \/ UpdateMaxVoterWeightRecord
  \/ Close \/ VerifyIdentity

Spec == Init /\ [][Next]_vars

-----------------------------------------------------------------------------
(* Readers                                                                 *)

\* Mutant: the offset of verification_count.
TrustScoreOffsetBeforeCount == 56

TrustScoreOffset == 60
LastVerificationOffset == 48
MinDataLength == 62

\* What update_voter_weight_record takes from an identity account, None if it
\* refuses the account.
PluginReads ==
  IF Len(data) >= MinDataLength /\ FromBytes(Slice(data, 0, 8)) = IdentityTag
    THEN [last_verification_timestamp |-> FromBytes(Slice(data, LastVerificationOffset, 8)),
          trust_score |-> FromBytes(Slice(data, TrustScoreOffset, 2))]
    ELSE None

\* Mutant: the tag is taken for the first byte of the value.
ClientOptionWithoutTag(offset) == FromBytes(Slice(data, offset, 8))

\* The devnet script and the tests read an Option<u64> at a fixed offset.
ClientOption(offset) ==
  IF FromBytes(Slice(data, offset, 1)) = 1 THEN FromBytes(Slice(data, offset + 1, 8)) ELSE None

-----------------------------------------------------------------------------

\* What an instruction reads is what the instructions before it have assigned,
\* and of a voter weight record written as a max record the owner alone is lost:
\* also when a record has become shorter and the end of the longer one is still
\* there (update_max_voter_weight_record turns Some(0) into None).
ReadBack ==
  data # <<>> /\ kind # "IdentityState" => Decode(kind, data) = record

\* The account has room for every value of its type, so that no instruction
\* can fail to write (get_space counts every Option as Some).
SpaceSuffices ==
  kind # "IdentityState" /\ data # <<>> =>
    Len(Encode(kind, [i \in DOMAIN record |-> IF record[i] = None THEN 0 ELSE record[i]]))
      <= Len(data)

\* The plugin, which knows IdentityState by offsets only, reads the timestamp and
\* the score that were written, and refuses other accounts and short ones.
IdentityRead ==
  kind = "IdentityState" /\ data # <<>> =>
    PluginReads =
      IF record[1] = IdentityTag /\ Len(data) >= 62
        THEN [last_verification_timestamp |-> record[4], trust_score |-> record[6]]
        ELSE None

\* Clients that read the records at fixed offsets see the assigned values: no
\* optional field comes before the fields they read.
ClientsRead ==
  data # <<>> =>
    /\ kind = "VoterWeightRecord" =>
         /\ FromBytes(Slice(data, 8, 32)) = record[2]
         /\ FromBytes(Slice(data, 72, 8)) = record[4]
         /\ FromBytes(Slice(data, 80, 1)) = record[5]
         /\ FromBytes(Slice(data, 81, 8)) = record[6]
         /\ FromBytes(Slice(data, 104, 8)) = record[9]
         /\ ClientOption(112) = record[10]
    /\ kind = "MaxVoterWeightRecord" =>
         /\ FromBytes(Slice(data, 72, 8)) = record[4]
         /\ ClientOption(80) = record[5]
    /\ kind = "Registrar" => FromBytes(Slice(data, 104, 2)) = record[5]

-----------------------------------------------------------------------------
(* The bytes implement accounts of named fields (AccountStore)             *)

\* The fields the program uses, by their names.
Named(k, v) ==
  CASE k = "Registrar" ->
         [governance_program_id |-> v[2], realm |-> v[3], governing_token_mint |-> v[4],
          min_trust_score |-> v[5], max_verification_age |-> v[6]]
    [] k = "VoterWeightRecord" ->
         [realm |-> v[2], governing_token_mint |-> v[3],
          governing_token_owner |-> IF v[4] \in Key THEN v[4] ELSE Overwritten,
          voter_weight |-> v[9], voter_weight_expiry |-> v[10]]
    [] k = "MaxVoterWeightRecord" ->
         [realm |-> v[2], governing_token_mint |-> v[3], max_voter_weight |-> v[4],
          max_voter_weight_expiry |-> v[5]]

\* What the next instruction takes the bytes for.
Account ==
  IF data = <<>> THEN {}
  ELSE IF kind = "IdentityState" THEN {PluginReads} \ {None}
  ELSE {Named(kind, Decode(kind, data))}

Store == INSTANCE AccountStore
  WITH account <- Account, Expiry <- {SaturatingAdd(slot, 100) : slot \in Number64}

\* Every instruction acts on the account as the other modules have it: it sees
\* the values of the named fields, changes those it assigns, and keeps the others,
\* which it reads and writes back.  Also when a voter weight record is passed to
\* the update of a max record, which takes it for one: then what changes is the
\* owner, and only where the bytes of the owner's key decode.
StorePromise == Store!StoreSpec
=============================================================================
