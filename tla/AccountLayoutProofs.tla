-------------------------- MODULE AccountLayoutProofs --------------------------
(***************************************************************************)
(* What every reader finds in an account is what was last assigned, in     *)
(* whatever order the instructions run: the record is always at the front  *)
(* of the data, with no more behind it than a longer record has left.      *)
(***************************************************************************)
EXTENDS BorshProofs

-----------------------------------------------------------------------------
(* Zeroed space                                                            *)

\* 0 fits every width.
LEMMA ZeroWritten ==
  ASSUME NEW width \in Nat
  PROVE  Fits(0, width) /\ \A i \in 1 .. width : LittleEndian(0, width)[i] = 0
<1> DEFINE left == Quotients(0, width)
           Zero(i) == left[i] = 0
           T == {i \in 0 .. width : Zero(i)}
<1>1. Divided(left, 0, width)
  BY QuotientsStep
<1> HIDE DEF left
<1>2. Zero(0)
  BY <1>1 DEF Divided
<1>3. ASSUME NEW i \in 0 .. width - 1, Zero(i)
      PROVE  Zero(i + 1)
  <2>1. i + 1 \in 1 .. width /\ (i + 1) - 1 = i
    OBVIOUS
  <2>2. left[i + 1] = left[i] \div 256
    BY <1>1, <2>1 DEF Divided
  <2> QED
    BY <1>3, <2>2
<1>4. 0 .. width \subseteq T
  <2> HIDE DEF Zero
  <2>1. 0 \in T /\ \A i \in 0 .. width - 1 : i \in T => i + 1 \in T
    BY <1>2, <1>3
  <2> HIDE DEF T
  <2> QED
    BY <2>1, InductionUpTo
<1>5. Fits(0, width)
  <2>1. width \in T
    BY <1>4
  <2> QED
    BY <2>1 DEF Fits, left
<1>6. ASSUME NEW i \in 1 .. width
      PROVE  LittleEndian(0, width)[i] = 0
  <2>1. i - 1 \in T
    BY <1>4
  <2>2. left[i - 1] = 0
    BY <2>1
  <2>3. LittleEndian(0, width)[i] = left[i - 1] % 256
    BY LittleEndianType DEF left
  <2> QED
    BY <2>2, <2>3
<1> QED
  BY <1>5, <1>6

AllZero(bytes) == bytes \in Seq(Byte) /\ \A i \in 1 .. Len(bytes) : bytes[i] = 0

LEMMA ZerosJoin ==
  ASSUME NEW s, NEW t, AllZero(s), AllZero(t)
  PROVE  AllZero(s \o t)
<1>1. s \in Seq(Byte) /\ t \in Seq(Byte)
  BY DEF AllZero
<1>2. s \o t \in Seq(Byte) /\ Len(s \o t) = Len(s) + Len(t)
  BY <1>1, BytesJoin
<1>3. \A i \in 1 .. Len(s) + Len(t) : (s \o t)[i] = IF i <= Len(s) THEN s[i] ELSE t[i - Len(s)]
  BY <1>1, ConcatProperties
<1>4. Len(s) \in Nat /\ Len(t) \in Nat
  BY <1>1, LenProperties
<1>5. /\ \A i \in 1 .. Len(s) : s[i] = 0
      /\ \A i \in 1 .. Len(t) : t[i] = 0
  BY DEF AllZero
<1>6. ASSUME NEW i \in 1 .. Len(s) + Len(t)
      PROVE  (s \o t)[i] = 0
  <2>1. CASE i <= Len(s)
    BY <1>3, <1>4, <1>5, <2>1
  <2>2. CASE ~ (i <= Len(s))
    <3>1. i - Len(s) \in 1 .. Len(t)
      BY <1>4, <2>2
    <3>2. (s \o t)[i] = t[i - Len(s)]
      BY <1>3, <2>2
    <3> QED
      BY <1>5, <3>1, <3>2
  <2> QED
    BY <2>1, <2>2
<1> QED
  BY <1>2, <1>6 DEF AllZero

\* As many zeros are the same zeros.
LEMMA ZerosEqual ==
  /\ \A n \in Nat : AllZero(Zeros(n)) /\ Len(Zeros(n)) = n
  /\ \A s, t \in Seq(Byte) : AllZero(s) /\ AllZero(t) /\ Len(s) = Len(t) => s = t
<1>1. ASSUME NEW n \in Nat
      PROVE  AllZero(Zeros(n)) /\ Len(Zeros(n)) = n
  <2>1. 0 \in Byte
    BY DEF Byte
  <2>2. Zeros(n) \in [1 .. n -> Byte]
    BY <2>1 DEF Zeros
  <2>3. Zeros(n) \in Seq(Byte) /\ Len(Zeros(n)) = n
    BY <2>2
  <2> QED
    BY <2>3 DEF AllZero, Zeros
<1>2. ASSUME NEW s \in Seq(Byte), NEW t \in Seq(Byte),
             AllZero(s), AllZero(t), Len(s) = Len(t)
      PROVE  s = t
  BY <1>2, SeqEqual DEF AllZero
<1> QED
  BY <1>1, <1>2

\* Zeroed space reads as None in every optional field and 0 in every other.
Blank(k) == [i \in 1 .. Len(Fields(k)) |-> IF Fields(k)[i].tag = 1 THEN None ELSE 0]

LEMMA BlankField ==
  ASSUME NEW field \in FieldType
  PROVE  LET v == IF field.tag = 1 THEN None ELSE 0
         IN  FieldFits(field, v) /\ AllZero(EncodeField(field, v)) /\ v \in Value
<1>0. field.tag \in {0, 1} /\ field.width \in Nat
  BY DEF FieldType
<1>1. CASE field.tag = 1
  <2>1. EncodeField(field, None) = <<0>>
    BY <1>1 DEF EncodeField
  <2>2. <<0>> \in Seq(Byte)
    BY DEF Byte
  <2>3. AllZero(<<0>>)
    BY <2>2 DEF AllZero
  <2> QED
    BY <1>1, <2>1, <2>3 DEF FieldFits, Value
<1>2. CASE field.tag = 0
  <2>1. FieldFits(field, 0)
    BY <1>0, ZeroWritten DEF FieldFits, ValueFits
  <2>2. 0 \notin Symbol
    BY SymbolAssumption
  <2>3. /\ EncodeField(field, 0) = ToBytes(0, field.width)
        /\ ToBytes(0, field.width) = LittleEndian(0, field.width)
    BY <1>2, <2>2 DEF EncodeField, ToBytes
  <2>4. EncodeField(field, 0) \in Seq(Byte) /\ Len(EncodeField(field, 0)) = field.width
    BY <1>0, <2>3, ValueWritten
  <2>5. AllZero(EncodeField(field, 0))
    BY <1>0, <2>3, <2>4, ZeroWritten DEF AllZero
  <2> QED
    BY <1>2, <2>1, <2>5 DEF Value
<1> QED
  BY <1>0, <1>1, <1>2

LEMMA BlankRecord ==
  ASSUME NEW k \in Kind
  PROVE  IsRecord(k, Blank(k)) /\ AllZero(Encode(k, Blank(k)))
<1> DEFINE fields == Fields(k)
           n == Len(fields)
           values == Blank(k)
           after == Encodings(fields, values)
           T == {i \in 0 .. n : AllZero(after[i])}
<1>1. n \in Nat /\ IsLayout(fields, n)
  BY FieldsAreLayouts
<1>2. ASSUME NEW i \in 1 .. n
      PROVE  /\ FieldFits(fields[i], values[i]) /\ values[i] \in Value
             /\ AllZero(EncodeField(fields[i], values[i]))
  <2>1. fields[i] \in FieldType
    BY <1>1 DEF IsLayout
  <2>2. values[i] = IF fields[i].tag = 1 THEN None ELSE 0
    BY DEF Blank
  <2> HIDE DEF fields, values
  <2> QED
    BY <2>1, <2>2, BlankField
<1>3. RecordFits(fields, n, values)
  <2>1. values = [i \in 1 .. n |-> values[i]]
    BY DEF Blank
  <2> HIDE DEF fields, values, n
  <2>2. values \in [1 .. n -> Value]
    BY <1>2, <2>1
  <2> QED
    BY <1>2, <2>2 DEF RecordFits
<1>4. IsRecord(k, values) /\ Encode(k, values) = after[0]
  BY <1>3 DEF IsRecord, Encode
<1> HIDE DEF fields, n, values
<1>5. WrittenAfter(after, n, fields, values)
  BY <1>1, <1>3, EncodingsStep
<1> HIDE DEF after
<1>6. n \in T
  <2>1. after[n] = <<>>
    BY <1>5 DEF WrittenAfter
  <2>2. AllZero(<<>>)
    BY DEF AllZero
  <2> QED
    BY <1>1, <2>1, <2>2
<1>7. ASSUME NEW i \in 0 .. n - 1, i + 1 \in T
      PROVE  i \in T
  <2>1. i + 1 \in 1 .. n /\ i \in 0 .. n
    BY <1>1
  <2>2. after[i] = EncodeField(fields[i + 1], values[i + 1]) \o after[i + 1]
    BY <1>5, Zenon DEF WrittenAfter
  <2>3. AllZero(EncodeField(fields[i + 1], values[i + 1]))
    BY <1>2, <2>1
  <2>4. AllZero(after[i + 1])
    BY <1>7
  <2>5. AllZero(after[i])
    BY <2>2, <2>3, <2>4, ZerosJoin
  <2> QED
    BY <2>1, <2>5
<1>8. AllZero(after[0])
  <2> HIDE DEF T
  <2>1. 0 .. n \subseteq T
    BY <1>1, <1>6, <1>7, InductionDownFrom
  <2>2. 0 \in T
    BY <1>1, <2>1
  <2> QED
    BY <2>2 DEF T
<1> QED
  BY <1>4, <1>8 DEF values

LEMMA SpaceType ==
  ASSUME NEW k \in Kind, k # "IdentityState"
  PROVE  Space(k) \in Nat \ {0}
<1>1. CASE k = "VoterWeightRecord"
  <2>1. Space(k) = 8 + 32 + 32 + 32 + 8 + 9 + 2 + 33 + 8
    BY <1>1 DEF Space
  <2> QED
    BY <2>1
<1>2. CASE k = "MaxVoterWeightRecord"
  <2>1. Space(k) = 8 + 32 + 32 + 8 + 9 + 8
    BY <1>2 DEF Space
  <2> QED
    BY <2>1
<1>3. CASE k = "Registrar"
  <2>1. Space(k) = 8 + 32 + 32 + 32 + 2 + 8 + 64
    BY <1>3 DEF Space
  <2> QED
    BY <2>1
<1> QED
  BY <1>1, <1>2, <1>3 DEF Kind

LEMMA ZeroedRead ==
  ASSUME NEW k \in Kind, k # "IdentityState"
  PROVE  Decode(k, Zeros(Space(k))) = Blank(k)
<1> DEFINE bytes == Encode(k, Blank(k))
           rest == Zeros(Space(k) - Len(bytes))
<1>1. IsRecord(k, Blank(k)) /\ AllZero(bytes)
  BY BlankRecord
<1>2. bytes \in Seq(Byte) /\ Len(bytes) <= Space(k)
  BY <1>1, RecordLength
<1>3. Space(k) \in Nat
  BY SpaceType
<1> HIDE DEF bytes
<1>4. Len(bytes) \in Nat /\ Space(k) - Len(bytes) \in Nat
  <2>1. Len(bytes) \in Nat
    BY <1>2, LenProperties
  <2> QED
    BY <1>2, <1>3, <2>1
<1>5. AllZero(rest) /\ Len(rest) = Space(k) - Len(bytes) /\ rest \in Seq(Byte)
  BY <1>4, ZerosEqual DEF AllZero
<1>6. AllZero(Zeros(Space(k))) /\ Len(Zeros(Space(k))) = Space(k) /\ Zeros(Space(k)) \in Seq(Byte)
  BY <1>3, ZerosEqual DEF AllZero
<1> HIDE DEF rest
<1>7. AllZero(bytes \o rest) /\ bytes \o rest \in Seq(Byte) /\ Len(bytes \o rest) = Space(k)
  <2>1. AllZero(bytes \o rest)
    BY <1>1, <1>5, ZerosJoin
  <2>2. bytes \o rest \in Seq(Byte) /\ Len(bytes \o rest) = Len(bytes) + Len(rest)
    BY <1>2, <1>5, BytesJoin
  <2> QED
    BY <1>3, <1>4, <1>5, <2>1, <2>2
<1>8. Zeros(Space(k)) = bytes \o rest
  BY <1>6, <1>7, ZerosEqual
<1>9. Decode(k, bytes \o rest) = Blank(k)
  BY <1>1, <1>5, RecordReadBack DEF bytes
<1> QED
  BY <1>8, <1>9, Zenon

-----------------------------------------------------------------------------
(* Writing over the front                                                  *)

\* The parts of a sequence.
LEMMA Parts ==
  ASSUME NEW s \in Seq(Byte), NEW n \in 0 .. Len(s)
  PROVE  /\ Take(s, n) \in Seq(Byte) /\ Len(Take(s, n)) = n
         /\ Drop(s, n) \in Seq(Byte) /\ Len(Drop(s, n)) = Len(s) - n
         /\ s = Take(s, n) \o Drop(s, n)
<1>1. Len(s) \in Nat /\ \A i \in 1 .. Len(s) : s[i] \in Byte
  BY LenProperties, ElementOfSeq
<1>2. n \in Nat /\ n <= Len(s)
  BY <1>1
<1>3. SubSeq(s, 1, n) \in Seq(Byte) /\ Len(SubSeq(s, 1, n)) = n
  <2>1. \A i \in 1 .. n : s[i] \in Byte
    BY <1>1, <1>2
  <2>2. SubSeq(s, 1, n) \in Seq(Byte) /\ Len(SubSeq(s, 1, n)) = IF 1 <= n THEN n - 1 + 1 ELSE 0
    BY <1>2, <2>1, SubSeqProperties
  <2> QED
    BY <1>2, <2>2
<1>4. SubSeq(s, n + 1, Len(s)) \in Seq(Byte) /\ Len(SubSeq(s, n + 1, Len(s))) = Len(s) - n
  <2>1. \A i \in n + 1 .. Len(s) : s[i] \in Byte
    BY <1>1, <1>2
  <2>2. /\ SubSeq(s, n + 1, Len(s)) \in Seq(Byte)
        /\ Len(SubSeq(s, n + 1, Len(s))) = IF n + 1 <= Len(s) THEN Len(s) - (n + 1) + 1 ELSE 0
    BY <1>1, <1>2, <2>1, SubSeqProperties
  <2> QED
    BY <1>1, <1>2, <2>2
<1>5. SubSeq(s, 1, n) \o SubSeq(s, n + 1, Len(s)) = SubSeq(s, 1, Len(s))
  <2>1. 1 \in 1 .. Len(s) + 1 /\ n \in 1 - 1 .. Len(s) /\ Len(s) \in n .. Len(s)
    BY <1>1, <1>2
  <2> QED
    BY <2>1, ConcatAdjacentSubSeq
<1>6. SubSeq(s, 1, Len(s)) = s
  BY SubSeqFull
<1> QED
  BY <1>3, <1>4, <1>5, <1>6 DEF Take, Drop

\* The length of the data stays, and writing the same bytes again changes nothing.
LEMMA WriteOverFront ==
  ASSUME NEW old \in Seq(Byte), NEW bytes \in Seq(Byte), Len(bytes) <= Len(old)
  PROVE  /\ WriteOver(old, bytes) \in Seq(Byte)
         /\ Len(WriteOver(old, bytes)) = Len(old)
         /\ WriteOver(WriteOver(old, bytes), bytes) = WriteOver(old, bytes)
<1> DEFINE rest == Drop(old, Len(bytes))
<1>1. Len(bytes) \in 0 .. Len(old) /\ Len(old) \in Nat /\ Len(bytes) \in Nat
  BY LenProperties
<1>2. rest \in Seq(Byte) /\ Len(rest) = Len(old) - Len(bytes)
  BY <1>1, Parts
<1>3. WriteOver(old, bytes) = bytes \o rest
  BY DEF WriteOver
<1> HIDE DEF rest
<1>4. bytes \o rest \in Seq(Byte) /\ Len(bytes \o rest) = Len(bytes) + Len(rest)
  BY <1>2, BytesJoin
<1>5. WriteOver(bytes \o rest, bytes) = bytes \o rest
  BY <1>2, BytesPart DEF WriteOver
<1> QED
  BY <1>1, <1>2, <1>3, <1>4, <1>5

\* What is written is in front of some rest.
LEMMA WrittenRest ==
  ASSUME NEW old \in Seq(Byte), NEW bytes \in Seq(Byte), Len(bytes) <= Len(old),
         old = WriteOver(old, bytes)
  PROVE  \E rest \in Seq(Byte) : old = bytes \o rest
<1>1. Len(bytes) \in 0 .. Len(old)
  BY LenProperties
<1>2. Drop(old, Len(bytes)) \in Seq(Byte)
  BY <1>1, Parts
<1> QED
  BY <1>2, Zenon DEF WriteOver

LEMMA SliceOfTake ==
  ASSUME NEW s \in Seq(Byte), NEW n \in 0 .. Len(s), NEW offset \in Nat, NEW width \in Nat,
         offset + width <= n
  PROVE  Slice(Take(s, n), offset, width) = Slice(s, offset, width)
<1> DEFINE t == Take(s, n)
           a == SubSeq(t, offset + 1, offset + width)
           b == SubSeq(s, offset + 1, offset + width)
<1>1. Len(s) \in Nat /\ n \in Nat /\ n <= Len(s)
  BY LenProperties
<1>2. t \in Seq(Byte) /\ Len(t) = n
  BY Parts
<1>3. \A i \in 1 .. n : s[i] \in Byte /\ t[i] = s[i]
  <2>1. \A i \in 1 .. n : s[i] \in Byte
    BY <1>1, ElementOfSeq
  <2>2. \A i \in 1 .. n - 1 + 1 : SubSeq(s, 1, n)[i] = s[(1 + i) - 1]
    BY <1>1, <2>1, SubSeqProperties
  <2>3. \A i \in 1 .. n : SubSeq(s, 1, n)[i] = s[i]
    BY <1>1, <2>2
  <2> QED
    BY <2>1, <2>3 DEF Take
<1> HIDE DEF t
<1>4. \A i \in offset + 1 .. offset + width : i \in 1 .. n
  BY <1>1
<1>5. /\ a \in Seq(Byte) /\ Len(a) = width
      /\ \A i \in 1 .. width : a[i] = t[(offset + 1) + i - 1]
  BY <1>3, <1>4, SubSeqProperties
<1>6. /\ b \in Seq(Byte) /\ Len(b) = width
      /\ \A i \in 1 .. width : b[i] = s[(offset + 1) + i - 1]
  BY <1>3, <1>4, SubSeqProperties
<1>7. \A i \in 1 .. width : a[i] = b[i]
  <2> TAKE i \in 1 .. width
  <2>1. (offset + 1) + i - 1 \in offset + 1 .. offset + width
    OBVIOUS
  <2> QED
    BY <2>1, <1>3, <1>4, <1>5, <1>6
<1>8. a = b
  <2> HIDE DEF a, b
  <2> QED
    BY <1>5, <1>6, <1>7, SeqEqual
<1> QED
  BY <1>8 DEF Slice, t

LEMMA TakeOfTake ==
  ASSUME NEW s \in Seq(Byte), NEW n \in 0 .. Len(s), NEW m \in 0 .. n
  PROVE  Take(Take(s, n), m) = Take(s, m)
<1>1. Slice(Take(s, n), 0, m) = Slice(s, 0, m)
  BY LenProperties, SliceOfTake
<1> QED
  BY <1>1 DEF Slice, Take

-----------------------------------------------------------------------------
(* Offsets                                                                 *)

\* A slice in the middle.
LEMMA MiddleRead ==
  ASSUME NEW p \in Seq(Byte), NEW m \in Seq(Byte), NEW t \in Seq(Byte)
  PROVE  Slice(p \o (m \o t), Len(p), Len(m)) = m
<1> DEFINE tail == m \o t
<1>1. tail \in Seq(Byte) /\ Len(tail) = Len(m) + Len(t)
  BY BytesJoin
<1>2. Len(p) \in Nat /\ Len(m) \in Nat /\ Len(t) \in Nat
  BY LenProperties
<1>3. Slice(tail, 0, Len(m)) = m
  <2>1. Take(tail, Len(m)) = m
    BY BytesPart
  <2> HIDE DEF tail
  <2> QED
    BY <1>2, <2>1 DEF Slice, Take
<1> HIDE DEF tail
<1>4. Slice(p \o tail, Len(p), Len(m)) = Slice(tail, Len(p) - Len(p), Len(m))
  <2>1. Len(p) >= Len(p) /\ Len(p) + Len(m) <= Len(p) + Len(tail)
    BY <1>1, <1>2
  <2> QED
    BY <1>1, <1>2, <2>1, SliceOfConcat
<1>5. Len(p) - Len(p) = 0
  BY <1>2
<1> QED
  BY <1>3, <1>4, <1>5 DEF tail

LEMMA TagWritten ==
  ASSUME NEW b \in {0, 1}
  PROVE  /\ ToBytes(b, 1) = <<b>> /\ <<b>> \in Seq(Byte) /\ Len(<<b>>) = 1
         /\ ValueFits(b, 1)
<1>1. b \in Nat /\ b \in 0 .. 255
  OBVIOUS
<1>2. ValueFits(b, 1)
  BY <1>1, ByteFits DEF ValueFits
<1>3. b \notin Symbol
  BY <1>1, SymbolAssumption
<1>4. ToBytes(b, 1) = LittleEndian(b, 1)
  BY <1>3 DEF ToBytes
<1>5. LittleEndian(b, 1) = [i \in 1 .. 1 |-> Quotients(b, 1)[i - 1] % 256]
  BY DEF LittleEndian
<1>6. Quotients(b, 1)[0] = b
  BY <1>1, QuotientsStep DEF Divided
<1>7. [i \in 1 .. 1 |-> Quotients(b, 1)[i - 1] % 256] = <<b>>
  BY <1>6
<1>8. <<b>> \in Seq(Byte) /\ Len(<<b>>) = 1
  BY DEF Byte
<1> QED
  BY <1>2, <1>4, <1>5, <1>7, <1>8

LEMMA TagRead ==
  ASSUME NEW b \in {0, 1}
  PROVE  FromBytes(<<b>>) = b
<1>1. ValueFits(b, 1) /\ ToBytes(b, 1) = <<b>>
  BY TagWritten
<1>2. FromBytes(ToBytes(b, 1)) = b
  BY <1>1, ValueReadBack
<1> QED
  BY <1>1, <1>2

\* The fields behind the i-th one begin at the offset.
Reached(bytes, offset, i, k, values, rest) ==
  \E p \in Seq(Byte) :
    Len(p) = offset /\ bytes = p \o (Encodings(Fields(k), values)[i] \o rest)

LEMMA ReachedFirst ==
  ASSUME NEW k \in Kind, NEW values, IsRecord(k, values), NEW rest \in Seq(Byte)
  PROVE  Reached(Encode(k, values) \o rest, 0, 0, k, values, rest)
<1> DEFINE front == Encode(k, values)
<1>1. front \in Seq(Byte)
  BY RecordLength
<1>2. front = Encodings(Fields(k), values)[0]
  BY DEF Encode
<1> HIDE DEF front
<1>3. front \o rest \in Seq(Byte)
  BY <1>1, BytesJoin
<1>4. <<>> \o (front \o rest) = front \o rest
  BY <1>3, ConcatEmptySeq
<1>5. <<>> \in Seq(Byte) /\ Len(<<>>) = 0
  OBVIOUS
<1> QED
  BY <1>2, <1>4, <1>5, Zenon DEF Reached, front

\* What is read at the offset of a field is its value: behind the tag, if the
\* field is optional and the tag 1.
LEMMA FieldAt ==
  ASSUME NEW k \in Kind, NEW values, IsRecord(k, values), NEW rest \in Seq(Byte),
         NEW bytes, NEW offset \in Nat, NEW i \in 0 .. Len(Fields(k)) - 1,
         Reached(bytes, offset, i, k, values, rest)
  PROVE  LET field == Fields(k)[i + 1]
             v == values[i + 1]
         IN  /\ field.tag = 0 =>
                  /\ FromBytes(Slice(bytes, offset, field.width)) = v
                  /\ Reached(bytes, offset + field.width, i + 1, k, values, rest)
             /\ field.tag = 1 /\ v = None => FromBytes(Slice(bytes, offset, 1)) = 0
             /\ field.tag = 1 /\ v # None =>
                  /\ FromBytes(Slice(bytes, offset, 1)) = 1
                  /\ FromBytes(Slice(bytes, offset + 1, field.width)) = v
<1> DEFINE n == Len(Fields(k))
           field == Fields(k)[i + 1]
           v == values[i + 1]
           after == Encodings(Fields(k), values)
           first == EncodeField(field, v)
           tail == after[i + 1] \o rest
<1>1. n \in Nat /\ IsLayout(Fields(k), n) /\ RecordFits(Fields(k), n, values)
  BY FieldsAreLayouts DEF IsRecord
<1>2. WrittenAfter(after, n, Fields(k), values)
  <2> HIDE DEF n
  <2> QED
    BY <1>1, EncodingsStep
<1>3. i \in 0 .. n - 1 /\ i + 1 \in 1 .. n /\ i + 1 \in 0 .. n
  BY <1>1
<1>4. field \in FieldType /\ FieldFits(field, v)
  <2> HIDE DEF n
  <2> QED
    BY <1>1, <1>3 DEF IsLayout, RecordFits
<1>5. after[i + 1] \in Seq(Byte) /\ after[i] = first \o after[i + 1]
  <2> HIDE DEF n, after
  <2>1. after[i + 1] \in Seq(Byte)
    BY <1>2, <1>3 DEF WrittenAfter
  <2>2. after[i] = EncodeField(Fields(k)[i + 1], values[i + 1]) \o after[i + 1]
    BY <1>2, <1>3, Zenon DEF WrittenAfter
  <2> QED
    BY <2>1, <2>2
<1>6. PICK p \in Seq(Byte) : Len(p) = offset /\ bytes = p \o (after[i] \o rest)
  BY DEF Reached
<1>7. first \in Seq(Byte)
  BY <1>4, FieldWritten
<1> HIDE DEF n, first, after
<1>8. tail \in Seq(Byte)
  BY <1>5, BytesJoin
<1>9. bytes = p \o (first \o tail)
  <2>1. (first \o after[i + 1]) \o rest = first \o (after[i + 1] \o rest)
    BY <1>5, <1>7, BytesAssociate
  <2> QED
    BY <1>5, <1>6, <2>1, Zenon
<1>10. ASSUME field.tag = 0
       PROVE  /\ FromBytes(Slice(bytes, offset, field.width)) = v
              /\ Reached(bytes, offset + field.width, i + 1, k, values, rest)
  <2>1. field.width \in Nat \ {0}
    BY <1>4 DEF FieldType
  <2>2. first = ToBytes(v, field.width) /\ ValueFits(v, field.width)
    BY <1>4, <1>10 DEF first, EncodeField, FieldFits
  <2>3. Len(first) = field.width /\ FromBytes(first) = v
    BY <2>1, <2>2, ValueWritten, ValueReadBack DEF ValueFits
  <2>4. Slice(p \o (first \o tail), Len(p), Len(first)) = first
    <3> HIDE DEF tail
    <3> QED
      BY <1>7, <1>8, MiddleRead
  <2>5. Slice(bytes, offset, field.width) = first
    BY <1>6, <1>9, <2>3, <2>4, Zenon
  <2>6. p \o first \in Seq(Byte) /\ Len(p \o first) = offset + field.width
    <3>1. p \o first \in Seq(Byte) /\ Len(p \o first) = Len(p) + Len(first)
      BY <1>7, BytesJoin
    <3> QED
      BY <1>6, <2>3, <3>1
  <2>7. bytes = (p \o first) \o (after[i + 1] \o rest)
    <3>1. (p \o first) \o tail = p \o (first \o tail)
      <4> HIDE DEF tail
      <4> QED
        BY <1>7, <1>8, BytesAssociate
    <3> QED
      BY <1>9, <3>1, Zenon
  <2>8. Reached(bytes, offset + field.width, i + 1, k, values, rest)
    <3>1. \E q \in Seq(Byte) : Len(q) = offset + field.width /\ bytes = q \o (after[i + 1] \o rest)
      BY <2>6, <2>7, Zenon
    <3> QED
      BY <3>1, Zenon DEF Reached, after
  <2>9. FromBytes(Slice(bytes, offset, field.width)) = v
    BY <2>3, <2>5, Zenon
  <2> QED
    BY <2>8, <2>9
<1>11. ASSUME field.tag = 1, v = None
       PROVE  FromBytes(Slice(bytes, offset, 1)) = 0
  <2>1. first = <<0>>
    BY <1>11 DEF first, EncodeField
  <2>2. Len(<<0>>) = 1
    OBVIOUS
  <2>3. Slice(p \o (first \o tail), Len(p), Len(first)) = first
    <3> HIDE DEF tail
    <3> QED
      BY <1>7, <1>8, MiddleRead
  <2>4. Slice(bytes, offset, 1) = <<0>>
    BY <1>6, <1>9, <2>1, <2>2, <2>3, Zenon
  <2> QED
    BY <2>4, TagRead
<1>12. ASSUME field.tag = 1, v # None
       PROVE  /\ FromBytes(Slice(bytes, offset, 1)) = 1
              /\ FromBytes(Slice(bytes, offset + 1, field.width)) = v
  <2> DEFINE value == ToBytes(v, field.width)
             one == <<1>>
             q == p \o one
  <2>1. field.width \in Nat \ {0} /\ ValueFits(v, field.width)
    BY <1>4, <1>12 DEF FieldType, FieldFits
  <2>2. first = one \o value
    BY <1>12 DEF first, EncodeField
  <2>3. value \in Seq(Byte) /\ Len(value) = field.width /\ FromBytes(value) = v
    BY <2>1, ValueWritten, ValueReadBack DEF ValueFits
  <2>4. one \in Seq(Byte) /\ Len(one) = 1 /\ FromBytes(one) = 1
    BY TagRead DEF Byte
  <2> HIDE DEF tail, value, one
  <2>5. value \o tail \in Seq(Byte)
    BY <1>8, <2>3, BytesJoin
  <2>6. (one \o value) \o tail = one \o (value \o tail)
    BY <1>8, <2>3, <2>4, BytesAssociate
  <2>7. bytes = p \o (one \o (value \o tail))
    BY <1>9, <2>2, <2>6, Zenon
  <2>8. Slice(p \o (one \o (value \o tail)), Len(p), Len(one)) = one
    BY <2>4, <2>5, MiddleRead
  <2>9. FromBytes(Slice(bytes, offset, 1)) = 1
    BY <1>6, <2>4, <2>7, <2>8, Zenon
  <2>10. q \in Seq(Byte) /\ Len(q) = offset + 1
    <3>1. p \o one \in Seq(Byte) /\ Len(p \o one) = Len(p) + Len(one)
      BY <2>4, BytesJoin
    <3> QED
      BY <1>6, <2>4, <3>1
  <2>11. bytes = q \o (value \o tail)
    <3>1. (p \o one) \o (value \o tail) = p \o (one \o (value \o tail))
      BY <2>4, <2>5, BytesAssociate
    <3> QED
      BY <2>7, <3>1, Zenon
  <2> HIDE DEF q
  <2>12. Slice(q \o (value \o tail), Len(q), Len(value)) = value
    BY <1>8, <2>3, <2>10, MiddleRead
  <2>13. FromBytes(Slice(bytes, offset + 1, field.width)) = v
    BY <2>3, <2>10, <2>11, <2>12, Zenon
  <2> QED
    BY <2>9, <2>13
<1> HIDE DEF field, v
<1> QED
  BY <1>10, <1>11, <1>12 DEF field, v

LEMMA PlainFieldAt ==
  ASSUME NEW k \in Kind, NEW values, IsRecord(k, values), NEW rest \in Seq(Byte),
         NEW bytes, NEW offset \in Nat, NEW i \in 0 .. Len(Fields(k)) - 1,
         Reached(bytes, offset, i, k, values, rest),
         NEW width \in Nat, Fields(k)[i + 1] = Field(width)
  PROVE  /\ FromBytes(Slice(bytes, offset, width)) = values[i + 1]
         /\ Reached(bytes, offset + width, i + 1, k, values, rest)
<1>1. Fields(k)[i + 1].tag = 0 /\ Fields(k)[i + 1].width = width
  BY DEF Field
<1>2. /\ FromBytes(Slice(bytes, offset, Fields(k)[i + 1].width)) = values[i + 1]
      /\ Reached(bytes, offset + Fields(k)[i + 1].width, i + 1, k, values, rest)
  BY <1>1, FieldAt
<1> QED
  BY <1>1, <1>2

LEMMA OptionalFieldAt ==
  ASSUME NEW k \in Kind, NEW values, IsRecord(k, values), NEW rest \in Seq(Byte),
         NEW bytes, NEW offset \in Nat, NEW i \in 0 .. Len(Fields(k)) - 1,
         Reached(bytes, offset, i, k, values, rest),
         NEW width \in Nat, Fields(k)[i + 1] = Optional(width)
  PROVE  values[i + 1] =
           IF FromBytes(Slice(bytes, offset, 1)) = 1
             THEN FromBytes(Slice(bytes, offset + 1, width)) ELSE None
<1>1. Optional(width).tag = 1 /\ Optional(width).width = width
  BY DEF Optional
<1>2. CASE values[i + 1] = None
  <2>1. FromBytes(Slice(bytes, offset, 1)) = 0
    BY <1>1, <1>2, FieldAt
  <2> QED
    BY <1>2, <2>1
<1>3. CASE values[i + 1] # None
  <2>1. /\ FromBytes(Slice(bytes, offset, 1)) = 1
        /\ FromBytes(Slice(bytes, offset + 1, width)) = values[i + 1]
    BY <1>1, <1>3, FieldAt
  <2> QED
    BY <2>1
<1> QED
  BY <1>2, <1>3

-----------------------------------------------------------------------------
(* A voter weight record that is written as a max record                   *)

\* Concatenation by its laws alone.
Cat(s, t) == s \o t

LEMMA CatLaws ==
  /\ \A s, t \in Seq(Byte) : Cat(s, t) \in Seq(Byte) /\ Len(Cat(s, t)) = Len(s) + Len(t)
  /\ \A s, t, u \in Seq(Byte) : Cat(Cat(s, t), u) = Cat(s, Cat(t, u))
  /\ \A s, t \in Seq(Byte) : Drop(Cat(s, t), Len(s)) = t
<1>1. \A s, t \in Seq(Byte) : Cat(s, t) \in Seq(Byte) /\ Len(Cat(s, t)) = Len(s) + Len(t)
  BY BytesJoin DEF Cat
<1>2. \A s, t, u \in Seq(Byte) : Cat(Cat(s, t), u) = Cat(s, Cat(t, u))
  BY BytesAssociate DEF Cat
<1>3. \A s, t \in Seq(Byte) : Drop(Cat(s, t), Len(s)) = t
  BY BytesPart, Zenon DEF Cat
<1> QED
  BY <1>1, <1>2, <1>3

LEMMA CatFour ==
  ASSUME NEW a \in Seq(Byte), NEW b \in Seq(Byte), NEW c \in Seq(Byte), NEW d \in Seq(Byte)
  PROVE  /\ Cat(a, Cat(b, Cat(c, d))) \in Seq(Byte)
         /\ Len(Cat(a, Cat(b, Cat(c, d)))) = Len(a) + (Len(b) + (Len(c) + Len(d)))
<1>1. Cat(c, d) \in Seq(Byte) /\ Len(Cat(c, d)) = Len(c) + Len(d)
  BY CatLaws, Zenon
<1>2. /\ Cat(b, Cat(c, d)) \in Seq(Byte)
      /\ Len(Cat(b, Cat(c, d))) = Len(b) + Len(Cat(c, d))
  BY <1>1, CatLaws, Zenon
<1>3. /\ Cat(a, Cat(b, Cat(c, d))) \in Seq(Byte)
      /\ Len(Cat(a, Cat(b, Cat(c, d)))) = Len(a) + Len(Cat(b, Cat(c, d)))
  BY <1>2, CatLaws, Zenon
<1> QED
  BY <1>1, <1>2, <1>3, Zenon

\* Both records begin with the discriminator, the realm and the mint.
Header(values) == ToBytes(values[1], 8) \o (ToBytes(values[2], 32) \o ToBytes(values[3], 32))

\* The bytes of the i-th field.
Part(k, values, i) == EncodeField(Fields(k)[i], values[i])

LEMMA RecordHead ==
  ASSUME NEW k \in {"VoterWeightRecord", "MaxVoterWeightRecord"}, NEW values,
         IsRecord(k, values)
  PROVE  /\ Header(values) \in Seq(Byte)
         /\ \A i \in 4 .. 6 : Part(k, values, i) \in Seq(Byte)
         /\ Encodings(Fields(k), values)[6] \in Seq(Byte)
         /\ Encode(k, values) =
              Header(values) \o (Part(k, values, 4) \o (Part(k, values, 5)
                \o (Part(k, values, 6) \o Encodings(Fields(k), values)[6])))
<1> DEFINE n == Len(Fields(k))
           after == Encodings(Fields(k), values)
           part(i) == Part(k, values, i)
<1>1. /\ n \in Nat /\ n >= 6
      /\ Fields(k)[1] = Field(8) /\ Fields(k)[2] = Field(32) /\ Fields(k)[3] = Field(32)
  <2>1. CASE k = "VoterWeightRecord"
    BY <2>1 DEF Fields
  <2>2. CASE k = "MaxVoterWeightRecord"
    BY <2>2 DEF Fields
  <2> QED
    BY <2>1, <2>2
<1>2. k \in Kind
  BY DEF Kind
<1>3. IsLayout(Fields(k), n) /\ RecordFits(Fields(k), n, values)
  BY <1>2, FieldsAreLayouts DEF IsRecord
<1>4. WrittenAfter(after, n, Fields(k), values)
  <2> HIDE DEF n
  <2> QED
    BY <1>1, <1>3, EncodingsStep
<1> HIDE DEF n, after
<1>5. \A i \in 0 .. 6 : after[i] \in Seq(Byte)
  BY <1>1, <1>4 DEF WrittenAfter
<1>6. \A i \in 1 .. 6 : part(i) \in Seq(Byte)
  <2> TAKE i \in 1 .. 6
  <2>1. i \in 1 .. n
    BY <1>1
  <2>2. Fields(k)[i] \in FieldType /\ FieldFits(Fields(k)[i], values[i])
    BY <1>3, <2>1 DEF IsLayout, RecordFits
  <2> QED
    BY <2>2, FieldWritten DEF Part
<1>7. \A i \in 0 .. 5 : after[i] = part(i + 1) \o after[i + 1]
  <2> TAKE i \in 0 .. 5
  <2>1. i \in 0 .. n - 1
    BY <1>1
  <2> QED
    BY <1>4, <2>1, Zenon DEF WrittenAfter, Part
<1>8. /\ after[0] = part(1) \o after[1] /\ after[1] = part(2) \o after[2]
      /\ after[2] = part(3) \o after[3] /\ after[3] = part(4) \o after[4]
      /\ after[4] = part(5) \o after[5] /\ after[5] = part(6) \o after[6]
  <2>1. /\ 0 \in 0 .. 5 /\ 1 \in 0 .. 5 /\ 2 \in 0 .. 5 /\ 3 \in 0 .. 5
        /\ 4 \in 0 .. 5 /\ 5 \in 0 .. 5
        /\ 0 + 1 = 1 /\ 1 + 1 = 2 /\ 2 + 1 = 3 /\ 3 + 1 = 4 /\ 4 + 1 = 5 /\ 5 + 1 = 6
    OBVIOUS
  <2> HIDE DEF part
  <2> QED
    BY <1>7, <2>1
<1>9. Header(values) = part(1) \o (part(2) \o part(3))
  <2>1. \A width : Field(width).tag = 0 /\ Field(width).width = width
    BY DEF Field
  <2>2. /\ part(1) = ToBytes(values[1], 8) /\ part(2) = ToBytes(values[2], 32)
        /\ part(3) = ToBytes(values[3], 32)
    BY <1>1, <2>1 DEF EncodeField, Part
  <2> QED
    BY <2>2 DEF Header
<1> HIDE DEF part
<1>10. /\ part(1) \in Seq(Byte) /\ part(2) \in Seq(Byte) /\ part(3) \in Seq(Byte)
       /\ after[3] \in Seq(Byte) /\ after[6] \in Seq(Byte)
  BY <1>5, <1>6
<1>11. part(2) \o part(3) \in Seq(Byte) /\ Header(values) \in Seq(Byte)
  BY <1>9, <1>10, BytesJoin
<1>12. after[0] = Header(values) \o after[3]
  <2>1. Cat(Cat(part(1), Cat(part(2), part(3))), after[3])
          = Cat(part(1), Cat(part(2), Cat(part(3), after[3])))
    <3> DEFINE p == part(1)
               q == part(2)
               m == part(3)
               rest == after[3]
    <3>1. p \in Seq(Byte) /\ q \in Seq(Byte) /\ m \in Seq(Byte) /\ rest \in Seq(Byte)
      BY <1>10
    <3> HIDE DEF p, q, m, rest
    <3>2. Cat(Cat(p, Cat(q, m)), rest) = Cat(p, Cat(q, Cat(m, rest)))
      BY <3>1, CatLaws
    <3> QED
      BY <3>2 DEF p, q, m, rest
  <2> QED
    BY <1>8, <1>9, <2>1, Zenon DEF Cat
<1>13. after[0] = Header(values) \o (part(4) \o (part(5) \o (part(6) \o after[6])))
  BY <1>8, <1>12, Zenon
<1>14. Encode(k, values) = after[0]
  BY DEF Encode, after
<1>15. \A i \in 4 .. 6 : part(i) \in Seq(Byte)
  BY <1>6
<1> QED
  BY <1>10, <1>11, <1>13, <1>14, <1>15 DEF part, after

\* What a voter weight record has where a max record has its last three fields.
LEMMA OwnerParts ==
  ASSUME NEW v, IsRecord("VoterWeightRecord", v)
  PROVE  /\ v \in [1 .. 13 -> Value]
         /\ ValueFits(v[1], 8) /\ ValueFits(v[2], 32) /\ ValueFits(v[3], 32)
         /\ ValueFits(v[4], 8) /\ ValueFits(v[5], 1)
         /\ ValueFits(v[6], 8) /\ ValueFits(v[7], 8)
         /\ Part("VoterWeightRecord", v, 4) = ToBytes(v[4], 8)
         /\ Part("VoterWeightRecord", v, 5) = ToBytes(v[5], 1)
         /\ Part("VoterWeightRecord", v, 6) = ToBytes(v[6], 8)
         /\ Part("VoterWeightRecord", v, 7) = ToBytes(v[7], 8)
<1> DEFINE k == "VoterWeightRecord"
<1>1. Fields(k) = <<Field(8), Field(32), Field(32),
                    Field(8), Field(1), Field(8), Field(8), Field(7),
                    Field(8), Optional(8), Optional(1), Optional(32), Field(8)>>
  BY DEF Fields
<1>2. \A width : Field(width).tag = 0 /\ Field(width).width = width
  BY DEF Field
<1>3. Len(Fields(k)) = 13
  BY <1>1
<1>4. /\ Fields(k)[1] = Field(8) /\ Fields(k)[2] = Field(32) /\ Fields(k)[3] = Field(32)
      /\ Fields(k)[4] = Field(8) /\ Fields(k)[5] = Field(1)
      /\ Fields(k)[6] = Field(8) /\ Fields(k)[7] = Field(8)
  BY <1>1
<1>5. v \in [1 .. 13 -> Value] /\ \A i \in 1 .. 13 : FieldFits(Fields(k)[i], v[i])
  BY <1>3 DEF IsRecord, RecordFits
<1> HIDE DEF k
<1>6. \A i \in 1 .. 13 : \A width : Fields(k)[i] = Field(width) => ValueFits(v[i], width)
  BY <1>2, <1>5 DEF FieldFits
<1>7. \A i, width : Fields(k)[i] = Field(width) => Part(k, v, i) = ToBytes(v[i], width)
  BY <1>2 DEF Part, EncodeField
<1> QED
  BY <1>4, <1>5, <1>6, <1>7 DEF k

\* Fields behind the sixth are encoded alike in records that have them in common.
LEMMA LaterFields ==
  ASSUME NEW u, NEW v, IsRecord("VoterWeightRecord", u), IsRecord("VoterWeightRecord", v),
         \A i \in 7 .. 13 : u[i] = v[i]
  PROVE  LET fields == Fields("VoterWeightRecord")
         IN  Encodings(fields, u)[6] = Encodings(fields, v)[6]
<1> DEFINE fields == Fields("VoterWeightRecord")
           a == Encodings(fields, u)
           b == Encodings(fields, v)
           Alike(i) == i >= 6 => a[i] = b[i]
           T == {i \in 0 .. 13 : Alike(i)}
<1>1. "VoterWeightRecord" \in Kind /\ Len(fields) = 13
  BY DEF Kind, Fields
<1> HIDE DEF fields
<1>2. IsLayout(fields, 13) /\ RecordFits(fields, 13, u) /\ RecordFits(fields, 13, v)
  BY <1>1, FieldsAreLayouts DEF IsRecord, fields
<1>3. WrittenAfter(a, 13, fields, u) /\ WrittenAfter(b, 13, fields, v)
  BY <1>2, EncodingsStep
<1> HIDE DEF a, b
<1>4. 13 \in T
  BY <1>3 DEF WrittenAfter
<1>5. ASSUME NEW i \in 0 .. 12, i + 1 \in T
      PROVE  i \in T
  <2>1. ASSUME i >= 6
        PROVE  a[i] = b[i]
    <3>1. u[i + 1] = v[i + 1]
      BY <2>1
    <3>2. a[i + 1] = b[i + 1]
      BY <1>5, <2>1
    <3>3. /\ i \in 0 .. 13 - 1
          /\ a[i] = EncodeField(fields[i + 1], u[i + 1]) \o a[i + 1]
          /\ b[i] = EncodeField(fields[i + 1], v[i + 1]) \o b[i + 1]
      <4>1. i \in 0 .. 13 - 1
        OBVIOUS
      <4> QED
        BY <1>3, <4>1, Zenon DEF WrittenAfter
    <3> QED
      BY <3>1, <3>2, <3>3, Zenon
  <2> QED
    BY <2>1
<1>6. 0 .. 13 \subseteq T
  <2> DEFINE n == Len(fields)
  <2> HIDE DEF T
  <2>1. n = 13 /\ n - 1 = 12
    BY <1>1
  <2>3. n \in Nat /\ n \in T
    BY <1>4, <2>1
  <2>4. \A i \in 0 .. n - 1 : i + 1 \in T => i \in T
    BY <1>5, <2>1, Zenon
  <2> HIDE DEF n
  <2>2. 0 .. n \subseteq T
    BY <2>3, <2>4, InductionDownFrom
  <2> QED
    BY <2>1, <2>2
<1>7. 6 \in T
  BY <1>6
<1> QED
  BY <1>7 DEF a, b, fields

\* A max record, if the tag of its expiry is one.
AsMax(v) ==
  <<v[1], v[2], v[3], v[4], IF v[5] = 1 THEN v[6] ELSE None, IF v[5] = 1 THEN v[7] ELSE v[6]>>

LEMMA MaxParts ==
  ASSUME NEW w, w \in [1 .. 6 -> Value],
         ValueFits(w[1], 8), ValueFits(w[2], 32), ValueFits(w[3], 32), ValueFits(w[4], 8),
         w[5] # None => ValueFits(w[5], 8), ValueFits(w[6], 8)
  PROVE  /\ IsRecord("MaxVoterWeightRecord", w)
         /\ Part("MaxVoterWeightRecord", w, 4) = ToBytes(w[4], 8)
         /\ Part("MaxVoterWeightRecord", w, 5) =
              IF w[5] = None THEN <<0>> ELSE <<1>> \o ToBytes(w[5], 8)
         /\ Part("MaxVoterWeightRecord", w, 6) = ToBytes(w[6], 8)
         /\ Encodings(Fields("MaxVoterWeightRecord"), w)[6] = <<>>
<1> DEFINE k == "MaxVoterWeightRecord"
<1>1. Fields(k) = <<Field(8), Field(32), Field(32), Field(8), Optional(8), Field(8)>>
  BY DEF Fields
<1>2. /\ \A width : Field(width).tag = 0 /\ Field(width).width = width
      /\ \A width : Optional(width).tag = 1 /\ Optional(width).width = width
  BY DEF Field, Optional
<1>3. k \in Kind /\ Len(Fields(k)) = 6
  BY <1>1 DEF Kind
<1>4. /\ Fields(k)[1] = Field(8) /\ Fields(k)[2] = Field(32) /\ Fields(k)[3] = Field(32)
      /\ Fields(k)[4] = Field(8) /\ Fields(k)[5] = Optional(8) /\ Fields(k)[6] = Field(8)
  BY <1>1
<1> HIDE DEF k
<1>5. IsRecord(k, w)
  <2>1. /\ FieldFits(Fields(k)[1], w[1]) /\ FieldFits(Fields(k)[2], w[2])
        /\ FieldFits(Fields(k)[3], w[3]) /\ FieldFits(Fields(k)[4], w[4])
        /\ FieldFits(Fields(k)[5], w[5]) /\ FieldFits(Fields(k)[6], w[6])
    BY <1>2, <1>4 DEF FieldFits
  <2>2. \A i \in 1 .. 6 : FieldFits(Fields(k)[i], w[i])
    BY <2>1
  <2> QED
    BY <1>3, <2>2 DEF IsRecord, RecordFits
<1>6. /\ Part(k, w, 4) = ToBytes(w[4], 8) /\ Part(k, w, 6) = ToBytes(w[6], 8)
      /\ Part(k, w, 5) = IF w[5] = None THEN <<0>> ELSE <<1>> \o ToBytes(w[5], 8)
  BY <1>2, <1>4 DEF Part, EncodeField
<1>7. Encodings(Fields(k), w)[6] = <<>>
  <2>1. IsLayout(Fields(k), 6) /\ RecordFits(Fields(k), 6, w)
    BY <1>3, <1>5, FieldsAreLayouts DEF IsRecord
  <2>2. WrittenAfter(Encodings(Fields(k), w), 6, Fields(k), w)
    BY <2>1, EncodingsStep
  <2> QED
    BY <2>2 DEF WrittenAfter
<1> QED
  BY <1>5, <1>6, <1>7 DEF k

LEMMA ReadAsMax ==
  ASSUME NEW v, IsRecord("VoterWeightRecord", v), v[5] \in {0, 1}, NEW rest \in Seq(Byte)
  PROVE  /\ IsRecord("MaxVoterWeightRecord", AsMax(v))
         /\ Decode("MaxVoterWeightRecord", Encode("VoterWeightRecord", v) \o rest) = AsMax(v)
<1> DEFINE w == AsMax(v)
           a == Encodings(Fields("VoterWeightRecord"), v)[6]
           h == Header(v)
           f == ToBytes(v[4], 8)
           s == ToBytes(v[6], 8)
           t == ToBytes(v[7], 8)
           tag == <<v[5]>>
<1>1. /\ v \in [1 .. 13 -> Value]
      /\ ValueFits(v[1], 8) /\ ValueFits(v[2], 32) /\ ValueFits(v[3], 32)
      /\ ValueFits(v[4], 8) /\ ValueFits(v[6], 8) /\ ValueFits(v[7], 8)
  BY OwnerParts
<1>2. \A x : ValueFits(x, 8) => x # None /\ x \in Value
  BY SymbolAssumption DEF ValueFits, Value
<1>3. /\ w \in [1 .. 6 -> Value]
      /\ w[1] = v[1] /\ w[2] = v[2] /\ w[3] = v[3] /\ w[4] = v[4]
      /\ w[5] = (IF v[5] = 1 THEN v[6] ELSE None)
      /\ w[6] = (IF v[5] = 1 THEN v[7] ELSE v[6])
  <2> DEFINE x == IF v[5] = 1 THEN v[6] ELSE None
             y == IF v[5] = 1 THEN v[7] ELSE v[6]
  <2>1. /\ v[1] \in Value /\ v[2] \in Value /\ v[3] \in Value /\ v[4] \in Value
    BY <1>1
  <2>2. x \in Value /\ y \in Value
    BY <1>1, <1>2 DEF Value
  <2>3. w = <<v[1], v[2], v[3], v[4], x, y>>
    BY DEF AsMax
  <2> HIDE DEF x, y, w
  <2>4. /\ w \in [1 .. 6 -> Value] /\ w[5] = x /\ w[6] = y
        /\ w[1] = v[1] /\ w[2] = v[2] /\ w[3] = v[3] /\ w[4] = v[4]
    BY <2>1, <2>2, <2>3
  <2> QED
    BY <2>4 DEF x, y
<1> HIDE DEF w
<1>4. w[5] # None => ValueFits(w[5], 8)
  BY <1>1, <1>3
<1>5. ValueFits(w[6], 8)
  BY <1>1, <1>3
<1>6. /\ IsRecord("MaxVoterWeightRecord", w)
      /\ Part("MaxVoterWeightRecord", w, 4) = ToBytes(w[4], 8)
      /\ Part("MaxVoterWeightRecord", w, 5) =
           IF w[5] = None THEN <<0>> ELSE <<1>> \o ToBytes(w[5], 8)
      /\ Part("MaxVoterWeightRecord", w, 6) = ToBytes(w[6], 8)
      /\ Encodings(Fields("MaxVoterWeightRecord"), w)[6] = <<>>
  BY <1>1, <1>3, <1>4, <1>5, MaxParts
<1>7. Header(w) = h
  BY <1>3 DEF Header
<1>8. /\ h \in Seq(Byte) /\ a \in Seq(Byte)
      /\ Part("VoterWeightRecord", v, 4) = f /\ Part("VoterWeightRecord", v, 6) = s
      /\ Part("VoterWeightRecord", v, 7) = t
      /\ Part("VoterWeightRecord", v, 5) = ToBytes(v[5], 1)
  BY RecordHead, OwnerParts
<1>9. ToBytes(v[5], 1) = tag /\ tag \in Seq(Byte)
  BY TagWritten
<1>10. /\ f \in Seq(Byte) /\ Len(f) = 8 /\ s \in Seq(Byte) /\ Len(s) = 8
       /\ t \in Seq(Byte) /\ Len(t) = 8
  BY <1>1, ValueWritten DEF ValueFits
<1>11. Encode("VoterWeightRecord", v) = h \o (f \o (tag \o (s \o a)))
  <2>1. Encode("VoterWeightRecord", v) =
          Header(v) \o (Part("VoterWeightRecord", v, 4) \o (Part("VoterWeightRecord", v, 5)
            \o (Part("VoterWeightRecord", v, 6)
            \o Encodings(Fields("VoterWeightRecord"), v)[6])))
    BY RecordHead
  <2> QED
    BY <1>8, <1>9, <2>1, Zenon
<1>12. Encode("MaxVoterWeightRecord", w) =
         h \o (f \o (Part("MaxVoterWeightRecord", w, 5)
           \o (Part("MaxVoterWeightRecord", w, 6) \o <<>>)))
  <2>1. Encode("MaxVoterWeightRecord", w) =
          Header(w) \o (Part("MaxVoterWeightRecord", w, 4)
            \o (Part("MaxVoterWeightRecord", w, 5) \o (Part("MaxVoterWeightRecord", w, 6)
            \o Encodings(Fields("MaxVoterWeightRecord"), w)[6])))
    BY <1>6, RecordHead
  <2>2. Part("MaxVoterWeightRecord", w, 4) = f
    BY <1>3, <1>6
  <2> QED
    BY <1>6, <1>7, <2>1, <2>2, Zenon
<1> HIDE DEF h, f, s, t, a, tag
<1>13. \E left \in Seq(Byte) :
         Encode("VoterWeightRecord", v) \o rest = Encode("MaxVoterWeightRecord", w) \o left
  <2>1. CASE v[5] = 0
    <3>1. w[5] = None /\ w[6] = v[6] /\ tag = <<0>>
      BY <1>3, <2>1 DEF tag
    <3>2. Part("MaxVoterWeightRecord", w, 5) = tag /\ Part("MaxVoterWeightRecord", w, 6) = s
      BY <1>6, <3>1 DEF s
    <3>3. s \o <<>> = s
      BY <1>10, ConcatEmptySeq
    <3>4. Encode("MaxVoterWeightRecord", w) = h \o (f \o (tag \o s))
      BY <1>12, <3>2, <3>3, Zenon
    <3>5. a \o rest \in Seq(Byte)
      BY <1>8, BytesJoin
    <3>6. (h \o (f \o (tag \o (s \o a)))) \o rest = (h \o (f \o (tag \o s))) \o (a \o rest)
      <4>1. /\ h \in Seq(Byte) /\ f \in Seq(Byte) /\ tag \in Seq(Byte)
            /\ s \in Seq(Byte) /\ a \in Seq(Byte)
        BY <1>8, <1>9, <1>10
      <4> QED
        <5>1. Cat(Cat(h, Cat(f, Cat(tag, Cat(s, a)))), rest)
                = Cat(Cat(h, Cat(f, Cat(tag, s))), Cat(a, rest))
          BY <4>1, CatLaws
        <5> QED
          BY <5>1, Zenon DEF Cat
    <3>7. Encode("VoterWeightRecord", v) \o rest = Encode("MaxVoterWeightRecord", w) \o (a \o rest)
      BY <1>11, <3>4, <3>6, Zenon
    <3> QED
      BY <3>5, <3>7, Zenon
  <2>2. CASE v[5] = 1
    <3> DEFINE b == Encodings(Fields("VoterWeightRecord"), v)[7]
    <3>1. a = t \o b /\ b \in Seq(Byte)
      <4>1. "VoterWeightRecord" \in Kind /\ Len(Fields("VoterWeightRecord")) = 13
        BY DEF Kind, Fields
      <4>2. WrittenAfter(Encodings(Fields("VoterWeightRecord"), v), 13,
                         Fields("VoterWeightRecord"), v)
        BY <4>1, FieldsAreLayouts, EncodingsStep DEF IsRecord
      <4>3. 6 \in 0 .. 13 - 1 /\ 7 \in 0 .. 13 /\ 6 + 1 = 7
        OBVIOUS
      <4>4. /\ Encodings(Fields("VoterWeightRecord"), v)[6] =
                 EncodeField(Fields("VoterWeightRecord")[6 + 1], v[6 + 1])
                   \o Encodings(Fields("VoterWeightRecord"), v)[6 + 1]
            /\ Encodings(Fields("VoterWeightRecord"), v)[7] \in Seq(Byte)
        BY <4>2, <4>3, Zenon DEF WrittenAfter
      <4> QED
        BY <1>8, <4>3, <4>4, Zenon DEF a, Part
    <3> HIDE DEF b
    <3>2. w[5] = v[6] /\ w[6] = v[7] /\ w[5] # None /\ tag = <<1>>
      BY <1>1, <1>2, <1>3, <2>2 DEF tag
    <3>3. Part("MaxVoterWeightRecord", w, 5) = tag \o s /\ Part("MaxVoterWeightRecord", w, 6) = t
      BY <1>6, <3>2 DEF s, t
    <3>4. t \o <<>> = t
      BY <1>10, ConcatEmptySeq
    <3>5. Encode("MaxVoterWeightRecord", w) = h \o (f \o ((tag \o s) \o t))
      BY <1>12, <3>3, <3>4, Zenon
    <3>6. b \o rest \in Seq(Byte)
      BY <3>1, BytesJoin
    <3>7. (h \o (f \o (tag \o (s \o (t \o b))))) \o rest
            = (h \o (f \o ((tag \o s) \o t))) \o (b \o rest)
      <4>1. /\ h \in Seq(Byte) /\ f \in Seq(Byte) /\ tag \in Seq(Byte)
            /\ s \in Seq(Byte) /\ t \in Seq(Byte) /\ b \in Seq(Byte)
        BY <1>8, <1>9, <1>10, <3>1
      <4> QED
        <5>1. Cat(Cat(h, Cat(f, Cat(tag, Cat(s, Cat(t, b))))), rest)
                = Cat(Cat(h, Cat(f, Cat(Cat(tag, s), t))), Cat(b, rest))
          <6> DEFINE ts == Cat(tag, s)
                     tb == Cat(t, b)
          <6>1. ts \in Seq(Byte) /\ tb \in Seq(Byte)
            BY <4>1, CatLaws
          <6> HIDE DEF tb
          <6>2. Cat(Cat(tag, s), tb) = Cat(tag, Cat(s, tb))
            BY <4>1, <6>1, CatLaws
          <6> HIDE DEF ts
          <6>3. Cat(Cat(h, Cat(f, Cat(ts, Cat(t, b)))), rest)
                  = Cat(Cat(h, Cat(f, Cat(ts, t))), Cat(b, rest))
            BY <4>1, <6>1, CatLaws
          <6> QED
            BY <6>2, <6>3, Zenon DEF ts, tb
        <5> QED
          BY <5>1, Zenon DEF Cat
    <3>8. Encode("VoterWeightRecord", v) \o rest
            = Encode("MaxVoterWeightRecord", w) \o (b \o rest)
      BY <1>11, <3>1, <3>5, <3>7, Zenon
    <3> QED
      BY <3>6, <3>8, Zenon
  <2> QED
    BY <2>1, <2>2
<1>14. PICK left \in Seq(Byte) :
         Encode("VoterWeightRecord", v) \o rest = Encode("MaxVoterWeightRecord", w) \o left
  BY <1>13
<1>15. Decode("MaxVoterWeightRecord", Encode("MaxVoterWeightRecord", w) \o left) = w
  BY <1>6, RecordReadBack DEF Kind
<1>16. Decode("MaxVoterWeightRecord", Encode("VoterWeightRecord", v) \o rest) = w
  BY <1>14, <1>15, Zenon
<1> QED
  BY <1>6, <1>16 DEF w

\* What the update of a max record writes over it is the voter weight record with
\* another owner.
LEMMA WrittenAsMax ==
  ASSUME NEW v, IsRecord("VoterWeightRecord", v), v[5] \in {0, 1}, NEW rest \in Seq(Byte),
         NEW weight \in Number64,
         NEW w, w \in [1 .. 6 -> Value], w[1] = v[1], w[2] = v[2], w[3] = v[3],
         w[4] = weight, w[5] = None, w[6] = AsMax(v)[6]
  PROVE  /\ IsRecord("VoterWeightRecord", OwnerReplaced(v, weight))
         /\ Encode("MaxVoterWeightRecord", w) \in Seq(Byte)
         /\ WriteOver(Encode("VoterWeightRecord", v) \o rest, Encode("MaxVoterWeightRecord", w))
              = Encode("VoterWeightRecord", OwnerReplaced(v, weight)) \o rest
<1> DEFINE u == OwnerReplaced(v, weight)
           x == IF v[5] = 1 THEN v[7] ELSE v[6]
           a == Encodings(Fields("VoterWeightRecord"), v)[6]
           h == Header(v)
           f == ToBytes(v[4], 8)
           s == ToBytes(v[6], 8)
           tag == <<v[5]>>
           g == ToBytes(weight, 8)
           z == ToBytes(x, 8)
           none == <<0>>
<1>1. /\ v \in [1 .. 13 -> Value]
      /\ ValueFits(v[1], 8) /\ ValueFits(v[2], 32) /\ ValueFits(v[3], 32)
      /\ ValueFits(v[4], 8) /\ ValueFits(v[6], 8) /\ ValueFits(v[7], 8)
  BY OwnerParts
<1>2. ValueFits(x, 8) /\ ValueFits(weight, 8) /\ ValueFits(0, 1)
  <2>1. ValueFits(weight, 8)
    BY NumbersFit DEF ValueFits
  <2> QED
    BY <1>1, <2>1, TagWritten
<1>3. w[6] = x
  BY DEF AsMax
<1> HIDE DEF x
<1>4. /\ u \in [1 .. 13 -> Value] /\ u[4] = weight /\ u[5] = 0 /\ u[6] = x
      /\ \A i \in 1 .. 13 : i \notin 4 .. 6 => u[i] = v[i]
  <2>1. u = [v EXCEPT ![4] = weight, ![5] = 0, ![6] = x]
    BY Zenon DEF OwnerReplaced, x
  <2>2. weight \in Value /\ 0 \in Value /\ x \in Value
    BY <1>2 DEF ValueFits, Value
  <2> HIDE DEF u
  <2> QED
    BY <1>1, <2>1, <2>2
<1> HIDE DEF u
<1>5. IsRecord("VoterWeightRecord", u)
  <2> DEFINE fields == Fields("VoterWeightRecord")
  <2>1. Len(fields) = 13 /\ \A i \in 1 .. 13 : FieldFits(fields[i], v[i])
    <3>1. Len(fields) = 13
      BY DEF Fields
    <3> QED
      BY <3>1 DEF IsRecord, RecordFits
  <2>2. fields[4] = Field(8) /\ fields[5] = Field(1) /\ fields[6] = Field(8)
    BY DEF Fields
  <2>3. FieldFits(fields[4], u[4]) /\ FieldFits(fields[5], u[5]) /\ FieldFits(fields[6], u[6])
    BY <1>2, <1>4, <2>2 DEF FieldFits, Field
  <2> HIDE DEF fields
  <2>4. \A i \in 1 .. 13 : FieldFits(fields[i], u[i])
    <3> TAKE i \in 1 .. 13
    <3>1. i \in 4 .. 6 => i = 4 \/ i = 5 \/ i = 6
      OBVIOUS
    <3> QED
      BY <1>4, <2>1, <2>3, <3>1
  <2> QED
    BY <1>4, <2>1, <2>4 DEF IsRecord, RecordFits, fields
<1>6. /\ h \in Seq(Byte) /\ a \in Seq(Byte)
      /\ f \in Seq(Byte) /\ Len(f) = 8 /\ s \in Seq(Byte) /\ Len(s) = 8
      /\ g \in Seq(Byte) /\ Len(g) = 8 /\ z \in Seq(Byte) /\ Len(z) = 8
      /\ tag \in Seq(Byte) /\ Len(tag) = 1 /\ none \in Seq(Byte) /\ Len(none) = 1
  <2>1. h \in Seq(Byte) /\ a \in Seq(Byte)
    BY RecordHead
  <2>2. \A y : ValueFits(y, 8) => ToBytes(y, 8) \in Seq(Byte) /\ Len(ToBytes(y, 8)) = 8
    BY ValueWritten DEF ValueFits
  <2>3. /\ tag \in Seq(Byte) /\ Len(tag) = 1 /\ none \in Seq(Byte) /\ Len(none) = 1
    BY TagWritten
  <2> QED
    BY <1>1, <1>2, <2>1, <2>2, <2>3
<1>7. Encode("VoterWeightRecord", v) = h \o (f \o (tag \o (s \o a)))
  <2>1. Encode("VoterWeightRecord", v) =
          Header(v) \o (Part("VoterWeightRecord", v, 4) \o (Part("VoterWeightRecord", v, 5)
            \o (Part("VoterWeightRecord", v, 6)
            \o Encodings(Fields("VoterWeightRecord"), v)[6])))
    BY RecordHead
  <2>2. /\ Part("VoterWeightRecord", v, 4) = f /\ Part("VoterWeightRecord", v, 6) = s
        /\ Part("VoterWeightRecord", v, 5) = tag
    BY OwnerParts, TagWritten
  <2> QED
    BY <2>1, <2>2, Zenon
<1>8. Encode("VoterWeightRecord", u) = h \o (g \o (none \o (z \o a)))
  <2>1. Encode("VoterWeightRecord", u) =
          Header(u) \o (Part("VoterWeightRecord", u, 4) \o (Part("VoterWeightRecord", u, 5)
            \o (Part("VoterWeightRecord", u, 6)
            \o Encodings(Fields("VoterWeightRecord"), u)[6])))
    BY <1>5, RecordHead
  <2>2. /\ Part("VoterWeightRecord", u, 4) = ToBytes(u[4], 8)
        /\ Part("VoterWeightRecord", u, 5) = ToBytes(u[5], 1)
        /\ Part("VoterWeightRecord", u, 6) = ToBytes(u[6], 8)
    BY <1>5, OwnerParts
  <2>3. /\ Part("VoterWeightRecord", u, 4) = g /\ Part("VoterWeightRecord", u, 6) = z
        /\ Part("VoterWeightRecord", u, 5) = none
    BY <1>4, <2>2, TagWritten
  <2>4. Encodings(Fields("VoterWeightRecord"), u)[6] = a
    <3>1. \A i \in 7 .. 13 : u[i] = v[i]
      BY <1>4
    <3> QED
      BY <1>5, <3>1, LaterFields
  <2>5. Header(u) = h
    <3>1. u[1] = v[1] /\ u[2] = v[2] /\ u[3] = v[3]
      BY <1>4
    <3> QED
      BY <3>1, Zenon DEF Header
  <2> QED
    BY <2>1, <2>3, <2>4, <2>5, Zenon
<1>9. Encode("MaxVoterWeightRecord", w) = h \o (g \o (none \o z))
  <2>1. /\ IsRecord("MaxVoterWeightRecord", w)
        /\ Part("MaxVoterWeightRecord", w, 4) = ToBytes(w[4], 8)
        /\ Part("MaxVoterWeightRecord", w, 5) =
             IF w[5] = None THEN <<0>> ELSE <<1>> \o ToBytes(w[5], 8)
        /\ Part("MaxVoterWeightRecord", w, 6) = ToBytes(w[6], 8)
        /\ Encodings(Fields("MaxVoterWeightRecord"), w)[6] = <<>>
    BY <1>1, <1>2, <1>3, MaxParts
  <2>2. Encode("MaxVoterWeightRecord", w) =
          Header(w) \o (Part("MaxVoterWeightRecord", w, 4)
            \o (Part("MaxVoterWeightRecord", w, 5) \o (Part("MaxVoterWeightRecord", w, 6)
            \o Encodings(Fields("MaxVoterWeightRecord"), w)[6])))
    BY <2>1, RecordHead
  <2>3. Header(w) = h
    BY Zenon DEF Header
  <2>4. /\ Part("MaxVoterWeightRecord", w, 4) = g /\ Part("MaxVoterWeightRecord", w, 6) = z
        /\ Part("MaxVoterWeightRecord", w, 5) = none
    BY <1>3, <2>1
  <2>5. z \o <<>> = z
    BY <1>6, ConcatEmptySeq
  <2> QED
    BY <2>1, <2>2, <2>3, <2>4, <2>5, Zenon
<1> HIDE DEF h, f, s, a, tag, g, z, none
<1> DEFINE old == h \o (f \o (tag \o s))
           front == h \o (g \o (none \o z))
           left == a \o rest
<1>10. left \in Seq(Byte)
  BY <1>6, BytesJoin
<1>20. /\ h \in Seq(Byte) /\ f \in Seq(Byte) /\ tag \in Seq(Byte) /\ s \in Seq(Byte)
       /\ g \in Seq(Byte) /\ none \in Seq(Byte) /\ z \in Seq(Byte) /\ a \in Seq(Byte)
  BY <1>6
<1>11. old \in Seq(Byte) /\ Len(old) = Len(h) + (Len(f) + (Len(tag) + Len(s)))
  <2>1. /\ Cat(h, Cat(f, Cat(tag, s))) \in Seq(Byte)
        /\ Len(Cat(h, Cat(f, Cat(tag, s)))) = Len(h) + (Len(f) + (Len(tag) + Len(s)))
    BY <1>20, CatFour
  <2> QED
    BY <2>1, Zenon DEF Cat
<1>12. front \in Seq(Byte) /\ Len(front) = Len(h) + (Len(g) + (Len(none) + Len(z)))
  <2>1. /\ Cat(h, Cat(g, Cat(none, z))) \in Seq(Byte)
        /\ Len(Cat(h, Cat(g, Cat(none, z)))) = Len(h) + (Len(g) + (Len(none) + Len(z)))
    BY <1>20, CatFour
  <2> QED
    BY <2>1, Zenon DEF Cat
<1>13. Len(front) = Len(old)
  <2> HIDE DEF front, old
  <2> QED
    BY <1>6, <1>11, <1>12, Zenon
<1>14. Encode("VoterWeightRecord", v) \o rest = old \o left
  <2>1. (h \o (f \o (tag \o (s \o a)))) \o rest = (h \o (f \o (tag \o s))) \o (a \o rest)
    <3>1. Cat(Cat(h, Cat(f, Cat(tag, Cat(s, a)))), rest)
            = Cat(Cat(h, Cat(f, Cat(tag, s))), Cat(a, rest))
      BY <1>20, CatLaws
    <3> QED
      BY <3>1, Zenon DEF Cat
  <2> QED
    BY <1>7, <2>1, Zenon
<1>15. Encode("VoterWeightRecord", u) \o rest = front \o left
  <2>1. (h \o (g \o (none \o (z \o a)))) \o rest = (h \o (g \o (none \o z))) \o (a \o rest)
    <3>1. Cat(Cat(h, Cat(g, Cat(none, Cat(z, a)))), rest)
            = Cat(Cat(h, Cat(g, Cat(none, z))), Cat(a, rest))
      BY <1>20, CatLaws
    <3> QED
      BY <3>1, Zenon DEF Cat
  <2> QED
    BY <1>8, <2>1, Zenon
<1>16. Encode("MaxVoterWeightRecord", w) = front
  BY <1>9
<1> HIDE DEF old, front, left
<1>17. Drop(old \o left, Len(old)) = left
  BY <1>10, <1>11, BytesPart
<1>18. WriteOver(old \o left, front) = front \o left
  BY <1>13, <1>17, Zenon DEF WriteOver
<1>19. WriteOver(Encode("VoterWeightRecord", v) \o rest, Encode("MaxVoterWeightRecord", w))
         = Encode("VoterWeightRecord", u) \o rest
  BY <1>14, <1>15, <1>16, <1>18, Zenon
<1> QED
  BY <1>5, <1>12, <1>16, <1>19 DEF u

\* The tag that Borsh accepts is the byte of the owner.
LEMMA OwnerTagRead ==
  ASSUME NEW v, IsRecord("VoterWeightRecord", v), NEW rest \in Seq(Byte),
         Readable("MaxVoterWeightRecord", Encode("VoterWeightRecord", v) \o rest)
  PROVE  v[5] \in {0, 1}
<1> DEFINE bytes == Encode("VoterWeightRecord", v) \o rest
           fields == Fields("MaxVoterWeightRecord")
           left == Buffers(fields, bytes)
           a == Encodings(Fields("VoterWeightRecord"), v)[6]
           h1 == ToBytes(v[1], 8)
           h2 == ToBytes(v[2], 32)
           h3 == ToBytes(v[3], 32)
           f == ToBytes(v[4], 8)
           tag == ToBytes(v[5], 1)
           s == ToBytes(v[6], 8)
           behind == tag \o ((s \o a) \o rest)
<1>1. /\ Len(fields) = 6 /\ "MaxVoterWeightRecord" \in Kind
      /\ fields[1] = Field(8) /\ fields[2] = Field(32) /\ fields[3] = Field(32)
      /\ fields[4] = Field(8) /\ fields[5] = Optional(8)
  BY DEF Fields, Kind
<1>2. /\ h1 \in Seq(Byte) /\ Len(h1) = 8 /\ h2 \in Seq(Byte) /\ Len(h2) = 32
      /\ h3 \in Seq(Byte) /\ Len(h3) = 32 /\ f \in Seq(Byte) /\ Len(f) = 8
      /\ tag \in Seq(Byte) /\ Len(tag) = 1 /\ s \in Seq(Byte) /\ a \in Seq(Byte)
  BY OwnerParts, RecordHead, ValueWritten DEF ValueFits
<1>3. ValueFits(v[5], 1)
  BY OwnerParts
<1>4. Encode("VoterWeightRecord", v) = Header(v) \o (f \o (tag \o (s \o a)))
  <2>1. Encode("VoterWeightRecord", v) =
          Header(v) \o (Part("VoterWeightRecord", v, 4) \o (Part("VoterWeightRecord", v, 5)
            \o (Part("VoterWeightRecord", v, 6)
            \o Encodings(Fields("VoterWeightRecord"), v)[6])))
    BY RecordHead
  <2> QED
    BY <2>1, OwnerParts, Zenon
<1>5. Header(v) = h1 \o (h2 \o h3)
  BY DEF Header
<1> HIDE DEF h1, h2, h3, f, tag, s, a, fields
<1> DEFINE sa == s \o a
           hh == h2 \o h3
           tail == f \o behind
           third == h3 \o tail
           second == h2 \o third
<1>6. sa \in Seq(Byte) /\ hh \in Seq(Byte)
  BY <1>2, BytesJoin
<1>7. Header(v) \in Seq(Byte)
  BY RecordHead
<1>8. (Header(v) \o (f \o (tag \o sa))) \o rest = Header(v) \o (f \o (tag \o (sa \o rest)))
  <2>1. f \in Seq(Byte) /\ tag \in Seq(Byte)
    BY <1>2
  <2> HIDE DEF sa
  <2>2. Cat(Cat(Header(v), Cat(f, Cat(tag, sa))), rest)
          = Cat(Header(v), Cat(f, Cat(tag, Cat(sa, rest))))
    BY <1>6, <1>7, <2>1, CatLaws
  <2> QED
    BY <2>2, Zenon DEF Cat
<1>9. bytes = Header(v) \o tail
  BY <1>4, <1>8, Zenon
<1>10. behind \in Seq(Byte)
  <2> HIDE DEF sa
  <2>1. sa \o rest \in Seq(Byte)
    BY <1>6, BytesJoin
  <2> DEFINE u == sa \o rest
  <2> HIDE DEF u
  <2>2. tag \o u \in Seq(Byte)
    BY <1>2, <2>1, BytesJoin DEF u
  <2> QED
    BY <2>2, Zenon DEF u, sa
<1> HIDE DEF behind, bytes, sa
<1>11. tail \in Seq(Byte)
  BY <1>2, <1>10, BytesJoin
<1> HIDE DEF tail
<1>12. third \in Seq(Byte)
  BY <1>2, <1>11, BytesJoin
<1> HIDE DEF third
<1>20. second \in Seq(Byte)
  BY <1>2, <1>12, BytesJoin
<1>21. bytes = h1 \o second
  <2>1. h1 \in Seq(Byte) /\ h2 \in Seq(Byte) /\ h3 \in Seq(Byte)
    BY <1>2
  <2>2. Cat(Cat(h1, Cat(h2, h3)), tail) = Cat(h1, Cat(h2, Cat(h3, tail)))
    BY <1>11, <2>1, CatLaws
  <2> QED
    BY <1>5, <1>9, <2>2, Zenon DEF third, Cat
<1> HIDE DEF second, hh
<1>13. bytes \in Seq(Byte)
  BY <1>2, <1>20, <1>21, BytesJoin
<1>14. LeftAfter(left, 6, fields, bytes)
  <2>1. IsLayout(fields, 6)
    BY <1>1, FieldsAreLayouts DEF fields
  <2> QED
    BY <1>13, <2>1, BuffersStep
<1>15. Readable("MaxVoterWeightRecord", bytes)
  BY DEF bytes
<1>16. left[4][1] \in {0, 1}
  <2>1. /\ \A i \in 1 .. Len(fields) : fields[i].tag = 1 => left[i - 1][1] \in {0, 1}
    BY <1>15, Zenon DEF Readable, fields
  <2>2. fields[5].tag = 1 /\ 5 \in 1 .. Len(fields) /\ 5 - 1 = 4
    BY <1>1 DEF Optional
  <2> HIDE DEF left
  <2> QED
    BY <2>1, <2>2
<1> HIDE DEF left
<1>17. \A width \in Nat : \A x : LengthOf(Field(width), x) = width
  <2>1. \A width : Field(width).tag = 0 /\ Field(width).width = width
    BY DEF Field
  <2>2. \A width \in Nat : 0 + width = width
    OBVIOUS
  <2> QED
    BY <2>1, <2>2 DEF LengthOf
<1>18. /\ left[0] = bytes
       /\ left[1] = Drop(left[0], 8) /\ left[2] = Drop(left[1], 32)
       /\ left[3] = Drop(left[2], 32) /\ left[4] = Drop(left[3], 8)
  <2>1. \A i \in 1 .. 6 : left[i] = Drop(left[i - 1], LengthOf(fields[i], left[i - 1]))
    BY <1>14 DEF LeftAfter
  <2>2. /\ 1 \in 1 .. 6 /\ 2 \in 1 .. 6 /\ 3 \in 1 .. 6 /\ 4 \in 1 .. 6
        /\ 1 - 1 = 0 /\ 2 - 1 = 1 /\ 3 - 1 = 2 /\ 4 - 1 = 3
    OBVIOUS
  <2>3. /\ left[1] = Drop(left[0], LengthOf(fields[1], left[0]))
        /\ left[2] = Drop(left[1], LengthOf(fields[2], left[1]))
        /\ left[3] = Drop(left[2], LengthOf(fields[3], left[2]))
        /\ left[4] = Drop(left[3], LengthOf(fields[4], left[3]))
    BY <2>1, <2>2
  <2>4. left[0] = bytes
    BY <1>14 DEF LeftAfter
  <2>5. /\ \A x : LengthOf(Field(8), x) = 8
        /\ \A x : LengthOf(Field(32), x) = 32
    BY <1>17
  <2> QED
    BY <1>1, <2>3, <2>4, <2>5, Zenon
<1>19. left[4] = behind
  <2>1. Drop(Cat(h1, second), 8) = second
    <3>1. h1 \in Seq(Byte) /\ Len(h1) = 8
      BY <1>2
    <3> QED
      BY <1>20, <3>1, CatLaws, Zenon
  <2>2. Drop(Cat(h2, third), 32) = third
    <3>1. h2 \in Seq(Byte) /\ Len(h2) = 32
      BY <1>2
    <3> QED
      BY <1>12, <3>1, CatLaws, Zenon
  <2>3. Drop(Cat(h3, tail), 32) = tail
    BY <1>2, <1>11, CatLaws, Zenon
  <2>4. Drop(Cat(f, behind), 8) = behind
    BY <1>2, <1>10, CatLaws, Zenon
  <2> QED
    BY <1>18, <1>21, <2>1, <2>2, <2>3, <2>4, Zenon DEF second, third, tail, Cat
<1>22. behind[1] = tag[1]
  <2> DEFINE u == sa \o rest
  <2>1. u \in Seq(Byte)
    BY <1>6, BytesJoin
  <2> HIDE DEF u
  <2>2. (tag \o u)[1] = tag[1]
    <3>1. tag \in Seq(Byte) /\ Len(tag) = 1 /\ Len(u) \in Nat
      BY <1>2, <2>1, LenProperties
    <3>2. \A i \in 1 .. Len(tag) + Len(u) :
            (tag \o u)[i] = IF i <= Len(tag) THEN tag[i] ELSE u[i - Len(tag)]
      BY <2>1, <3>1, ConcatProperties
    <3> QED
      BY <3>1, <3>2
  <2> QED
    BY <2>2, Zenon DEF behind, u, sa
<1>23. tag[1] \in {0, 1}
  BY <1>16, <1>19, <1>22
<1>24. tag = <<tag[1]>>
  BY <1>2
<1>25. FromBytes(<<tag[1]>>) = tag[1]
  BY <1>23, TagRead
<1>26. FromBytes(tag) = v[5]
  BY <1>3, ValueReadBack DEF tag
<1>27. v[5] = tag[1]
  BY <1>24, <1>25, <1>26, Zenon
<1> QED
  BY <1>23, <1>27

-----------------------------------------------------------------------------
(* The inductive invariant                                                 *)

\* The record is at the front of the data: writing it again changes nothing.
Written == data = WriteOver(data, Encode(kind, record))

\* An identity account may be too short for its record; the accounts of the
\* program have the space their type asks for, from the first write on.
LayoutInv ==
  /\ kind \in Kind
  /\ data \in Seq(Byte)
  /\ data # <<>> =>
       /\ IsRecord(kind, record)
       /\ kind = "IdentityState" => (Len(data) >= 62 => Written)
       /\ kind # "IdentityState" => Written /\ Len(data) = Space(kind)
  /\ kind # "IdentityState" /\ record # <<>> => data # <<>>

LEMMA ReadRecord ==
  ASSUME LayoutInv, data # <<>>, kind # "IdentityState"
  PROVE  /\ Decode(kind, data) = record
         /\ \E rest \in Seq(Byte) : data = Encode(kind, record) \o rest
<1>1. /\ kind \in Kind /\ data \in Seq(Byte) /\ IsRecord(kind, record)
      /\ data = WriteOver(data, Encode(kind, record)) /\ Len(data) = Space(kind)
  BY DEF LayoutInv, Written
<1>2. Encode(kind, record) \in Seq(Byte) /\ Len(Encode(kind, record)) <= Len(data)
  BY <1>1, RecordLength
<1>3. PICK rest \in Seq(Byte) : data = Encode(kind, record) \o rest
  BY <1>1, <1>2, WrittenRest
<1>4. Decode(kind, Encode(kind, record) \o rest) = record
  BY <1>1, RecordReadBack
<1> QED
  BY <1>3, <1>4, Zenon

\* Values for the fields from the first one on.
Fitting(k, first, values) ==
  /\ values \in Seq(Value)
  /\ first \in Nat \ {0}
  /\ first + Len(values) - 1 <= Len(Fields(k))
  /\ \A i \in 1 .. Len(values) : FieldFits(Fields(k)[(first + i) - 1], values[i])

LEMMA AssignKeeps ==
  ASSUME LayoutInv, NEW k \in Kind, k # "IdentityState", kind = k, NEW first, NEW values,
         Fitting(k, first, values), Assign(k, first, values)
  PROVE  LayoutInv'
<1> DEFINE assigned(old) == [i \in DOMAIN old |->
             IF i \in first .. first + Len(values) - 1 THEN values[i - first + 1] ELSE old[i]]
           new == assigned(record)
           bytes == Encode(k, new)
           n == Len(Fields(k))
<1>1. data # <<>> /\ kind = k /\ kind' = kind
  BY DEF Assign
<1>2. Decode(k, data) = record
  BY <1>1, ReadRecord
<1>3. /\ Len(Encode(k, assigned(Decode(k, data)))) <= Len(data)
      /\ data' = WriteOver(data, Encode(k, assigned(Decode(k, data))))
      /\ record' = assigned(record)
  BY <1>1 DEF Assign
<1>4. Len(bytes) <= Len(data) /\ data' = WriteOver(data, bytes) /\ record' = new
  <2> HIDE DEF assigned
  <2> QED
    BY <1>2, <1>3
<1>5. /\ data \in Seq(Byte) /\ Len(data) = Space(k)
      /\ n \in Nat /\ record \in [1 .. n -> Value]
      /\ \A i \in 1 .. n : FieldFits(Fields(k)[i], record[i])
  BY <1>1, FieldsAreLayouts DEF LayoutInv, IsRecord, RecordFits
<1>6. /\ values \in [1 .. Len(values) -> Value] /\ Len(values) \in Nat
      /\ first \in Nat \ {0} /\ first + Len(values) - 1 <= n
      /\ \A i \in 1 .. Len(values) : FieldFits(Fields(k)[(first + i) - 1], values[i])
  BY LenProperties DEF Fitting
<1>7. ASSUME NEW i \in 1 .. n
      PROVE  new[i] \in Value /\ FieldFits(Fields(k)[i], new[i])
  <2>1. CASE i \in first .. first + Len(values) - 1
    <3> DEFINE j == i - first + 1
    <3>1. j \in 1 .. Len(values) /\ (first + j) - 1 = i
      BY <1>6, <2>1
    <3>2. new[i] = values[j]
      BY <1>5, <2>1
    <3> HIDE DEF j, new, n
    <3> QED
      BY <1>6, <3>1, <3>2
  <2>2. CASE i \notin first .. first + Len(values) - 1
    <3>1. new[i] = record[i]
      BY <1>5, <2>2
    <3> HIDE DEF new, n
    <3> QED
      BY <1>5, <3>1
  <2> QED
    BY <2>1, <2>2
<1>8. new = [i \in 1 .. n |-> new[i]]
  BY <1>5
<1> HIDE DEF new
<1>9. IsRecord(k, new)
  <2> HIDE DEF n
  <2>1. new \in [1 .. n -> Value]
    BY <1>7, <1>8
  <2> QED
    BY <1>7, <2>1 DEF IsRecord, RecordFits, n
<1>10. bytes \in Seq(Byte)
  BY <1>9, RecordLength
<1> HIDE DEF bytes
<1>11. /\ data' \in Seq(Byte) /\ Len(data') = Space(k)
       /\ data' = WriteOver(data', bytes)
  BY <1>4, <1>5, <1>10, WriteOverFront
<1> QED
  BY <1>1, <1>4, <1>9, <1>11 DEF LayoutInv, Written, bytes

LEMMA InitialiseKeeps ==
  ASSUME NEW k \in Kind, k # "IdentityState", NEW values, Fitting(k, 1, values),
         Len(Fields(k)) = Len(values) + 1, Fields(k)[Len(values) + 1].tag = 0,
         Initialise(k, values)
  PROVE  LayoutInv'
<1> DEFINE n == Len(Fields(k))
           m == Len(values)
           zeroed == Zeros(Space(k))
           new == values \o <<0>>
           bytes == Encode(k, new)
<1>1. /\ kind = k /\ kind' = kind /\ record' = new
      /\ Len(Encode(k, values \o Drop(Decode(k, zeroed), Len(values)))) <= Len(zeroed)
      /\ data' = WriteOver(zeroed, Encode(k, values \o Drop(Decode(k, zeroed), Len(values))))
  BY DEF Initialise
<1>2. Decode(k, zeroed) = Blank(k)
  BY ZeroedRead
<1>3. /\ n \in Nat /\ m \in Nat /\ n = m + 1 /\ values \in Seq(Value)
      /\ IsLayout(Fields(k), n)
      /\ \A i \in 1 .. m : FieldFits(Fields(k)[i], values[i])
  <2>1. \A i \in 1 .. m : (1 + i) - 1 = i
    BY LenProperties
  <2> QED
    BY <2>1, LenProperties, FieldsAreLayouts DEF Fitting
<1>4. Drop(Blank(k), m) = <<0>>
  <2>1. Blank(k) = [i \in 1 .. n |-> IF Fields(k)[i].tag = 1 THEN None ELSE 0]
    BY DEF Blank
  <2> HIDE DEF n, m
  <2>2. Blank(k)[m + 1] = 0 /\ Len(Blank(k)) = m + 1
    <3>1. m + 1 \in 1 .. n /\ Fields(k)[m + 1].tag = 0
      BY <1>3 DEF m
    <3> QED
      BY <1>3, <2>1, <3>1
  <2>3. SubSeq(Blank(k), m + 1, m + 1) = <<0>>
    <3> DEFINE blank == Blank(k)
               l == m + 1
               part == SubSeq(blank, l, l)
    <3>1. l \in Int /\ \A i \in l .. l : blank[i] \in {0}
      BY <1>3, <2>2
    <3> HIDE DEF blank, l
    <3>2. part \in Seq({0}) /\ Len(part) = 1
      <4>1. part \in Seq({0}) /\ Len(part) = IF l <= l THEN l - l + 1 ELSE 0
        BY <3>1, SubSeqProperties
      <4> QED
        BY <3>1, <4>1
    <3> HIDE DEF part
    <3>3. part[1] = 0
      <4>1. part \in [1 .. 1 -> {0}]
        BY <3>2
      <4> QED
        BY <4>1
    <3>4. <<0>> \in Seq({0}) /\ Len(<<0>>) = 1
      OBVIOUS
    <3>5. part = <<0>>
      BY <3>2, <3>3, <3>4, SeqEqual
    <3> QED
      BY <3>5 DEF part, blank, l
  <2> QED
    BY <2>2, <2>3 DEF Drop
<1>5. Len(bytes) <= Len(zeroed) /\ data' = WriteOver(zeroed, bytes)
  <2> HIDE DEF zeroed
  <2> QED
    BY <1>1, <1>2, <1>4
<1>6. new \in Seq(Value) /\ Len(new) = n
      /\ \A i \in 1 .. n : new[i] = IF i <= m THEN values[i] ELSE <<0>>[i - m]
  <2>1. <<0>> \in Seq(Value) /\ Len(<<0>>) = 1
    BY DEF Value
  <2> HIDE DEF n
  <2> QED
    BY <1>3, <2>1, ConcatProperties
<1>7. ASSUME NEW i \in 1 .. n
      PROVE  FieldFits(Fields(k)[i], new[i])
  <2> HIDE DEF new, n
  <2>1. CASE i <= m
    BY <1>3, <1>6, <2>1
  <2>2. CASE ~ (i <= m)
    <3>1. i = m + 1 /\ i - m = 1
      BY <1>3, <2>2
    <3>2. new[i] = 0
      BY <1>6, <2>2, <3>1
    <3>3. Fields(k)[i] \in FieldType
      BY <1>3 DEF IsLayout
    <3>4. Fields(k)[i].tag = 0
      BY <3>1
    <3> HIDE DEF m
    <3> QED
      BY <3>2, <3>3, <3>4, BlankField
  <2> QED
    BY <2>1, <2>2
<1> HIDE DEF new
<1>8. IsRecord(k, new)
  <2>1. new \in [1 .. n -> Value]
    <3> HIDE DEF n
    <3> QED
      BY <1>6
  <2> QED
    BY <1>7, <2>1 DEF IsRecord, RecordFits
<1>9. bytes \in Seq(Byte)
  BY <1>8, RecordLength
<1>10. zeroed \in Seq(Byte) /\ Len(zeroed) = Space(k)
  BY SpaceType, ZerosEqual DEF AllZero
<1> HIDE DEF bytes, zeroed
<1>11. /\ data' \in Seq(Byte) /\ Len(data') = Space(k)
       /\ data' = WriteOver(data', bytes)
  BY <1>5, <1>9, <1>10, WriteOverFront
<1>12. Space(k) > 0
  BY SpaceType
<1> QED
  BY <1>1, <1>8, <1>11, <1>12 DEF LayoutInv, Written, bytes

\* The values that the instructions write fit their fields.
LEMMA WrittenValues ==
  /\ \A s \in Symbol, width \in Nat : s \in Value /\ FieldFits(Field(width), s)
  /\ \A width \in Nat : None \in Value /\ FieldFits(Optional(width), None)
  /\ \A v \in Number16 :
       /\ v \in Value /\ FieldFits(Field(2), v)
       /\ v \div 100 \in Value /\ FieldFits(Field(4), v \div 100)
  /\ \A v \in Number64 :
       /\ v \in Value /\ FieldFits(Field(8), v)
       /\ SaturatingAdd(v, 100) \in Value /\ FieldFits(Optional(8), SaturatingAdd(v, 100))
  /\ \A v \in {0, 1} : v \in Value /\ FieldFits(Field(8), v) /\ FieldFits(Optional(8), v)
<1>1. /\ \A width : Field(width).tag = 0 /\ Field(width).width = width
      /\ \A width : Optional(width).tag = 1 /\ Optional(width).width = width
  BY DEF Field, Optional
<1>2. /\ \A v \in Symbol : \A width : ValueFits(v, width)
      /\ \A v \in Nat : \A width : Fits(v, width) => ValueFits(v, width)
  BY DEF ValueFits
<1>3. /\ Symbol \subseteq Value /\ Nat \subseteq Value /\ None \in Value
  BY DEF Value
<1>4. \A v \in {0, 1} : v \in Nat /\ Fits(v, 8)
  BY NumbersFit
<1>5. /\ \A v, width : ValueFits(v, width) => FieldFits(Field(width), v)
      /\ \A v, width : ValueFits(v, width) => FieldFits(Optional(width), v)
      /\ \A width : FieldFits(Optional(width), None)
  BY <1>1 DEF FieldFits
<1> QED
  BY <1>2, <1>3, <1>4, <1>5, NumbersFit

LEMMA NinthByteWritten ==
  ASSUME NEW key \in Key
  PROVE  NinthByte(key) \in Value /\ FieldFits(Field(1), NinthByte(key))
<1>1. key \in Value /\ FieldFits(Field(1), key)
  BY WrittenValues DEF Symbol
<1>2. \A v \in {0, 1} : v \in Value /\ FieldFits(Field(1), v)
  <2>1. \A v \in {0, 1} : v \in Nat /\ Fits(v, 1)
    BY NumbersFit
  <2> QED
    BY <2>1 DEF Field, FieldFits, ValueFits, Value
<1> QED
  BY <1>1, <1>2 DEF NinthByte

LEMMA CreateRegistrarKeeps ==
  ASSUME CreateRegistrar
  PROVE  LayoutInv'
<1>1. PICK program \in Key, realm \in Key, mint \in Key, minScore \in Number16, maxAge \in Number64 :
        Initialise("Registrar", <<RegistrarTag, program, realm, mint, minScore, maxAge>>)
  BY DEF CreateRegistrar
<1> DEFINE k == "Registrar"
           values == <<RegistrarTag, program, realm, mint, minScore, maxAge>>
<1>2. k \in Kind /\ k # "IdentityState" /\ Initialise(k, values)
  BY <1>1 DEF Kind
<1>3. Fields(k) = <<Field(8), Field(32), Field(32), Field(32), Field(2), Field(8), Field(64)>>
  BY DEF Fields
<1>4. /\ RegistrarTag \in Value /\ program \in Value /\ realm \in Value /\ mint \in Value
      /\ minScore \in Value /\ maxAge \in Value /\ FieldFits(Field(8), RegistrarTag)
      /\ FieldFits(Field(32), program) /\ FieldFits(Field(32), realm)
      /\ FieldFits(Field(32), mint) /\ FieldFits(Field(2), minScore)
      /\ FieldFits(Field(8), maxAge)
  BY WrittenValues DEF Symbol
<1>5. values \in Seq(Value) /\ Len(values) = 6
  BY <1>4
<1>6. /\ Len(Fields(k)) = 7
      /\ \A i \in 1 .. 6 : FieldFits(Fields(k)[(1 + i) - 1], values[i])
  BY <1>3, <1>4
<1>7. Fields(k)[6 + 1].tag = 0
  BY <1>3 DEF Field
<1> HIDE DEF values, k
<1>8. Fitting(k, 1, values)
  BY <1>5, <1>6 DEF Fitting
<1>9. Len(Fields(k)) = Len(values) + 1 /\ Fields(k)[Len(values) + 1].tag = 0
  BY <1>5, <1>6, <1>7
<1> QED
  BY <1>2, <1>8, <1>9, InitialiseKeeps

LEMMA UpdateRegistrarKeeps ==
  ASSUME LayoutInv, UpdateRegistrar
  PROVE  LayoutInv'
<1>1. PICK minScore \in Number16, maxAge \in Number64 :
        Assign("Registrar", 5, <<minScore, maxAge>>)
  BY DEF UpdateRegistrar
<1> DEFINE k == "Registrar"
           values == <<minScore, maxAge>>
<1>2. k \in Kind /\ k # "IdentityState" /\ Assign(k, 5, values) /\ kind = k
  BY <1>1 DEF Kind, Assign, Accepts
<1>3. Fields(k) = <<Field(8), Field(32), Field(32), Field(32), Field(2), Field(8), Field(64)>>
  BY DEF Fields
<1>4. /\ minScore \in Value /\ maxAge \in Value /\ FieldFits(Field(2), minScore)
      /\ FieldFits(Field(8), maxAge)
  BY WrittenValues DEF Symbol
<1>5. values \in Seq(Value) /\ Len(values) = 2
  BY <1>4
<1>6. /\ Len(Fields(k)) = 7
      /\ \A i \in 1 .. 2 : FieldFits(Fields(k)[(5 + i) - 1], values[i])
  BY <1>3, <1>4
<1> HIDE DEF values, k
<1>7. Fitting(k, 5, values)
  BY <1>5, <1>6 DEF Fitting
<1> QED
  BY <1>2, <1>7, AssignKeeps

LEMMA CreateVoterWeightRecordKeeps ==
  ASSUME CreateVoterWeightRecord
  PROVE  LayoutInv'
<1>1. PICK realm \in Key, mint \in Key, owner \in Key :
        Initialise("VoterWeightRecord",
                   <<VoterTag, realm, mint, owner, NinthByte(owner), owner, owner, owner,
                     0, 0, None, None>>)
  BY DEF CreateVoterWeightRecord
<1> DEFINE k == "VoterWeightRecord"
           ninth == NinthByte(owner)
           values == <<VoterTag, realm, mint, owner, ninth, owner, owner, owner,
                       0, 0, None, None>>
<1>2. k \in Kind /\ k # "IdentityState" /\ Initialise(k, values)
  BY <1>1 DEF Kind
<1>3. Fields(k) = <<Field(8), Field(32), Field(32),
                    Field(8), Field(1), Field(8), Field(8), Field(7),
                    Field(8), Optional(8), Optional(1), Optional(32), Field(8)>>
  BY DEF Fields
<1>4. /\ VoterTag \in Value /\ realm \in Value /\ mint \in Value /\ owner \in Value
      /\ 0 \in Value /\ None \in Value /\ FieldFits(Field(8), VoterTag)
      /\ FieldFits(Field(32), realm) /\ FieldFits(Field(32), mint)
      /\ FieldFits(Field(8), owner) /\ FieldFits(Field(7), owner)
      /\ FieldFits(Field(8), 0) /\ FieldFits(Optional(8), 0)
      /\ FieldFits(Optional(1), None) /\ FieldFits(Optional(32), None)
  BY WrittenValues DEF Symbol
<1>10. ninth \in Value /\ FieldFits(Field(1), ninth)
  BY NinthByteWritten
<1> HIDE DEF ninth
<1>5. values \in Seq(Value) /\ Len(values) = 12
  BY <1>4, <1>10
<1>6. /\ Len(Fields(k)) = 13
      /\ \A i \in 1 .. 12 : FieldFits(Fields(k)[(1 + i) - 1], values[i])
  BY <1>3, <1>4, <1>10
<1>7. Fields(k)[12 + 1].tag = 0
  BY <1>3 DEF Field
<1> HIDE DEF values, k
<1>8. Fitting(k, 1, values)
  BY <1>5, <1>6 DEF Fitting
<1>9. Len(Fields(k)) = Len(values) + 1 /\ Fields(k)[Len(values) + 1].tag = 0
  BY <1>5, <1>6, <1>7
<1> QED
  BY <1>2, <1>8, <1>9, InitialiseKeeps

LEMMA UpdateVoterWeightRecordKeeps ==
  ASSUME LayoutInv, UpdateVoterWeightRecord
  PROVE  LayoutInv'
<1>1. PICK slot \in Number64 :
        Assign("VoterWeightRecord", 9, <<1, SaturatingAdd(slot, 100), None, None>>)
  BY DEF UpdateVoterWeightRecord
<1> DEFINE k == "VoterWeightRecord"
           values == <<1, SaturatingAdd(slot, 100), None, None>>
<1>2. k \in Kind /\ k # "IdentityState" /\ Assign(k, 9, values) /\ kind = k
  BY <1>1 DEF Kind, Assign, Accepts
<1>3. Fields(k) = <<Field(8), Field(32), Field(32),
                    Field(8), Field(1), Field(8), Field(8), Field(7),
                    Field(8), Optional(8), Optional(1), Optional(32), Field(8)>>
  BY DEF Fields
<1>4. /\ 1 \in Value /\ SaturatingAdd(slot, 100) \in Value /\ None \in Value
      /\ FieldFits(Field(8), 1) /\ FieldFits(Optional(8), SaturatingAdd(slot, 100))
      /\ FieldFits(Optional(1), None) /\ FieldFits(Optional(32), None)
  BY WrittenValues DEF Symbol
<1>5. values \in Seq(Value) /\ Len(values) = 4
  BY <1>4
<1>6. /\ Len(Fields(k)) = 13
      /\ \A i \in 1 .. 4 : FieldFits(Fields(k)[(9 + i) - 1], values[i])
  BY <1>3, <1>4
<1> HIDE DEF values, k
<1>7. Fitting(k, 9, values)
  BY <1>5, <1>6 DEF Fitting
<1> QED
  BY <1>2, <1>7, AssignKeeps

LEMMA CreateMaxVoterWeightRecordKeeps ==
  ASSUME CreateMaxVoterWeightRecord
  PROVE  LayoutInv'
<1>1. PICK realm \in Key, mint \in Key :
        Initialise("MaxVoterWeightRecord", <<MaxTag, realm, mint, 0, 0>>)
  BY DEF CreateMaxVoterWeightRecord
<1> DEFINE k == "MaxVoterWeightRecord"
           values == <<MaxTag, realm, mint, 0, 0>>
<1>2. k \in Kind /\ k # "IdentityState" /\ Initialise(k, values)
  BY <1>1 DEF Kind
<1>3. Fields(k) = <<Field(8), Field(32), Field(32), Field(8), Optional(8), Field(8)>>
  BY DEF Fields
<1>4. /\ MaxTag \in Value /\ realm \in Value /\ mint \in Value /\ 0 \in Value
      /\ FieldFits(Field(8), MaxTag) /\ FieldFits(Field(32), realm)
      /\ FieldFits(Field(32), mint) /\ FieldFits(Field(8), 0) /\ FieldFits(Optional(8), 0)
  BY WrittenValues DEF Symbol
<1>5. values \in Seq(Value) /\ Len(values) = 5
  BY <1>4
<1>6. /\ Len(Fields(k)) = 6
      /\ \A i \in 1 .. 5 : FieldFits(Fields(k)[(1 + i) - 1], values[i])
  BY <1>3, <1>4
<1>7. Fields(k)[5 + 1].tag = 0
  BY <1>3 DEF Field
<1> HIDE DEF values, k
<1>8. Fitting(k, 1, values)
  BY <1>5, <1>6 DEF Fitting
<1>9. Len(Fields(k)) = Len(values) + 1 /\ Fields(k)[Len(values) + 1].tag = 0
  BY <1>5, <1>6, <1>7
<1> QED
  BY <1>2, <1>8, <1>9, InitialiseKeeps

LEMMA OwnMaxVoterWeightRecordKeeps ==
  ASSUME LayoutInv, kind = "MaxVoterWeightRecord", UpdateMaxVoterWeightRecord
  PROVE  LayoutInv'
<1>1. PICK weight \in Number64 :
        Assign("MaxVoterWeightRecord", 4, <<weight, None>>)
  BY DEF UpdateMaxVoterWeightRecord
<1> DEFINE k == "MaxVoterWeightRecord"
           values == <<weight, None>>
<1>2. k \in Kind /\ k # "IdentityState" /\ Assign(k, 4, values) /\ kind = k
  BY <1>1 DEF Kind
<1>3. Fields(k) = <<Field(8), Field(32), Field(32), Field(8), Optional(8), Field(8)>>
  BY DEF Fields
<1>4. /\ weight \in Value /\ None \in Value /\ FieldFits(Field(8), weight)
      /\ FieldFits(Optional(8), None)
  BY WrittenValues DEF Symbol
<1>5. values \in Seq(Value) /\ Len(values) = 2
  BY <1>4
<1>6. /\ Len(Fields(k)) = 6
      /\ \A i \in 1 .. 2 : FieldFits(Fields(k)[(4 + i) - 1], values[i])
  BY <1>3, <1>4
<1> HIDE DEF values, k
<1>7. Fitting(k, 4, values)
  BY <1>5, <1>6 DEF Fitting
<1> QED
  BY <1>2, <1>7, AssignKeeps

\* A voter weight record that is updated as a max record has another owner.
LEMMA OwnerIsReplaced ==
  ASSUME LayoutInv, kind = "VoterWeightRecord", NEW weight \in Number64,
         Assign("MaxVoterWeightRecord", 4, <<weight, None>>)
  PROVE  /\ data # <<>> /\ record[5] \in {0, 1}
         /\ kind' = kind /\ record' = OwnerReplaced(record, weight)
         /\ LayoutInv'
<1> DEFINE k == "MaxVoterWeightRecord"
           values == <<weight, None>>
           assigned(old) == [i \in DOMAIN old |->
             IF i \in 4 .. 4 + Len(values) - 1 THEN values[i - 4 + 1] ELSE old[i]]
           w == assigned(AsMax(record))
           bytes == Encode(k, w)
           new == OwnerReplaced(record, weight)
<1>1. /\ data # <<>> /\ kind' = kind /\ Readable(k, data)
      /\ Len(Encode(k, assigned(Decode(k, data)))) <= Len(data)
      /\ data' = WriteOver(data, Encode(k, assigned(Decode(k, data))))
  BY DEF Assign
<1>2. record' = new
  BY DEF Assign
<1>3. /\ data \in Seq(Byte) /\ Len(data) = Space("VoterWeightRecord")
      /\ IsRecord("VoterWeightRecord", record)
  BY <1>1 DEF LayoutInv
<1>4. PICK rest \in Seq(Byte) : data = Encode("VoterWeightRecord", record) \o rest
  BY <1>1, ReadRecord
<1>5. record[5] \in {0, 1}
  <2>1. Readable("MaxVoterWeightRecord", Encode("VoterWeightRecord", record) \o rest)
    BY <1>1, <1>4
  <2> QED
    BY <1>3, <2>1, OwnerTagRead
<1>6. /\ IsRecord(k, AsMax(record))
      /\ Decode(k, Encode("VoterWeightRecord", record) \o rest) = AsMax(record)
  BY <1>3, <1>5, ReadAsMax
<1>7. Len(bytes) <= Len(data) /\ data' = WriteOver(data, bytes)
  <2>1. Decode(k, data) = AsMax(record)
    BY <1>4, <1>6, Zenon
  <2> HIDE DEF assigned, k
  <2> QED
    BY <1>1, <2>1, Zenon
<1>8. /\ w \in [1 .. 6 -> Value] /\ w[1] = record[1] /\ w[2] = record[2] /\ w[3] = record[3]
      /\ w[4] = weight /\ w[5] = None /\ w[6] = AsMax(record)[6]
  <2> DEFINE old == AsMax(record)
  <2>1. /\ old \in [1 .. 6 -> Value]
        /\ old[1] = record[1] /\ old[2] = record[2] /\ old[3] = record[3]
    <3>1. Len(Fields(k)) = 6
      BY DEF Fields
    <3>2. old \in [1 .. 6 -> Value]
      <4> HIDE DEF k, old
      <4>1. RecordFits(Fields(k), 6, old)
        BY <1>6, <3>1 DEF IsRecord, old
      <4> QED
        BY <4>1 DEF RecordFits
    <3>3. old[1] = record[1] /\ old[2] = record[2] /\ old[3] = record[3]
      BY DEF AsMax
    <3> QED
      BY <3>2, <3>3
  <2>2. weight \in Value /\ None \in Value
    BY WrittenValues
  <2>3. Len(values) = 2 /\ values[1] = weight /\ values[2] = None
    OBVIOUS
  <2>4. w = assigned(old)
    OBVIOUS
  <2> HIDE DEF old, values, w
  <2>5. w = [i \in 1 .. 6 |-> IF i \in 4 .. 5 THEN values[i - 4 + 1] ELSE old[i]]
    BY <2>1, <2>3, <2>4
  <2>6. \A i \in 1 .. 6 : i \in 4 .. 5 => values[i - 4 + 1] \in Value
    BY <2>2, <2>3
  <2>7. w \in [1 .. 6 -> Value]
    BY <2>1, <2>5, <2>6
  <2>8. /\ w[1] = old[1] /\ w[2] = old[2] /\ w[3] = old[3]
        /\ w[4] = values[1] /\ w[5] = values[2] /\ w[6] = old[6]
    BY <2>5
  <2> QED
    BY <2>1, <2>3, <2>7, <2>8 DEF old
<1> HIDE DEF w, new
<1>9. /\ IsRecord("VoterWeightRecord", new)
      /\ bytes \in Seq(Byte)
      /\ WriteOver(Encode("VoterWeightRecord", record) \o rest, bytes)
           = Encode("VoterWeightRecord", new) \o rest
  BY <1>3, <1>5, <1>8, WrittenAsMax DEF new
<1>10. data' = Encode("VoterWeightRecord", new) \o rest
  BY <1>4, <1>7, <1>9, Zenon
<1> HIDE DEF bytes
<1>11. data' \in Seq(Byte) /\ Len(data') = Space("VoterWeightRecord")
  BY <1>3, <1>7, <1>9, WriteOverFront
<1>12. data' = WriteOver(data', Encode("VoterWeightRecord", new))
  <2> DEFINE front == Encode("VoterWeightRecord", new)
  <2>1. front \in Seq(Byte)
    BY <1>9, RecordLength DEF Kind
  <2> HIDE DEF front
  <2>2. Drop(front \o rest, Len(front)) = rest
    BY <2>1, BytesPart
  <2>3. front \o rest = WriteOver(front \o rest, front)
    BY <2>2, Zenon DEF WriteOver
  <2> QED
    BY <1>10, <2>3, Zenon DEF front
<1>13. data' # <<>>
  <2>1. Space("VoterWeightRecord") # 0
    BY SpaceType DEF Kind
  <2> QED
    BY <1>11, <2>1
<1>14. LayoutInv'
  BY <1>1, <1>2, <1>9, <1>11, <1>12, <1>13 DEF LayoutInv, Written, Kind
<1> QED
  BY <1>1, <1>2, <1>5, <1>14 DEF new

LEMMA UpdateMaxVoterWeightRecordKeeps ==
  ASSUME LayoutInv, UpdateMaxVoterWeightRecord
  PROVE  LayoutInv'
<1>1. PICK weight \in Number64 :
        Assign("MaxVoterWeightRecord", 4, <<weight, None>>)
  BY DEF UpdateMaxVoterWeightRecord
<1>2. kind = "MaxVoterWeightRecord" \/ kind = "VoterWeightRecord"
  BY <1>1 DEF Assign, Accepts
<1>3. CASE kind = "MaxVoterWeightRecord"
  BY <1>3, OwnMaxVoterWeightRecordKeeps
<1>4. CASE kind = "VoterWeightRecord"
  BY <1>1, <1>4, OwnerIsReplaced
<1> QED
  BY <1>2, <1>3, <1>4

LEMMA VerifyIdentityKeeps ==
  ASSUME VerifyIdentity
  PROVE  LayoutInv'
<1>1. PICK tag \in {IdentityTag, OtherTag}, owner \in Key, score \in Number16,
           created \in Number64, verified \in Number64, size \in IdentitySize :
        LET values == <<tag, owner, created, verified, score \div 100, score>>
            bytes == Encode(kind, values) \o Zeros(207 - 62)
        IN  data' = Take(bytes, size) /\ record' = values
  BY DEF VerifyIdentity
<1> DEFINE k == "IdentityState"
           values == <<tag, owner, created, verified, score \div 100, score>>
           front == Encode(k, values)
           bytes == front \o Zeros(145)
<1>2. k \in Kind /\ kind = k /\ kind' = k
  BY DEF VerifyIdentity, Kind
<1>3. data' = Take(bytes, size) /\ record' = values
  <2>1. 207 - 62 = 145
    OBVIOUS
  <2> QED
    BY <1>1, <1>2, <2>1
<1>4. Fields(k) = <<Field(8), Field(32), Field(8), Field(8), Field(4), Field(2)>>
  BY DEF Fields
<1>5. /\ tag \in Value /\ owner \in Value /\ created \in Value /\ verified \in Value
      /\ score \div 100 \in Value /\ score \in Value
      /\ FieldFits(Field(8), tag) /\ FieldFits(Field(32), owner)
      /\ FieldFits(Field(8), created) /\ FieldFits(Field(8), verified)
      /\ FieldFits(Field(4), score \div 100) /\ FieldFits(Field(2), score)
  BY WrittenValues DEF Symbol
<1>6. IsRecord(k, values)
  <2>1. values \in [1 .. 6 -> Value] /\ Len(Fields(k)) = 6
    BY <1>4, <1>5
  <2>2. \A i \in 1 .. 6 : FieldFits(Fields(k)[i], values[i])
    BY <1>4, <1>5
  <2> HIDE DEF values, k
  <2> QED
    BY <2>1, <2>2 DEF IsRecord, RecordFits
<1> HIDE DEF values
<1>7. front \in Seq(Byte) /\ Len(front) = 62
  BY <1>2, <1>6, RecordLength
<1>8. Zeros(145) \in Seq(Byte) /\ Len(Zeros(145)) = 145
  BY ZerosEqual DEF AllZero
<1> DEFINE tail == Zeros(145)
<1> HIDE DEF front, k, tail
<1>9. bytes \in Seq(Byte) /\ Len(bytes) = 207 /\ Take(bytes, 62) = front
  <2>1. tail \in Seq(Byte) /\ Len(tail) = 145 /\ bytes = front \o tail
    BY <1>8 DEF tail
  <2>2. /\ bytes \in Seq(Byte) /\ Len(bytes) = Len(front) + Len(tail)
        /\ Take(bytes, Len(front)) = front
    <3>1. front \o tail \in Seq(Byte) /\ Len(front \o tail) = Len(front) + Len(tail)
      <4>1. front \in Seq(Byte) /\ tail \in Seq(Byte)
        BY <1>7, <2>1
      <4> QED
        BY <4>1, BytesJoin, Zenon
    <3>2. Take(front \o tail, Len(front)) = front
      BY <1>7, <2>1, BytesPart
    <3> HIDE DEF bytes
    <3> QED
      BY <2>1, <3>1, <3>2, Zenon
  <2> QED
    BY <1>7, <2>1, <2>2
<1> HIDE DEF bytes
<1>10. size \in 0 .. 207
  BY NumberAssumption
<1>11. data' \in Seq(Byte) /\ Len(data') = size
  BY <1>3, <1>9, <1>10, Parts
<1>12. ASSUME Len(data') >= 62
       PROVE  data' = WriteOver(data', front)
  <2>1. 62 \in 0 .. Len(data')
    BY <1>10, <1>11, <1>12
  <2>2. data' = Take(data', 62) \o Drop(data', 62)
    BY <1>11, <2>1, Parts
  <2>3. Take(Take(bytes, size), 62) = Take(bytes, 62)
    <3>1. size \in 0 .. Len(bytes) /\ 62 \in 0 .. size
      BY <1>9, <1>10, <1>11, <1>12
    <3>2. bytes \in Seq(Byte)
      BY <1>9
    <3> QED
      BY <3>1, <3>2, TakeOfTake, Zenon
  <2>4. Take(data', 62) = front
    BY <1>3, <1>9, <2>3, Zenon
  <2> QED
    BY <1>7, <2>2, <2>4, Zenon DEF WriteOver
<1> QED
  BY <1>2, <1>3, <1>6, <1>11, <1>12 DEF LayoutInv, Written, front, k

\* LayoutInv is inductive.
LEMMA LayoutInvInductive ==
  /\ Init => LayoutInv
  /\ LayoutInv /\ [Next]_vars => LayoutInv'
<1>1. <<>> \in Seq(Byte)
  OBVIOUS
<1>2. Init => LayoutInv
  BY <1>1 DEF Init, LayoutInv
<1>3. ASSUME LayoutInv, [Next]_vars
      PROVE  LayoutInv'
  <2>1. CASE CreateRegistrar
    BY <2>1, CreateRegistrarKeeps
  <2>2. CASE UpdateRegistrar
    BY <1>3, <2>2, UpdateRegistrarKeeps
  <2>3. CASE CreateVoterWeightRecord
    BY <2>3, CreateVoterWeightRecordKeeps
  <2>4. CASE UpdateVoterWeightRecord
    BY <1>3, <2>4, UpdateVoterWeightRecordKeeps
  <2>5. CASE CreateMaxVoterWeightRecord
    BY <2>5, CreateMaxVoterWeightRecordKeeps
  <2>6. CASE UpdateMaxVoterWeightRecord
    BY <1>3, <2>6, UpdateMaxVoterWeightRecordKeeps
  <2>7. CASE Close
    BY <1>1, <1>3, <2>7 DEF Close, LayoutInv
  <2>8. CASE VerifyIdentity
    BY <2>8, VerifyIdentityKeeps
  <2>9. CASE UNCHANGED vars
    BY <1>3, <2>9 DEF vars, LayoutInv, Written
  <2> QED
    BY <1>3, <2>1, <2>2, <2>3, <2>4, <2>5, <2>6, <2>7, <2>8, <2>9 DEF Next
<1> QED
  BY <1>2, <1>3

THEOREM LayoutInvHolds == Spec => []LayoutInv
  BY LayoutInvInductive, PTL DEF Spec

-----------------------------------------------------------------------------
(* The theorems                                                            *)

\* Every instruction reads what the instructions before it have assigned, for
\* every order of them and all values that fit the fields.
THEOREM ReadBackHolds == Spec => []ReadBack
<1>1. LayoutInv => ReadBack
  BY ReadRecord DEF ReadBack
<1> QED
  BY <1>1, LayoutInvHolds, PTL

\* No instruction can fail for want of space, whichever options are Some.
THEOREM SpaceSufficesHolds == Spec => []SpaceSuffices
<1>1. ASSUME LayoutInv, data # <<>>, kind # "IdentityState"
      PROVE  Len(Encode(kind, [i \in DOMAIN record |->
                                 IF record[i] = None THEN 0 ELSE record[i]])) <= Len(data)
  <2> DEFINE n == Len(Fields(kind))
             full == [i \in DOMAIN record |-> IF record[i] = None THEN 0 ELSE record[i]]
  <2>1. /\ kind \in Kind /\ Len(data) = Space(kind)
        /\ record \in [1 .. n -> Value]
        /\ \A i \in 1 .. n : FieldFits(Fields(kind)[i], record[i])
    BY <1>1 DEF LayoutInv, IsRecord, RecordFits
  <2>2. n \in Nat /\ IsLayout(Fields(kind), n)
    BY <2>1, FieldsAreLayouts
  <2>3. full = [i \in 1 .. n |-> full[i]]
    BY <2>1
  <2>4. ASSUME NEW i \in 1 .. n
        PROVE  full[i] \in Value /\ FieldFits(Fields(kind)[i], full[i])
    <3>1. CASE record[i] = None
      <4>1. full[i] = 0
        BY <2>1, <3>1
      <4>2. Fields(kind)[i].width \in Nat
        BY <2>2 DEF IsLayout, FieldType
      <4> HIDE DEF full
      <4> QED
        BY <4>1, <4>2, ZeroWritten DEF FieldFits, ValueFits, Value
    <3>2. CASE record[i] # None
      <4>1. full[i] = record[i]
        BY <2>1, <3>2
      <4> HIDE DEF full, n
      <4> QED
        BY <2>1, <4>1
    <3> QED
      BY <3>1, <3>2
  <2> HIDE DEF full
  <2>5. IsRecord(kind, full)
    <3> HIDE DEF n
    <3>1. full \in [1 .. n -> Value]
      BY <2>3, <2>4
    <3> QED
      BY <2>4, <3>1 DEF IsRecord, RecordFits, n
  <2>6. Len(Encode(kind, full)) <= Space(kind)
    BY <1>1, <2>1, <2>5, RecordLength
  <2> QED
    BY <2>1, <2>6 DEF full
<1>2. LayoutInv => SpaceSuffices
  BY <1>1 DEF SpaceSuffices
<1> QED
  BY <1>2, LayoutInvHolds, PTL

\* The plugin reads from an identity what the Anchor program has written there,
\* and refuses every other account and every short one.
THEOREM IdentityReadHolds == Spec => []IdentityRead
<1>1. ASSUME LayoutInv, kind = "IdentityState", Len(data) >= 62
      PROVE  /\ FromBytes(Slice(data, 0, 8)) = record[1]
             /\ FromBytes(Slice(data, 48, 8)) = record[4]
             /\ FromBytes(Slice(data, 60, 2)) = record[6]
  <2> DEFINE k == "IdentityState"
  <2>0. data \in Seq(Byte) /\ data # <<>> /\ k \in Kind
    BY <1>1 DEF LayoutInv, Kind
  <2>1. IsRecord(k, record) /\ data = WriteOver(data, Encode(k, record))
    BY <1>1, <2>0 DEF LayoutInv, Written
  <2>2. Fields(k) = <<Field(8), Field(32), Field(8), Field(8), Field(4), Field(2)>>
    BY DEF Fields
  <2>3. /\ Len(Fields(k)) = 6
        /\ Fields(k)[0 + 1] = Field(8) /\ Fields(k)[1 + 1] = Field(32)
        /\ Fields(k)[2 + 1] = Field(8) /\ Fields(k)[3 + 1] = Field(8)
        /\ Fields(k)[4 + 1] = Field(4) /\ Fields(k)[5 + 1] = Field(2)
    BY <2>2
  <2>4. Encode(k, record) \in Seq(Byte) /\ Len(Encode(k, record)) = 62
    BY <2>0, <2>1, RecordLength
  <2>5. PICK rest \in Seq(Byte) : data = Encode(k, record) \o rest
    BY <1>1, <2>0, <2>1, <2>4, WrittenRest
  <2> DEFINE At(offset, i) == Reached(data, offset, i, k, record, rest)
  <2>6. At(0, 0)
    <3>1. Reached(Encode(k, record) \o rest, 0, 0, k, record, rest)
      BY <2>0, <2>1, ReachedFirst
    <3> QED
      BY <2>5, <3>1, Zenon
  <2> HIDE DEF k
  <2>7. ASSUME NEW offset \in Nat, NEW width \in Nat, NEW i \in 0 .. 5,
                At(offset, i), Fields(k)[i + 1] = Field(width)
         PROVE  /\ FromBytes(Slice(data, offset, width)) = record[i + 1]
                /\ At(offset + width, i + 1)
    <3>1. i \in 0 .. Len(Fields(k)) - 1
      BY <2>3
    <3> QED
      BY <2>0, <2>1, <2>7, <3>1, PlainFieldAt, Zenon
  <2> HIDE DEF At
  <2>8. At(8, 1) /\ FromBytes(Slice(data, 0, 8)) = record[1]
    BY <2>7, <2>3, <2>6
  <2>9. At(40, 2)
    BY <2>7, <2>3, <2>8
  <2>10. At(48, 3)
    BY <2>7, <2>3, <2>9
  <2>11. At(56, 4) /\ FromBytes(Slice(data, 48, 8)) = record[4]
    BY <2>7, <2>3, <2>10
  <2>12. At(60, 5)
    BY <2>7, <2>3, <2>11
  <2>13. FromBytes(Slice(data, 60, 2)) = record[6]
    BY <2>7, <2>3, <2>12
  <2> QED
    BY <2>8, <2>11, <2>13
<1>2. LayoutInv => IdentityRead
  BY <1>1 DEF IdentityRead, PluginReads, MinDataLength, LastVerificationOffset, TrustScoreOffset
<1> QED
  BY <1>2, LayoutInvHolds, PTL

\* Every fixed offset that a client reads is the offset of its field, in every
\* record that the instructions can have left.
THEOREM ClientsReadHolds == Spec => []ClientsRead
<1>1. ASSUME LayoutInv, data # <<>>, kind = "VoterWeightRecord"
      PROVE  /\ FromBytes(Slice(data, 8, 32)) = record[2]
             /\ FromBytes(Slice(data, 72, 8)) = record[4]
             /\ FromBytes(Slice(data, 80, 1)) = record[5]
             /\ FromBytes(Slice(data, 81, 8)) = record[6]
             /\ FromBytes(Slice(data, 104, 8)) = record[9]
             /\ ClientOption(112) = record[10]
  <2> DEFINE k == "VoterWeightRecord"
  <2>1. k \in Kind /\ IsRecord(k, record)
    BY <1>1 DEF LayoutInv, Kind
  <2>2. Fields(k) = <<Field(8), Field(32), Field(32),
                      Field(8), Field(1), Field(8), Field(8), Field(7),
                      Field(8), Optional(8), Optional(1), Optional(32), Field(8)>>
    BY DEF Fields
  <2>3. /\ Len(Fields(k)) = 13
        /\ Fields(k)[0 + 1] = Field(8) /\ Fields(k)[1 + 1] = Field(32)
        /\ Fields(k)[2 + 1] = Field(32) /\ Fields(k)[3 + 1] = Field(8)
        /\ Fields(k)[4 + 1] = Field(1) /\ Fields(k)[5 + 1] = Field(8)
        /\ Fields(k)[6 + 1] = Field(8) /\ Fields(k)[7 + 1] = Field(7)
        /\ Fields(k)[8 + 1] = Field(8) /\ Fields(k)[9 + 1] = Optional(8)
    BY <2>2
  <2>4. PICK rest \in Seq(Byte) : data = Encode(k, record) \o rest
    BY <1>1, ReadRecord
  <2> DEFINE At(offset, i) == Reached(data, offset, i, k, record, rest)
  <2>5. At(0, 0)
    <3>1. Reached(Encode(k, record) \o rest, 0, 0, k, record, rest)
      BY <2>1, ReachedFirst
    <3> QED
      BY <2>4, <3>1, Zenon
  <2> HIDE DEF k
  <2>6. ASSUME NEW offset \in Nat, NEW width \in Nat, NEW i \in 0 .. 12,
                At(offset, i), Fields(k)[i + 1] = Field(width)
         PROVE  /\ FromBytes(Slice(data, offset, width)) = record[i + 1]
                /\ At(offset + width, i + 1)
    <3>1. i \in 0 .. Len(Fields(k)) - 1
      BY <2>3
    <3> QED
      BY <2>1, <2>6, <3>1, PlainFieldAt, Zenon
  <2>17. ASSUME NEW offset \in Nat, NEW i \in 0 .. 12,
                At(offset, i), Fields(k)[i + 1] = Optional(8)
         PROVE  record[i + 1] = ClientOption(offset)
    <3>1. i \in 0 .. Len(Fields(k)) - 1
      BY <2>3
    <3>2. 8 \in Nat
      OBVIOUS
    <3> QED
      BY <2>1, <2>17, <3>1, <3>2, OptionalFieldAt, Zenon DEF ClientOption
  <2> HIDE DEF At
  <2>7. At(8, 1)
    BY <2>6, <2>3, <2>5
  <2>8. At(40, 2) /\ FromBytes(Slice(data, 8, 32)) = record[2]
    BY <2>6, <2>3, <2>7
  <2>9. At(72, 3)
    BY <2>6, <2>3, <2>8
  <2>10. At(80, 4) /\ FromBytes(Slice(data, 72, 8)) = record[4]
    BY <2>6, <2>3, <2>9
  <2>13. At(81, 5) /\ FromBytes(Slice(data, 80, 1)) = record[5]
    BY <2>6, <2>3, <2>10
  <2>14. At(89, 6) /\ FromBytes(Slice(data, 81, 8)) = record[6]
    BY <2>6, <2>3, <2>13
  <2>15. At(97, 7)
    BY <2>6, <2>3, <2>14
  <2>16. At(104, 8)
    BY <2>6, <2>3, <2>15
  <2>11. At(112, 9) /\ FromBytes(Slice(data, 104, 8)) = record[9]
    BY <2>6, <2>3, <2>16
  <2>12. ClientOption(112) = record[9 + 1]
    BY <2>17, <2>3, <2>11
  <2> QED
    BY <2>8, <2>10, <2>11, <2>12, <2>13, <2>14
<1>2. ASSUME LayoutInv, data # <<>>, kind = "MaxVoterWeightRecord"
      PROVE  /\ FromBytes(Slice(data, 72, 8)) = record[4]
             /\ ClientOption(80) = record[5]
  <2> DEFINE k == "MaxVoterWeightRecord"
  <2>1. k \in Kind /\ IsRecord(k, record)
    BY <1>2 DEF LayoutInv, Kind
  <2>2. Fields(k) = <<Field(8), Field(32), Field(32), Field(8), Optional(8), Field(8)>>
    BY DEF Fields
  <2>3. /\ Len(Fields(k)) = 6
        /\ Fields(k)[0 + 1] = Field(8) /\ Fields(k)[1 + 1] = Field(32)
        /\ Fields(k)[2 + 1] = Field(32) /\ Fields(k)[3 + 1] = Field(8)
        /\ Fields(k)[4 + 1] = Optional(8)
    BY <2>2
  <2>4. PICK rest \in Seq(Byte) : data = Encode(k, record) \o rest
    BY <1>2, ReadRecord
  <2> DEFINE At(offset, i) == Reached(data, offset, i, k, record, rest)
  <2>5. At(0, 0)
    <3>1. Reached(Encode(k, record) \o rest, 0, 0, k, record, rest)
      BY <2>1, ReachedFirst
    <3> QED
      BY <2>4, <3>1, Zenon
  <2> HIDE DEF k
  <2>6. ASSUME NEW offset \in Nat, NEW width \in Nat, NEW i \in 0 .. 5,
                At(offset, i), Fields(k)[i + 1] = Field(width)
         PROVE  /\ FromBytes(Slice(data, offset, width)) = record[i + 1]
                /\ At(offset + width, i + 1)
    <3>1. i \in 0 .. Len(Fields(k)) - 1
      BY <2>3
    <3> QED
      BY <2>1, <2>6, <3>1, PlainFieldAt, Zenon
  <2> HIDE DEF At
  <2>7. At(8, 1)
    BY <2>6, <2>3, <2>5
  <2>8. At(40, 2)
    BY <2>6, <2>3, <2>7
  <2>9. At(72, 3)
    BY <2>6, <2>3, <2>8
  <2>10. At(80, 4) /\ FromBytes(Slice(data, 72, 8)) = record[4]
    BY <2>6, <2>3, <2>9
  <2>11. ClientOption(80) = record[5]
    <3>1. record[4 + 1] =
            IF FromBytes(Slice(data, 80, 1)) = 1
              THEN FromBytes(Slice(data, 80 + 1, 8)) ELSE None
      <4>1. 4 \in 0 .. Len(Fields(k)) - 1
        BY <2>3
      <4> QED
        BY <2>1, <2>3, <2>10, <4>1, OptionalFieldAt DEF At
    <3> QED
      BY <3>1 DEF ClientOption
  <2> QED
    BY <2>10, <2>11
<1>3. ASSUME LayoutInv, data # <<>>, kind = "Registrar"
      PROVE  FromBytes(Slice(data, 104, 2)) = record[5]
  <2> DEFINE k == "Registrar"
  <2>1. k \in Kind /\ IsRecord(k, record)
    BY <1>3 DEF LayoutInv, Kind
  <2>2. Fields(k) = <<Field(8), Field(32), Field(32), Field(32), Field(2), Field(8), Field(64)>>
    BY DEF Fields
  <2>3. /\ Len(Fields(k)) = 7
        /\ Fields(k)[0 + 1] = Field(8) /\ Fields(k)[1 + 1] = Field(32)
        /\ Fields(k)[2 + 1] = Field(32) /\ Fields(k)[3 + 1] = Field(32)
        /\ Fields(k)[4 + 1] = Field(2)
    BY <2>2
  <2>4. PICK rest \in Seq(Byte) : data = Encode(k, record) \o rest
    BY <1>3, ReadRecord
  <2> DEFINE At(offset, i) == Reached(data, offset, i, k, record, rest)
  <2>5. At(0, 0)
    <3>1. Reached(Encode(k, record) \o rest, 0, 0, k, record, rest)
      BY <2>1, ReachedFirst
    <3> QED
      BY <2>4, <3>1, Zenon
  <2> HIDE DEF k
  <2>6. ASSUME NEW offset \in Nat, NEW width \in Nat, NEW i \in 0 .. 6,
                At(offset, i), Fields(k)[i + 1] = Field(width)
         PROVE  /\ FromBytes(Slice(data, offset, width)) = record[i + 1]
                /\ At(offset + width, i + 1)
    <3>1. i \in 0 .. Len(Fields(k)) - 1
      BY <2>3
    <3> QED
      BY <2>1, <2>6, <3>1, PlainFieldAt, Zenon
  <2> HIDE DEF At
  <2>7. At(8, 1)
    BY <2>6, <2>3, <2>5
  <2>8. At(40, 2)
    BY <2>6, <2>3, <2>7
  <2>9. At(72, 3)
    BY <2>6, <2>3, <2>8
  <2>10. At(104, 4)
    BY <2>6, <2>3, <2>9
  <2> QED
    BY <2>6, <2>3, <2>10
<1>4. LayoutInv => ClientsRead
  BY <1>1, <1>2, <1>3 DEF ClientsRead
<1> QED
  BY <1>4, LayoutInvHolds, PTL
-----------------------------------------------------------------------------
(* The refinement                                                          *)

\* A record of the program is there or not; its fields are the values last assigned.
LEMMA AccountOfRecord ==
  ASSUME ReadBack, kind # "IdentityState"
  PROVE  /\ data = <<>> => Account = {}
         /\ data # <<>> => Account = {Named(kind, record)}
BY DEF Account, ReadBack

\* Creating an account writes the first fields, as they are given.
LEMMA InitialiseCreates ==
  ASSUME LayoutInv, LayoutInv', ReadBack, ReadBack', NEW k \in Kind, k # "IdentityState",
         NEW values \in Seq(Value), Initialise(k, values)
  PROVE  /\ kind = k /\ kind' = k
         /\ Account = {} /\ Account' = {Named(k, record')}
         /\ \A i \in 1 .. Len(values) : record'[i] = values[i]
<1>1. /\ data = <<>> /\ kind = k /\ kind' = k /\ record' = values \o <<0>>
  BY DEF Initialise
<1>2. <<0>> \in Seq(Value) /\ Len(<<0>>) = 1
  BY DEF Value
<1>3. /\ Len(record') = Len(values) + 1 /\ Len(values) \in Nat
      /\ \A i \in 1 .. Len(values) : record'[i] = values[i]
  BY <1>1, <1>2, ConcatProperties, LenProperties
<1>4. record' # <<>>
  BY <1>3
<1>5. data' # <<>>
  BY <1>1, <1>4 DEF LayoutInv
<1>6. Account = {} /\ Account' = {Named(k, record')}
  BY <1>1, <1>5 DEF Account, ReadBack
<1> QED
  BY <1>1, <1>3, <1>6

\* Changing an account writes the assigned fields and keeps the others.
LEMMA AssignChanges ==
  ASSUME LayoutInv, LayoutInv', ReadBack, ReadBack',
         NEW k \in Kind, k # "IdentityState", kind = k,
         NEW first \in Nat \ {0}, NEW values, Len(values) \in Nat,
         first + Len(values) - 1 <= Len(Fields(k)), Assign(k, first, values)
  PROVE  /\ kind = k /\ kind' = k
         /\ Account = {Named(k, record)} /\ Account' = {Named(k, record')}
         /\ \A j \in 1 .. Len(values) : record'[(first + j) - 1] = values[j]
         /\ \A i \in 1 .. first - 1 : record'[i] = record[i]
<1> DEFINE n == Len(Fields(k))
<1>1. /\ data # <<>> /\ kind = k /\ kind' = k
      /\ record' = [i \in DOMAIN record |->
           IF i \in first .. first + Len(values) - 1 THEN values[i - first + 1] ELSE record[i]]
  BY DEF Assign
<1>2. DOMAIN record = 1 .. n /\ n \in Nat \ {0}
  <2>1. n > 0
    BY DEF Fields, Kind
  <2> QED
    BY <1>1, <2>1, FieldsAreLayouts DEF LayoutInv, IsRecord, RecordFits
<1> HIDE DEF n
<1>3. ASSUME NEW j \in 1 .. Len(values)
      PROVE  record'[(first + j) - 1] = values[j]
  <2> DEFINE i == (first + j) - 1
  <2>1. i \in 1 .. n /\ i \in first .. first + Len(values) - 1 /\ i - first + 1 = j
    BY DEF n
  <2>2. record'[i] = values[i - first + 1]
    <3> HIDE DEF i
    <3> QED
      BY <1>1, <1>2, <2>1
  <2> QED
    BY <2>1, <2>2
<1>4. ASSUME NEW i \in 1 .. first - 1
      PROVE  record'[i] = record[i]
  <2>1. i \in 1 .. n /\ i \notin first .. first + Len(values) - 1
    BY <1>2 DEF n
  <2> QED
    BY <1>1, <1>2, <2>1
<1>5. data' # <<>>
  <2>1. 1 \in DOMAIN record' /\ 1 \notin DOMAIN <<>>
    BY <1>1, <1>2
  <2>2. record' # <<>>
    BY <2>1, Zenon
  <2> QED
    BY <1>1, <2>2 DEF LayoutInv
<1>6. Account = {Named(k, record)} /\ Account' = {Named(k, record')}
  BY <1>1, <1>5 DEF Account, ReadBack
<1> QED
  BY <1>1, <1>3, <1>4, <1>6

\* What else the other owner leaves.
LEMMA ReplacedOwner ==
  ASSUME LayoutInv, kind = "VoterWeightRecord", NEW weight \in Number64,
         Assign("MaxVoterWeightRecord", 4, <<weight, None>>)
  PROVE  /\ record'[2] = record[2] /\ record'[3] = record[3]
         /\ record'[4] = weight /\ record'[5] = 0
         /\ record'[9] = record[9] /\ record'[10] = record[10]
<1>1. record' = OwnerReplaced(record, weight) /\ data # <<>>
  BY OwnerIsReplaced
<1>2. record \in [1 .. 13 -> Value]
  BY <1>1, OwnerParts DEF LayoutInv
<1> DEFINE x == IF record[5] = 1 THEN record[7] ELSE record[6]
<1>3. record' = [record EXCEPT ![4] = weight, ![5] = 0, ![6] = x]
  BY <1>1, Zenon DEF OwnerReplaced
<1> HIDE DEF x
<1> QED
  BY <1>2, <1>3

\* As long as the owner's key is there, its byte 8 is.
OwnerTag ==
  kind = "VoterWeightRecord" /\ data # <<>> /\ record[4] \in Key =>
    record[5] = NinthByte(record[4])

LEMMA OwnerTagInductive ==
  /\ Init => OwnerTag
  /\ LayoutInv /\ LayoutInv' /\ ReadBack /\ ReadBack' /\ OwnerTag /\ [Next]_vars => OwnerTag'
<1>1. Init => OwnerTag
  BY DEF Init, OwnerTag
<1>2. ASSUME LayoutInv, LayoutInv', ReadBack, ReadBack', OwnerTag, [Next]_vars
      PROVE  OwnerTag'
  <2>1. CASE CreateVoterWeightRecord
    <3>1. PICK realm \in Key, mint \in Key, owner \in Key :
            Initialise("VoterWeightRecord",
                       <<VoterTag, realm, mint, owner, NinthByte(owner), owner, owner, owner,
                         0, 0, None, None>>)
      BY <2>1 DEF CreateVoterWeightRecord
    <3> DEFINE ninth == NinthByte(owner)
               values == <<VoterTag, realm, mint, owner, ninth, owner, owner, owner,
                           0, 0, None, None>>
    <3>2. ninth \in Value
      BY NinthByteWritten
    <3>3. Initialise("VoterWeightRecord", values)
      BY <3>1
    <3> HIDE DEF ninth
    <3>4. /\ values \in Seq(Value) /\ Len(values) = 12
          /\ values[4] = owner /\ values[5] = ninth
      BY <3>2, WrittenValues DEF Symbol
    <3> HIDE DEF values
    <3>5. \A i \in 1 .. Len(values) : record'[i] = values[i]
      BY <1>2, <3>3, <3>4, InitialiseCreates DEF Kind
    <3>6. record'[4] = owner /\ record'[5] = ninth
      BY <3>4, <3>5
    <3> QED
      BY <3>6 DEF OwnerTag, ninth
  <2>2. CASE UpdateVoterWeightRecord
    <3>1. PICK slot \in Number64 :
            Assign("VoterWeightRecord", 9, <<1, SaturatingAdd(slot, 100), None, None>>)
      BY <2>2 DEF UpdateVoterWeightRecord
    <3> DEFINE values == <<1, SaturatingAdd(slot, 100), None, None>>
    <3>2. Len(values) = 4 /\ Len(Fields("VoterWeightRecord")) = 13
      BY DEF Fields
    <3>3. Assign("VoterWeightRecord", 9, values) /\ kind = "VoterWeightRecord" /\ data # <<>>
      BY <3>1 DEF Assign, Accepts
    <3> HIDE DEF values
    <3>4. \A i \in 1 .. 9 - 1 : record'[i] = record[i]
      <4>1. 9 \in Nat \ {0} /\ 4 \in Nat /\ 9 + 4 - 1 <= 13 /\ "VoterWeightRecord" \in Kind
        BY DEF Kind
      <4>2. Len(values) \in Nat /\ 9 + Len(values) - 1 <= Len(Fields("VoterWeightRecord"))
        BY <3>2, <4>1, Zenon
      <4>3. "VoterWeightRecord" # "IdentityState"
        OBVIOUS
      <4> QED
        BY <1>2, <3>3, <4>1, <4>2, <4>3, AssignChanges, Zenon
    <3>5. record'[4] = record[4] /\ record'[5] = record[5]
      BY <3>4
    <3> QED
      BY <1>2, <3>3, <3>5 DEF OwnerTag
  <2>3. CASE UpdateMaxVoterWeightRecord
    <3>1. PICK weight \in Number64 :
            Assign("MaxVoterWeightRecord", 4, <<weight, None>>)
      BY <2>3 DEF UpdateMaxVoterWeightRecord
    <3>2. CASE kind = "VoterWeightRecord"
      <4>1. record'[4] = weight
        BY <1>2, <3>1, <3>2, ReplacedOwner
      <4>2. weight \notin Key
        BY SymbolAssumption, NumbersFit DEF Symbol
      <4> QED
        BY <4>1, <4>2 DEF OwnerTag
    <3>3. CASE kind # "VoterWeightRecord"
      <4>1. kind' = kind
        BY <3>1 DEF Assign
      <4> QED
        BY <3>3, <4>1 DEF OwnerTag
    <3> QED
      BY <3>2, <3>3
  <2>4. CASE CreateRegistrar \/ UpdateRegistrar \/ CreateMaxVoterWeightRecord \/ VerifyIdentity
    <3>1. kind' # "VoterWeightRecord"
      BY <2>4 DEF CreateRegistrar, UpdateRegistrar, CreateMaxVoterWeightRecord, VerifyIdentity,
                  Initialise, Assign, Accepts
    <3> QED
      BY <3>1 DEF OwnerTag
  <2>5. CASE Close
    BY <2>5 DEF Close, OwnerTag
  <2>6. CASE UNCHANGED vars
    BY <1>2, <2>6 DEF vars, OwnerTag
  <2> QED
    BY <1>2, <2>1, <2>2, <2>3, <2>4, <2>5, <2>6 DEF Next
<1> QED
  BY <1>1, <1>2

THEOREM OwnerTagHolds == Spec => []OwnerTag
  BY LayoutInvHolds, ReadBackHolds, OwnerTagInductive, PTL DEF Spec

\* Every instruction maps to the instruction of the same name: the fields it
\* assigns by position are those it assigns by name.
LEMMA CreateRegistrarMaps ==
  ASSUME LayoutInv, LayoutInv', ReadBack, ReadBack', CreateRegistrar
  PROVE  Store!CreateRegistrar
<1>1. PICK program \in Key, realm \in Key, mint \in Key,
           minScore \in Number16, maxAge \in Number64 :
        Initialise("Registrar", <<RegistrarTag, program, realm, mint, minScore, maxAge>>)
  BY DEF CreateRegistrar
<1> DEFINE values == <<RegistrarTag, program, realm, mint, minScore, maxAge>>
<1>2. /\ values \in Seq(Value) /\ Len(values) = 6
      /\ values[2] = program /\ values[3] = realm /\ values[4] = mint
      /\ values[5] = minScore /\ values[6] = maxAge
  BY WrittenValues DEF Symbol
<1> HIDE DEF values
<1>3. /\ kind = "Registrar" /\ kind' = "Registrar"
      /\ Account = {} /\ Account' = {Named("Registrar", record')}
      /\ \A i \in 1 .. Len(values) : record'[i] = values[i]
  BY <1>1, <1>2, InitialiseCreates DEF Kind, values
<1>4. Named("Registrar", record') =
        [governance_program_id |-> program, realm |-> realm, governing_token_mint |-> mint,
         min_trust_score |-> minScore, max_verification_age |-> maxAge]
  <2>1. /\ record'[2] = program /\ record'[3] = realm /\ record'[4] = mint
        /\ record'[5] = minScore /\ record'[6] = maxAge
    BY <1>2, <1>3
  <2>2. Named("Registrar", record') =
          [governance_program_id |-> record'[2], realm |-> record'[3],
           governing_token_mint |-> record'[4], min_trust_score |-> record'[5],
           max_verification_age |-> record'[6]]
    BY Zenon DEF Named
  <2> QED
    BY <2>1, <2>2, Zenon
<1> QED
  BY <1>3, <1>4 DEF Store!CreateRegistrar, Store!Of

LEMMA UpdateRegistrarMaps ==
  ASSUME LayoutInv, LayoutInv', ReadBack, ReadBack', UpdateRegistrar
  PROVE  Store!UpdateRegistrar
<1>1. PICK minScore \in Number16, maxAge \in Number64 :
        Assign("Registrar", 5, <<minScore, maxAge>>)
  BY DEF UpdateRegistrar
<1> DEFINE values == <<minScore, maxAge>>
<1>2. /\ Len(values) = 2 /\ Len(Fields("Registrar")) = 7
      /\ values[1] = minScore /\ values[2] = maxAge
  BY DEF Fields
<1> HIDE DEF values
<1>3. /\ kind = "Registrar" /\ kind' = "Registrar"
      /\ Account = {Named("Registrar", record)}
      /\ Account' = {Named("Registrar", record')}
      /\ \A j \in 1 .. Len(values) : record'[(5 + j) - 1] = values[j]
      /\ \A i \in 1 .. 5 - 1 : record'[i] = record[i]
  <2>1. Len(values) \in Nat /\ 5 + Len(values) - 1 <= Len(Fields("Registrar"))
    BY <1>2
  <2>2. Assign("Registrar", 5, values) /\ kind = "Registrar"
    BY <1>1 DEF values, Assign, Accepts
  <2> QED
    BY <2>1, <2>2, AssignChanges DEF Kind
<1>4. Named("Registrar", record') =
        [Named("Registrar", record) EXCEPT !.min_trust_score = minScore,
                                           !.max_verification_age = maxAge]
  <2>1. record'[2] = record[2] /\ record'[3] = record[3] /\ record'[4] = record[4]
    BY <1>3
  <2>2. record'[5] = minScore /\ record'[6] = maxAge
    <3>1. 1 \in 1 .. Len(values) /\ 2 \in 1 .. Len(values)
      BY <1>2
    <3>2. (5 + 1) - 1 = 5 /\ (5 + 2) - 1 = 6
      OBVIOUS
    <3> QED
      BY <1>2, <1>3, <3>1, <3>2
  <2> DEFINE old == Named("Registrar", record)
             between == [governance_program_id |-> record[2], realm |-> record[3],
                         governing_token_mint |-> record[4], min_trust_score |-> minScore,
                         max_verification_age |-> record[6]]
             new == [governance_program_id |-> record[2], realm |-> record[3],
                     governing_token_mint |-> record[4], min_trust_score |-> minScore,
                     max_verification_age |-> maxAge]
  <2>3. old = [governance_program_id |-> record[2], realm |-> record[3],
               governing_token_mint |-> record[4], min_trust_score |-> record[5],
               max_verification_age |-> record[6]]
    BY Zenon DEF Named
  <2>4. Named("Registrar", record') = new
    <3>1. Named("Registrar", record') =
            [governance_program_id |-> record'[2], realm |-> record'[3],
             governing_token_mint |-> record'[4], min_trust_score |-> record'[5],
             max_verification_age |-> record'[6]]
      BY Zenon DEF Named
    <3> QED
      BY <2>1, <2>2, <3>1, Zenon
  <2>5. [old EXCEPT !.min_trust_score = minScore] = between
    <3> HIDE DEF old
    <3> QED
      BY <2>3
  <2>6. [between EXCEPT !.max_verification_age = maxAge] = new
    OBVIOUS
  <2>7. [old EXCEPT !.min_trust_score = minScore, !.max_verification_age = maxAge]
          = [[old EXCEPT !.min_trust_score = minScore] EXCEPT !.max_verification_age = maxAge]
    BY Zenon
  <2> HIDE DEF between, new
  <2> QED
    BY <2>4, <2>5, <2>6, <2>7, Zenon
<1> QED
  BY <1>3, <1>4 DEF Store!UpdateRegistrar, Store!Of

LEMMA CreateVoterWeightRecordMaps ==
  ASSUME LayoutInv, LayoutInv', ReadBack, ReadBack', CreateVoterWeightRecord
  PROVE  Store!CreateVoterWeightRecord
<1>1. PICK realm \in Key, mint \in Key, owner \in Key :
        Initialise("VoterWeightRecord",
                   <<VoterTag, realm, mint, owner, NinthByte(owner), owner, owner, owner,
                     0, 0, None, None>>)
  BY DEF CreateVoterWeightRecord
<1> DEFINE ninth == NinthByte(owner)
           values == <<VoterTag, realm, mint, owner, ninth, owner, owner, owner,
                       0, 0, None, None>>
<1>5. ninth \in Value
  BY NinthByteWritten
<1>6. Initialise("VoterWeightRecord", values)
  BY <1>1
<1> HIDE DEF ninth
<1>2. /\ values \in Seq(Value) /\ Len(values) = 12
      /\ values[2] = realm /\ values[3] = mint /\ values[4] = owner /\ values[5] = ninth
      /\ values[9] = 0 /\ values[10] = 0
  BY <1>5, WrittenValues DEF Symbol
<1> HIDE DEF values
<1>3. /\ kind = "VoterWeightRecord" /\ kind' = "VoterWeightRecord"
      /\ Account = {} /\ Account' = {Named("VoterWeightRecord", record')}
      /\ \A i \in 1 .. Len(values) : record'[i] = values[i]
  BY <1>2, <1>6, InitialiseCreates DEF Kind
<1>4. Named("VoterWeightRecord", record') =
        [realm |-> realm, governing_token_mint |-> mint, governing_token_owner |-> owner,
         voter_weight |-> 0, voter_weight_expiry |-> 0]
  <2>1. /\ record'[2] = realm /\ record'[3] = mint /\ record'[4] = owner
        /\ record'[9] = 0 /\ record'[10] = 0
    BY <1>2, <1>3
  <2>2. Named("VoterWeightRecord", record') =
          [realm |-> record'[2], governing_token_mint |-> record'[3],
           governing_token_owner |-> IF record'[4] \in Key THEN record'[4] ELSE Overwritten,
           voter_weight |-> record'[9], voter_weight_expiry |-> record'[10]]
    BY Zenon DEF Named
  <2>3. (IF record'[4] \in Key THEN record'[4] ELSE Overwritten) = owner
    BY <2>1
  <2> QED
    BY <2>1, <2>2, <2>3, Zenon
<1> QED
  BY <1>3, <1>4 DEF Store!CreateVoterWeightRecord, Store!Of

LEMMA UpdateVoterWeightRecordMaps ==
  ASSUME LayoutInv, LayoutInv', ReadBack, ReadBack', UpdateVoterWeightRecord
  PROVE  Store!UpdateVoterWeightRecord
<1>1. PICK slot \in Number64 :
        Assign("VoterWeightRecord", 9, <<1, SaturatingAdd(slot, 100), None, None>>)
  BY DEF UpdateVoterWeightRecord
<1> DEFINE values == <<1, SaturatingAdd(slot, 100), None, None>>
<1>2. /\ Len(values) = 4 /\ Len(Fields("VoterWeightRecord")) = 13
      /\ values[1] = 1 /\ values[2] = SaturatingAdd(slot, 100)
      /\ values[3] = None /\ values[4] = None
  BY DEF Fields
<1> HIDE DEF values
<1>3. /\ kind = "VoterWeightRecord" /\ kind' = "VoterWeightRecord"
      /\ Account = {Named("VoterWeightRecord", record)}
      /\ Account' = {Named("VoterWeightRecord", record')}
      /\ \A j \in 1 .. Len(values) : record'[(9 + j) - 1] = values[j]
      /\ \A i \in 1 .. 9 - 1 : record'[i] = record[i]
  <2>1. Len(values) \in Nat /\ 9 + Len(values) - 1 <= Len(Fields("VoterWeightRecord"))
    <3>1. 4 \in Nat /\ 9 + 4 - 1 <= 13
      OBVIOUS
    <3> QED
      BY <1>2, <3>1, Zenon
  <2>2. Assign("VoterWeightRecord", 9, values) /\ kind = "VoterWeightRecord"
    BY <1>1 DEF values, Assign, Accepts
  <2> QED
    BY <2>1, <2>2, AssignChanges DEF Kind
<1>4. Named("VoterWeightRecord", record') =
        [Named("VoterWeightRecord", record) EXCEPT !.voter_weight = 1,
                                                   !.voter_weight_expiry = SaturatingAdd(slot, 100)]
  <2>1. record'[2] = record[2] /\ record'[3] = record[3] /\ record'[4] = record[4]
    BY <1>3
  <2>2. record'[9] = 1 /\ record'[10] = SaturatingAdd(slot, 100)
    <3>1. 1 \in 1 .. Len(values) /\ 2 \in 1 .. Len(values)
      BY <1>2
    <3>2. (9 + 1) - 1 = 9 /\ (9 + 2) - 1 = 10
      OBVIOUS
    <3> QED
      BY <1>2, <1>3, <3>1, <3>2
  <2> DEFINE old == Named("VoterWeightRecord", record)
             owner == IF record[4] \in Key THEN record[4] ELSE Overwritten
             between == [realm |-> record[2], governing_token_mint |-> record[3],
                         governing_token_owner |-> owner, voter_weight |-> 1,
                         voter_weight_expiry |-> record[10]]
             new == [realm |-> record[2], governing_token_mint |-> record[3],
                     governing_token_owner |-> owner, voter_weight |-> 1,
                     voter_weight_expiry |-> SaturatingAdd(slot, 100)]
  <2>3. old = [realm |-> record[2], governing_token_mint |-> record[3],
               governing_token_owner |-> owner, voter_weight |-> record[9],
               voter_weight_expiry |-> record[10]]
    BY Zenon DEF Named
  <2>4. Named("VoterWeightRecord", record') = new
    <3>1. Named("VoterWeightRecord", record') =
            [realm |-> record'[2], governing_token_mint |-> record'[3],
             governing_token_owner |-> IF record'[4] \in Key THEN record'[4] ELSE Overwritten,
             voter_weight |-> record'[9], voter_weight_expiry |-> record'[10]]
      BY Zenon DEF Named
    <3>2. (IF record'[4] \in Key THEN record'[4] ELSE Overwritten) = owner
      BY <2>1
    <3> HIDE DEF owner
    <3> QED
      BY <2>1, <2>2, <3>1, <3>2, Zenon
  <2> HIDE DEF owner
  <2>5. [old EXCEPT !.voter_weight = 1] = between
    <3> HIDE DEF old
    <3> QED
      BY <2>3
  <2>6. [between EXCEPT !.voter_weight_expiry = SaturatingAdd(slot, 100)] = new
    OBVIOUS
  <2>7. [old EXCEPT !.voter_weight = 1, !.voter_weight_expiry = SaturatingAdd(slot, 100)]
          = [[old EXCEPT !.voter_weight = 1]
             EXCEPT !.voter_weight_expiry = SaturatingAdd(slot, 100)]
    BY Zenon
  <2> HIDE DEF between, new
  <2> QED
    BY <2>4, <2>5, <2>6, <2>7, Zenon
<1> QED
  BY <1>3, <1>4 DEF Store!UpdateVoterWeightRecord, Store!Of

LEMMA CreateMaxVoterWeightRecordMaps ==
  ASSUME LayoutInv, LayoutInv', ReadBack, ReadBack', CreateMaxVoterWeightRecord
  PROVE  Store!CreateMaxVoterWeightRecord
<1>1. PICK realm \in Key, mint \in Key :
        Initialise("MaxVoterWeightRecord", <<MaxTag, realm, mint, 0, 0>>)
  BY DEF CreateMaxVoterWeightRecord
<1> DEFINE values == <<MaxTag, realm, mint, 0, 0>>
<1>2. /\ values \in Seq(Value) /\ Len(values) = 5
      /\ values[2] = realm /\ values[3] = mint /\ values[4] = 0 /\ values[5] = 0
  BY WrittenValues DEF Symbol
<1> HIDE DEF values
<1>3. /\ kind = "MaxVoterWeightRecord" /\ kind' = "MaxVoterWeightRecord"
      /\ Account = {} /\ Account' = {Named("MaxVoterWeightRecord", record')}
      /\ \A i \in 1 .. Len(values) : record'[i] = values[i]
  BY <1>1, <1>2, InitialiseCreates DEF Kind, values
<1>4. Named("MaxVoterWeightRecord", record') =
        [realm |-> realm, governing_token_mint |-> mint, max_voter_weight |-> 0,
         max_voter_weight_expiry |-> 0]
  <2>1. record'[2] = realm /\ record'[3] = mint /\ record'[4] = 0 /\ record'[5] = 0
    BY <1>2, <1>3
  <2>2. Named("MaxVoterWeightRecord", record') =
          [realm |-> record'[2], governing_token_mint |-> record'[3],
           max_voter_weight |-> record'[4], max_voter_weight_expiry |-> record'[5]]
    BY Zenon DEF Named
  <2> QED
    BY <2>1, <2>2, Zenon
<1> QED
  BY <1>3, <1>4 DEF Store!CreateMaxVoterWeightRecord, Store!Of

LEMMA UpdateMaxVoterWeightRecordMaps ==
  ASSUME LayoutInv, LayoutInv', ReadBack, ReadBack', UpdateMaxVoterWeightRecord,
         kind = "MaxVoterWeightRecord"
  PROVE  Store!UpdateMaxVoterWeightRecord
<1>1. PICK weight \in Number64 :
        Assign("MaxVoterWeightRecord", 4, <<weight, None>>)
  BY DEF UpdateMaxVoterWeightRecord
<1> DEFINE values == <<weight, None>>
<1>2. /\ Len(values) = 2 /\ Len(Fields("MaxVoterWeightRecord")) = 6
      /\ values[1] = weight /\ values[2] = None
  BY DEF Fields
<1> HIDE DEF values
<1>3. /\ kind = "MaxVoterWeightRecord" /\ kind' = "MaxVoterWeightRecord"
      /\ Account = {Named("MaxVoterWeightRecord", record)}
      /\ Account' = {Named("MaxVoterWeightRecord", record')}
      /\ \A j \in 1 .. Len(values) : record'[(4 + j) - 1] = values[j]
      /\ \A i \in 1 .. 4 - 1 : record'[i] = record[i]
  <2>1. Len(values) \in Nat /\ 4 + Len(values) - 1 <= Len(Fields("MaxVoterWeightRecord"))
    <3>1. 2 \in Nat /\ 4 + 2 - 1 <= 6
      OBVIOUS
    <3> QED
      BY <1>2, <3>1, Zenon
  <2>2. Assign("MaxVoterWeightRecord", 4, values)
    BY <1>1 DEF values
  <2> QED
    BY <2>1, <2>2, AssignChanges DEF Kind
<1>4. Named("MaxVoterWeightRecord", record') =
        [Named("MaxVoterWeightRecord", record) EXCEPT !.max_voter_weight = weight,
                                                      !.max_voter_weight_expiry = None]
  <2>1. record'[2] = record[2] /\ record'[3] = record[3]
    BY <1>3
  <2>2. record'[4] = weight /\ record'[5] = None
    <3>1. 1 \in 1 .. Len(values) /\ 2 \in 1 .. Len(values)
      BY <1>2
    <3>2. (4 + 1) - 1 = 4 /\ (4 + 2) - 1 = 5
      OBVIOUS
    <3> QED
      BY <1>2, <1>3, <3>1, <3>2
  <2> DEFINE old == Named("MaxVoterWeightRecord", record)
             between == [realm |-> record[2], governing_token_mint |-> record[3],
                         max_voter_weight |-> weight, max_voter_weight_expiry |-> record[5]]
             new == [realm |-> record[2], governing_token_mint |-> record[3],
                     max_voter_weight |-> weight, max_voter_weight_expiry |-> None]
  <2>3. old = [realm |-> record[2], governing_token_mint |-> record[3],
               max_voter_weight |-> record[4], max_voter_weight_expiry |-> record[5]]
    BY Zenon DEF Named
  <2>4. Named("MaxVoterWeightRecord", record') = new
    <3>1. Named("MaxVoterWeightRecord", record') =
            [realm |-> record'[2], governing_token_mint |-> record'[3],
             max_voter_weight |-> record'[4], max_voter_weight_expiry |-> record'[5]]
      BY Zenon DEF Named
    <3> QED
      BY <2>1, <2>2, <3>1, Zenon
  <2>5. [old EXCEPT !.max_voter_weight = weight] = between
    <3> HIDE DEF old
    <3> QED
      BY <2>3
  <2>6. [between EXCEPT !.max_voter_weight_expiry = None] = new
    OBVIOUS
  <2>7. [old EXCEPT !.max_voter_weight = weight, !.max_voter_weight_expiry = None]
          = [[old EXCEPT !.max_voter_weight = weight] EXCEPT !.max_voter_weight_expiry = None]
    BY Zenon
  <2> HIDE DEF between, new
  <2> QED
    BY <2>4, <2>5, <2>6, <2>7, Zenon
<1> QED
  BY <1>3, <1>4 DEF Store!UpdateMaxVoterWeightRecord, Store!Of

\* A voter weight record in its place maps to the loss of its owner, which has a key
\* that a max record can be read from, or is lost already.
LEMMA OverwriteOwnerMaps ==
  ASSUME LayoutInv, LayoutInv', ReadBack, ReadBack', OwnerTag, UpdateMaxVoterWeightRecord,
         kind = "VoterWeightRecord"
  PROVE  Store!OverwriteOwner
<1>1. PICK weight \in Number64 :
        Assign("MaxVoterWeightRecord", 4, <<weight, None>>)
  BY DEF UpdateMaxVoterWeightRecord
<1> DEFINE k == "VoterWeightRecord"
           owner == IF record[4] \in Key THEN record[4] ELSE Overwritten
           old == Named(k, record)
           new == Named(k, record')
<1>2. /\ data # <<>> /\ record[5] \in {0, 1} /\ kind' = kind
      /\ record' = OwnerReplaced(record, weight)
  BY <1>1, OwnerIsReplaced
<1>3. /\ record'[2] = record[2] /\ record'[3] = record[3] /\ record'[4] = weight
      /\ record'[5] = 0 /\ record'[9] = record[9] /\ record'[10] = record[10]
  BY <1>1, ReplacedOwner
<1>4. data' # <<>>
  <2>2. DOMAIN record = 1 .. 13
    BY <1>2, OwnerParts DEF LayoutInv
  <2>3. DOMAIN record' = 1 .. 13
    <3> DEFINE x == IF record[5] = 1 THEN record[7] ELSE record[6]
    <3>1. record' = [record EXCEPT ![4] = weight, ![5] = 0, ![6] = x]
      BY <1>2, Zenon DEF OwnerReplaced
    <3> HIDE DEF x
    <3> QED
      BY <2>2, <3>1
  <2>4. record' # <<>>
    <3>1. 1 \in DOMAIN record' /\ 1 \notin DOMAIN <<>>
      BY <2>3
    <3> QED
      BY <3>1, Zenon
  <2> QED
    BY <1>2, <2>4 DEF LayoutInv
<1>5. Account = {old} /\ Account' = {new}
  BY <1>2, <1>4 DEF Account, ReadBack
<1>6. weight \notin Key
  BY SymbolAssumption, NumbersFit DEF Symbol
<1>7. owner \in TagNone \cup TagSome \cup {Overwritten}
  <2>1. CASE record[4] \in Key
    <3>1. NinthByte(record[4]) \in {0, 1}
      BY <1>2, <2>1 DEF OwnerTag
    <3>2. record[4] \notin Nat
      BY <2>1, SymbolAssumption DEF Symbol
    <3>3. record[4] \in TagNone \cup TagSome
      BY <3>1, <3>2 DEF NinthByte
    <3> QED
      BY <2>1, <3>3
  <2>2. CASE record[4] \notin Key
    BY <2>2
  <2> QED
    BY <2>1, <2>2
<1>8. old = [realm |-> record[2], governing_token_mint |-> record[3],
             governing_token_owner |-> owner, voter_weight |-> record[9],
             voter_weight_expiry |-> record[10]]
  BY Zenon DEF Named
<1>9. new = [realm |-> record[2], governing_token_mint |-> record[3],
             governing_token_owner |-> Overwritten, voter_weight |-> record[9],
             voter_weight_expiry |-> record[10]]
  <2>1. new = [realm |-> record'[2], governing_token_mint |-> record'[3],
               governing_token_owner |-> IF record'[4] \in Key THEN record'[4] ELSE Overwritten,
               voter_weight |-> record'[9], voter_weight_expiry |-> record'[10]]
    BY Zenon DEF Named
  <2>2. (IF record'[4] \in Key THEN record'[4] ELSE Overwritten) = Overwritten
    BY <1>3, <1>6
  <2> HIDE DEF new
  <2> QED
    BY <1>3, <2>1, <2>2, Zenon
<1> HIDE DEF old, new, owner
<1>10. old.governing_token_owner = owner
  BY <1>8
<1>11. new = [old EXCEPT !.governing_token_owner = Overwritten]
  BY <1>8, <1>9
<1>12. \E a \in Account :
         /\ a.governing_token_owner \in TagNone \cup TagSome \cup {Overwritten}
         /\ Account' = {[a EXCEPT !.governing_token_owner = Overwritten]}
  BY <1>5, <1>7, <1>10, <1>11, Zenon
<1> QED
  BY <1>2, <1>12 DEF Store!OverwriteOwner, Store!Of

LEMMA CloseMaps ==
  ASSUME Close
  PROVE  Store!Close
<1>1. kind \in {"Registrar", "VoterWeightRecord"} /\ data # <<>> /\ data' = <<>> /\ kind' = kind
  BY DEF Close
<1>2. Account # {} /\ Account' = {}
  <2>1. kind # "IdentityState"
    BY <1>1
  <2> QED
    BY <1>1, <2>1 DEF Account
<1> QED
  BY <1>1, <1>2 DEF Store!Close, Store!Of

\* What the plugin makes of an identity is what was written, or nothing.
LEMMA VerifyIdentityMaps ==
  ASSUME IdentityRead', VerifyIdentity
  PROVE  Store!VerifyIdentity
<1>1. PICK tag \in {IdentityTag, OtherTag}, owner \in Key, score \in Number16,
           created \in Number64, verified \in Number64, size \in IdentitySize :
        record' = <<tag, owner, created, verified, score \div 100, score>>
  BY DEF VerifyIdentity
<1>2. kind = "IdentityState" /\ kind' = "IdentityState"
  BY DEF VerifyIdentity
<1>3. record'[4] = verified /\ record'[6] = score
  BY <1>1
<1>4. CASE data' # <<>> /\ PluginReads' # None
  <2>1. PluginReads' = [last_verification_timestamp |-> verified, trust_score |-> score]
    BY <1>2, <1>3, <1>4 DEF IdentityRead
  <2>2. Account' = {PluginReads'}
    BY <1>2, <1>4 DEF Account
  <2> QED
    BY <1>2, <2>1, <2>2 DEF Store!VerifyIdentity, Store!Of
<1>5. CASE data' = <<>> \/ PluginReads' = None
  <2>1. Account' = {}
    BY <1>2, <1>5 DEF Account
  <2> QED
    BY <1>2, <2>1 DEF Store!VerifyIdentity, Store!Of
<1> QED
  BY <1>4, <1>5

\* For all keys and all numbers that fit, the bytes implement the accounts of named
\* fields that the other modules keep: every instruction maps to the instruction
\* of the same name, and the update of a max record that is passed a voter weight
\* record to the loss of its owner.
THEOREM ImplementsStore == Spec => StorePromise
<1>1. Init => Store!StoreInit
  BY DEF Init, Store!StoreInit, Kind, Account
<1>2. /\ LayoutInv /\ LayoutInv' /\ ReadBack /\ ReadBack' /\ IdentityRead'
      /\ OwnerTag /\ [Next]_vars
      => [Store!StoreNext]_(Store!storeVars)
  <2> SUFFICES ASSUME LayoutInv, LayoutInv', ReadBack, ReadBack', IdentityRead', OwnerTag,
                      [Next]_vars
               PROVE  [Store!StoreNext]_(Store!storeVars)
    OBVIOUS
  <2>1. CASE CreateRegistrar
    BY <2>1, CreateRegistrarMaps DEF Store!StoreNext
  <2>2. CASE UpdateRegistrar
    BY <2>2, UpdateRegistrarMaps DEF Store!StoreNext
  <2>3. CASE CreateVoterWeightRecord
    BY <2>3, CreateVoterWeightRecordMaps DEF Store!StoreNext
  <2>4. CASE UpdateVoterWeightRecord
    BY <2>4, UpdateVoterWeightRecordMaps DEF Store!StoreNext
  <2>5. CASE CreateMaxVoterWeightRecord
    BY <2>5, CreateMaxVoterWeightRecordMaps DEF Store!StoreNext
  <2>6. CASE UpdateMaxVoterWeightRecord
    <3>1. kind = "MaxVoterWeightRecord" \/ kind = "VoterWeightRecord"
      BY <2>6 DEF UpdateMaxVoterWeightRecord, Assign, Accepts
    <3>2. CASE kind = "MaxVoterWeightRecord"
      BY <2>6, <3>2, UpdateMaxVoterWeightRecordMaps DEF Store!StoreNext
    <3>3. CASE kind = "VoterWeightRecord"
      BY <2>6, <3>3, OverwriteOwnerMaps DEF Store!StoreNext
    <3> QED
      BY <3>1, <3>2, <3>3
  <2>7. CASE Close
    BY <2>7, CloseMaps DEF Store!StoreNext
  <2>8. CASE VerifyIdentity
    BY <2>8, VerifyIdentityMaps DEF Store!StoreNext
  <2>9. CASE UNCHANGED vars
    <3>1. kind' = kind /\ Account' = Account
      BY <2>9 DEF vars, Account, PluginReads
    <3> QED
      BY <3>1 DEF Store!storeVars
  <2> QED
    BY <2>1, <2>2, <2>3, <2>4, <2>5, <2>6, <2>7, <2>8, <2>9 DEF Next
<1> QED
  BY <1>1, <1>2, LayoutInvHolds, ReadBackHolds, IdentityReadHolds, OwnerTagHolds, PTL
  DEF Spec, StorePromise, Store!StoreSpec

=============================================================================
