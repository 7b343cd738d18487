------------------------------ MODULE BorshProofs ------------------------------
(***************************************************************************)
(* What is written is what is read, for every number that fits its field,  *)
(* every list of fields and all values of them: lemmas about the operators *)
(* of AccountLayout, by induction over the bytes of a number and over the  *)
(* fields of a record.                                                     *)
(***************************************************************************)
EXTENDS AccountLayout, SequenceTheorems, WellFoundedInduction, TLAPS

-----------------------------------------------------------------------------
(* Induction and recursion, stated with sets and functions in place of     *)
(* predicates and operators                                                *)

\* A set that holds 0 and the successor of each of its numbers holds them all.
LEMMA Induction ==
  ASSUME NEW T, 0 \in T, \A n \in Nat : n \in T => n + 1 \in T
  PROVE  Nat \subseteq T
<1> DEFINE Less == {p \in Nat \X Nat : p[1] < p[2]}
           Rest == Nat \ T
<1>1. IsWellFoundedOn({p \in Nat \X Nat : p[1] < p[2]}, Nat)
  BY NatLessThanWellFounded DEF OpToRel
<1>2. SUFFICES ASSUME Rest # {} PROVE FALSE
  OBVIOUS
<1>3. PICK x \in Rest : \A y \in Rest : ~ (<<y, x>> \in Less)
  BY <1>1, <1>2, WFMin
<1>4. \A y \in Rest : ~ (y < x)
  BY <1>3
<1>5. x # 0 /\ x \in Nat /\ x - 1 \in Nat
  OBVIOUS
<1>6. x - 1 \in T
  BY <1>4, <1>5
<1> QED
  BY <1>5, <1>6

\* Induction up to a bound.
LEMMA InductionUpTo ==
  ASSUME NEW n \in Nat, NEW T, 0 \in T, \A i \in 0 .. n - 1 : i \in T => i + 1 \in T
  PROVE  0 .. n \subseteq T
<1> DEFINE U == {i \in Nat : i <= n => i \in T}
<1>1. \A i \in Nat : i \in U => i + 1 \in U
  OBVIOUS
<1>2. Nat \subseteq U
  <2> 0 \in U
    OBVIOUS
  <2> HIDE DEF U
  <2> QED
    BY <1>1, Induction
<1> QED
  BY <1>2

\* Induction down from a bound.
LEMMA InductionDownFrom ==
  ASSUME NEW n \in Nat, NEW T, n \in T, \A i \in 0 .. n - 1 : i + 1 \in T => i \in T
  PROVE  0 .. n \subseteq T
<1> DEFINE U == {i \in 0 .. n : n - i \in T}
<1>1. 0 \in U
  OBVIOUS
<1>2. ASSUME NEW i \in 0 .. n - 1, i \in U
      PROVE  i + 1 \in U
  <2>1. n - (i + 1) \in 0 .. n - 1 /\ (n - (i + 1)) + 1 = n - i
    OBVIOUS
  <2>2. n - (i + 1) \in T
    BY <1>2, <2>1
  <2> QED
    BY <2>2
<1>3. 0 .. n \subseteq U
  <2> HIDE DEF U
  <2> QED
    BY <1>1, <1>2, InductionUpTo
<1>4. ASSUME NEW i \in 0 .. n
      PROVE  i \in T
  <2>1. n - i \in 0 .. n /\ n - (n - i) = i
    OBVIOUS
  <2>2. n - i \in U
    BY <1>3, <2>1
  <2> QED
    BY <2>1, <2>2
<1> QED
  BY <1>4

\* step[i] takes each value of S to one of S.
StepsWithin(S, indices, step) == \A i \in indices, x \in S : step[i][x] \in S

\* f starts with a value of S and continues with step.
RunsUpTo(f, S, n, first, step) ==
  f \in [0 .. n -> S] /\ f[0] = first /\ \A i \in 1 .. n : f[i] = step[i][f[i - 1]]

\* f ends with a value of S and is continued backwards with step.
RunsDownFrom(f, S, n, last, step) ==
  f \in [0 .. n -> S] /\ f[n] = last /\ \A i \in 0 .. n - 1 : f[i] = step[i][f[i + 1]]

\* A first value and the steps define a sequence.
LEMMA RecursionUpTo ==
  ASSUME NEW S, NEW n \in Nat, NEW first \in S, NEW step, StepsWithin(S, 1 .. n, step)
  PROVE  \E f : RunsUpTo(f, S, n, first, step)
<1> DEFINE Exists(m) == \E f : RunsUpTo(f, S, m, first, step)
           T == {m \in 0 .. n : Exists(m)}
<1>1. Exists(0)
  <2>1. RunsUpTo([i \in 0 .. 0 |-> first], S, 0, first, step)
    BY DEF RunsUpTo
  <2> QED
    BY <2>1
<1>2. ASSUME NEW m \in 0 .. n - 1, Exists(m)
      PROVE  Exists(m + 1)
  <2>1. PICK f : RunsUpTo(f, S, m, first, step)
    BY <1>2
  <2> DEFINE g == [i \in 0 .. m + 1 |-> IF i = m + 1 THEN step[m + 1][f[m]] ELSE f[i]]
  <2>2. step[m + 1][f[m]] \in S
    BY <2>1 DEF StepsWithin, RunsUpTo
  <2>3. RunsUpTo(g, S, m + 1, first, step)
    BY <2>1, <2>2 DEF RunsUpTo
  <2> HIDE DEF g
  <2> QED
    BY <2>3
<1>3. 0 .. n \subseteq T
  <2> HIDE DEF Exists
  <2>1. 0 \in T /\ \A m \in 0 .. n - 1 : m \in T => m + 1 \in T
    BY <1>1, <1>2
  <2> HIDE DEF T
  <2> QED
    BY <2>1, InductionUpTo
<1> QED
  BY <1>3

\* The same from the last value back.
LEMMA RecursionDownFrom ==
  ASSUME NEW S, NEW n \in Nat, NEW last \in S, NEW step, StepsWithin(S, 0 .. n - 1, step)
  PROVE  \E f : RunsDownFrom(f, S, n, last, step)
<1> DEFINE back == [i \in 1 .. n |-> step[n - i]]
<1>1. StepsWithin(S, 1 .. n, back)
  BY DEF StepsWithin
<1>2. PICK g : RunsUpTo(g, S, n, last, back)
  <2> HIDE DEF back
  <2> QED
    BY <1>1, RecursionUpTo
<1> DEFINE f == [i \in 0 .. n |-> g[n - i]]
<1>3. f \in [0 .. n -> S] /\ f[n] = last
  BY <1>2 DEF RunsUpTo
<1>4. ASSUME NEW i \in 0 .. n - 1
      PROVE  f[i] = step[i][f[i + 1]]
  <2>1. n - i \in 1 .. n /\ n - (n - i) = i /\ (n - i) - 1 = n - (i + 1)
    OBVIOUS
  <2>2. back[n - i] = step[i]
    BY <2>1
  <2>3. g[n - i] = step[i][g[n - (i + 1)]]
    <3> HIDE DEF back
    <3> QED
      BY <1>2, <2>1, <2>2 DEF RunsUpTo
  <2> QED
    BY <2>3
<1>5. RunsDownFrom(f, S, n, last, step)
  <2> HIDE DEF f
  <2> QED
    BY <1>3, <1>4 DEF RunsDownFrom
<1> QED
  BY <1>5

-----------------------------------------------------------------------------
(* Numbers                                                                 *)

LEMMA DivStep ==
  ASSUME NEW x \in Nat
  PROVE  /\ x \div 256 \in Nat
         /\ x % 256 \in 0 .. 255
         /\ (x % 256) + 256 * (x \div 256) = x
OBVIOUS

\* left[i] is what is left of the number after i bytes.
Divided(left, number, width) ==
  /\ left \in [0 .. width -> Nat]
  /\ left[0] = number
  /\ \A i \in 1 .. width : left[i] = left[i - 1] \div 256

\* Quotients is the recursion it is written as.
LEMMA QuotientsStep ==
  ASSUME NEW number \in Nat, NEW width \in Nat
  PROVE  Divided(Quotients(number, width), number, width)
<1> DEFINE Q(f) == f = [i \in 0 .. width |-> IF i = 0 THEN number ELSE f[i - 1] \div 256]
           step == [i \in 1 .. width |-> [x \in Nat |-> x \div 256]]
<1>1. StepsWithin(Nat, 1 .. width, step)
  BY DivStep DEF StepsWithin
<1>2. PICK f : RunsUpTo(f, Nat, width, number, step)
  <2> HIDE DEF step
  <2> QED
    BY <1>1, RecursionUpTo
<1>3. Q(f)
  <2>1. f = [i \in 0 .. width |-> f[i]]
    BY <1>2 DEF RunsUpTo
  <2>2. ASSUME NEW i \in 1 .. width
        PROVE  f[i] = f[i - 1] \div 256
    <3>1. f[i] = step[i][f[i - 1]] /\ f[i - 1] \in Nat
      BY <1>2 DEF RunsUpTo
    <3> QED
      BY <3>1
  <2>3. f[0] = number
    BY <1>2 DEF RunsUpTo
  <2>4. \A i \in 0 .. width : i = 0 \/ i \in 1 .. width
    OBVIOUS
  <2>5. \A i \in 0 .. width : f[i] = IF i = 0 THEN number ELSE f[i - 1] \div 256
    BY <2>2, <2>3, <2>4
  <2> QED
    BY <2>1, <2>5
<1>4. Quotients(number, width) = CHOOSE g : Q(g)
  BY DEF Quotients
<1>5. Q(Quotients(number, width))
  <2> HIDE DEF Q
  <2> QED
    BY <1>3, <1>4
<1>6. ASSUME NEW g, Q(g)
      PROVE  /\ g[0] = number
             /\ \A i \in 1 .. width : g[i] = g[i - 1] \div 256
  BY <1>6
<1>7. ASSUME NEW g, Q(g)
      PROVE  g \in [0 .. width -> Nat]
  <2> DEFINE T == {i \in 0 .. width : g[i] \in Nat}
  <2>1. 0 \in T /\ \A i \in 0 .. width - 1 : i \in T => i + 1 \in T
    <3>1. ASSUME NEW i \in 0 .. width - 1, g[i] \in Nat
          PROVE  g[i + 1] \in Nat
      <4>1. g[i + 1] = g[i] \div 256
        BY <1>6, <1>7
      <4> QED
        BY <4>1, <3>1, DivStep
    <3> QED
      BY <3>1, <1>6, <1>7
  <2>2. 0 .. width \subseteq T
    <3> HIDE DEF T
    <3> QED
      BY <2>1, InductionUpTo
  <2>3. g = [i \in 0 .. width |-> g[i]]
    BY <1>7
  <2> QED
    BY <2>2, <2>3
<1> QED
  <2> HIDE DEF Q
  <2> QED
    BY <1>5, <1>6, <1>7 DEF Divided

AreBytes(bytes, n) == Len(bytes) = n /\ \A i \in 1 .. n : bytes[i] \in 0 .. 255

\* Sums is the recursion it is written as.
LEMMA SumsStep ==
  ASSUME NEW n \in Nat, NEW bytes, AreBytes(bytes, n)
  PROVE  /\ Sums(bytes)[n] = 0
         /\ \A i \in 0 .. n - 1 : Sums(bytes)[i] = bytes[i + 1] + 256 * Sums(bytes)[i + 1]
<1> DEFINE Q(f) == f = [i \in 0 .. n |-> IF i = n THEN 0 ELSE bytes[i + 1] + 256 * f[i + 1]]
           step == [i \in 0 .. n - 1 |-> [x \in Nat |-> bytes[i + 1] + 256 * x]]
<1>0. ASSUME NEW i \in 0 .. n - 1
      PROVE  bytes[i + 1] \in Nat
  <2>1. i + 1 \in 1 .. n
    OBVIOUS
  <2>2. bytes[i + 1] \in 0 .. 255
    BY <2>1 DEF AreBytes
  <2> QED
    BY <2>2
<1>1. StepsWithin(Nat, 0 .. n - 1, step)
  <2>1. ASSUME NEW i \in 0 .. n - 1, NEW x \in Nat
        PROVE  step[i][x] \in Nat
    <3>1. bytes[i + 1] \in Nat
      BY <1>0
    <3>2. bytes[i + 1] + 256 * x \in Nat
      BY <3>1
    <3> QED
      BY <3>2
  <2> HIDE DEF step
  <2> QED
    BY <2>1 DEF StepsWithin
<1>2. PICK f : RunsDownFrom(f, Nat, n, 0, step)
  <2> HIDE DEF step
  <2> QED
    BY <1>0, <1>1, RecursionDownFrom
<1>3. Q(f)
  <2>1. f = [i \in 0 .. n |-> f[i]]
    BY <1>2 DEF RunsDownFrom
  <2>2. ASSUME NEW i \in 0 .. n - 1
        PROVE  f[i] = bytes[i + 1] + 256 * f[i + 1]
    <3>1. f[i + 1] \in Nat
      BY <1>2 DEF RunsDownFrom
    <3>2. f[i] = step[i][f[i + 1]]
      <4> HIDE DEF step
      <4> QED
        BY <1>2 DEF RunsDownFrom
    <3> QED
      BY <3>1, <3>2
  <2>3. f[n] = 0
    BY <1>2 DEF RunsDownFrom
  <2>4. \A i \in 0 .. n : i # n => i \in 0 .. n - 1
    OBVIOUS
  <2>5. \A i \in 0 .. n : f[i] = IF i = n THEN 0 ELSE bytes[i + 1] + 256 * f[i + 1]
    BY <2>2, <2>3, <2>4
  <2> QED
    BY <2>1, <2>5
<1>4. Sums(bytes) = CHOOSE g : Q(g)
  BY DEF Sums, AreBytes
<1>5. Q(Sums(bytes))
  <2> HIDE DEF Q
  <2> QED
    BY <1>3, <1>4
<1>6. ASSUME NEW g, Q(g)
      PROVE  /\ g[n] = 0
             /\ \A i \in 0 .. n - 1 : g[i] = bytes[i + 1] + 256 * g[i + 1]
  BY <1>0, <1>6
<1> QED
  <2> HIDE DEF Q
  <2> QED
    BY <1>5, <1>6

LEMMA LittleEndianType ==
  ASSUME NEW number \in Nat, NEW width \in Nat
  PROVE  /\ LittleEndian(number, width) \in Seq(0 .. 255)
         /\ AreBytes(LittleEndian(number, width), width)
         /\ \A i \in 1 .. width :
              LittleEndian(number, width)[i] = Quotients(number, width)[i - 1] % 256
<1>1. ASSUME NEW i \in 1 .. width
      PROVE  Quotients(number, width)[i - 1] % 256 \in 0 .. 255
  <2>1. Quotients(number, width)[i - 1] \in Nat
    BY QuotientsStep DEF Divided
  <2> QED
    BY <2>1, DivStep
<1>2. LittleEndian(number, width) = [i \in 1 .. width |-> Quotients(number, width)[i - 1] % 256]
  BY DEF LittleEndian
<1>3. LittleEndian(number, width) \in [1 .. width -> 0 .. 255]
  BY <1>1, <1>2
<1>4. LittleEndian(number, width) \in Seq(0 .. 255) /\ Len(LittleEndian(number, width)) = width
  BY <1>3
<1>5. \A i \in 1 .. width :
        /\ LittleEndian(number, width)[i] = Quotients(number, width)[i - 1] % 256
        /\ LittleEndian(number, width)[i] \in 0 .. 255
  BY <1>1, <1>2
<1> QED
  BY <1>4, <1>5 DEF AreBytes

\* A number that fits is read back from its bytes.
LEMMA NumberReadBack ==
  ASSUME NEW number \in Nat, NEW width \in Nat, Fits(number, width)
  PROVE  FromLittleEndian(LittleEndian(number, width)) = number
<1> DEFINE bytes == LittleEndian(number, width)
           left == Quotients(number, width)
           sum == Sums(bytes)
           T == {i \in 0 .. width : sum[i] = left[i]}
<1>1. /\ AreBytes(bytes, width)
      /\ \A i \in 1 .. width : bytes[i] = left[i - 1] % 256
  BY LittleEndianType
<1>2. /\ left \in [0 .. width -> Nat] /\ left[0] = number
      /\ \A i \in 1 .. width : left[i] = left[i - 1] \div 256
  <2>1. Divided(left, number, width)
    BY QuotientsStep
  <2> HIDE DEF left
  <2> QED
    BY <2>1 DEF Divided
<1>9. left[width] = 0
  BY DEF Fits
<1>3. /\ sum[width] = 0
      /\ \A i \in 0 .. width - 1 : sum[i] = bytes[i + 1] + 256 * sum[i + 1]
  <2> HIDE DEF bytes
  <2> QED
    BY <1>1, SumsStep
<1>4. FromLittleEndian(bytes) = sum[0]
  BY DEF FromLittleEndian
<1> HIDE DEF bytes, left, sum
<1>5. width \in T
  BY <1>9, <1>3
<1>6. ASSUME NEW i \in 0 .. width - 1, i + 1 \in T
      PROVE  i \in T
  <2>1. bytes[i + 1] = left[i] % 256 /\ left[i + 1] = left[i] \div 256 /\ left[i] \in Nat
    BY <1>1, <1>2
  <2>2. sum[i] = (left[i] % 256) + 256 * (left[i] \div 256)
    BY <1>3, <1>6, <2>1
  <2>3. sum[i] = left[i]
    BY <2>1, <2>2, DivStep
  <2> QED
    BY <2>3
<1>7. 0 .. width \subseteq T
  <2> HIDE DEF T
  <2> QED
    BY <1>5, <1>6, InductionDownFrom
<1>8. sum[0] = number
  BY <1>2, <1>7
<1> QED
  BY <1>4, <1>8 DEF bytes

-----------------------------------------------------------------------------
(* Parts of sequences                                                      *)

Byte == 0 .. 255 \cup Symbol

\* What is put in front of a sequence is its first part, and can be dropped.
LEMMA PartsOfConcat ==
  ASSUME NEW S, NEW s \in Seq(S), NEW t \in Seq(S)
  PROVE  /\ s \o t \in Seq(S)
         /\ Len(s \o t) = Len(s) + Len(t)
         /\ Take(s \o t, Len(s)) = s
         /\ Drop(s \o t, Len(s)) = t
<1>1. /\ s \o t \in Seq(S) /\ Len(s \o t) = Len(s) + Len(t)
      /\ Len(s) \in Nat /\ Len(t) \in Nat
      /\ \A i \in 1 .. Len(s) + Len(t) :
           (s \o t)[i] = IF i <= Len(s) THEN s[i] ELSE t[i - Len(s)]
  BY ConcatProperties, LenProperties
<1> DEFINE u == s \o t
<1>2. \A i \in 1 .. Len(s) + Len(t) : u[i] \in S
  BY <1>1, ElementOfSeq
<1> HIDE DEF u
<1>3. Take(u, Len(s)) = s
  <2>1. /\ SubSeq(u, 1, Len(s)) \in Seq(S)
        /\ Len(SubSeq(u, 1, Len(s))) = Len(s)
        /\ \A i \in 1 .. Len(s) : SubSeq(u, 1, Len(s))[i] = u[i]
    BY <1>1, <1>2, SubSeqProperties
  <2>2. \A i \in 1 .. Len(s) : u[i] = s[i]
    BY <1>1 DEF u
  <2> QED
    BY <2>1, <2>2, SeqEqual DEF Take
<1>4. Drop(u, Len(s)) = t
  <2> DEFINE d == SubSeq(u, Len(s) + 1, Len(s) + Len(t))
  <2>1. /\ d \in Seq(S)
        /\ Len(d) = Len(t)
        /\ \A i \in 1 .. Len(t) : d[i] = u[Len(s) + i]
    BY <1>1, <1>2, SubSeqProperties
  <2>2. \A i \in 1 .. Len(t) : u[Len(s) + i] = t[i]
    BY <1>1 DEF u
  <2>3. Drop(u, Len(s)) = d
    BY <1>1 DEF Drop, u
  <2> HIDE DEF d
  <2> QED
    BY <2>1, <2>2, <2>3, SeqEqual
<1> QED
  BY <1>1, <1>3, <1>4 DEF u

\* A slice behind the first part is a slice of the second.
LEMMA SliceOfConcat ==
  ASSUME NEW S, NEW s \in Seq(S), NEW t \in Seq(S), NEW offset \in Nat, NEW width \in Nat,
         offset >= Len(s), offset + width <= Len(s) + Len(t)
  PROVE  Slice(s \o t, offset, width) = Slice(t, offset - Len(s), width)
<1>1. /\ Len(s) \in Nat /\ Len(t) \in Nat
      /\ \A i \in 1 .. Len(s) + Len(t) :
           (s \o t)[i] = IF i <= Len(s) THEN s[i] ELSE t[i - Len(s)]
  BY ConcatProperties, LenProperties
<1> DEFINE u == s \o t
           n == Len(s)
           a == SubSeq(u, offset + 1, offset + width)
           b == SubSeq(t, (offset - n) + 1, (offset - n) + width)
<1>2. /\ \A i \in offset + 1 .. offset + width : u[i] = t[i - n] /\ t[i - n] \in S
      /\ \A i \in (offset - n) + 1 .. (offset - n) + width : t[i] \in S
  BY <1>1, ElementOfSeq
<1> HIDE DEF u, n
<1>3. n \in Nat /\ n <= offset
  BY <1>1 DEF n
<1>4. /\ a \in Seq(S) /\ Len(a) = width
      /\ \A i \in 1 .. width : a[i] = u[(offset + 1) + i - 1]
  BY <1>2, <1>3, SubSeqProperties
<1>5. /\ b \in Seq(S) /\ Len(b) = width
      /\ \A i \in 1 .. width : b[i] = t[((offset - n) + 1) + i - 1]
  BY <1>2, <1>3, SubSeqProperties
<1>6. \A i \in 1 .. width : a[i] = b[i]
  <2> TAKE i \in 1 .. width
  <2>1. /\ (offset + 1) + i - 1 \in offset + 1 .. offset + width
        /\ ((offset + 1) + i - 1) - n = ((offset - n) + 1) + i - 1
    BY <1>3
  <2> QED
    BY <2>1, <1>2, <1>4, <1>5
<1>7. a = b
  <2> HIDE DEF a, b
  <2> QED
    BY <1>4, <1>5, <1>6, SeqEqual
<1> QED
  BY <1>7 DEF Slice, u, n

LEMMA BytesJoin == \A s, t \in Seq(Byte) : s \o t \in Seq(Byte) /\ Len(s \o t) = Len(s) + Len(t)
  BY ConcatProperties

LEMMA BytesAssociate == \A s, t, u \in Seq(Byte) : (s \o t) \o u = s \o (t \o u)
  BY ConcatAssociative

LEMMA BytesPart == \A s, t \in Seq(Byte) : Take(s \o t, Len(s)) = s /\ Drop(s \o t, Len(s)) = t
  BY PartsOfConcat

-----------------------------------------------------------------------------
(* Values and fields                                                       *)

ValueFits(v, width) == v \in Symbol \/ (v \in Nat /\ Fits(v, width))

LEMMA ValueWritten ==
  ASSUME NEW width \in Nat, NEW v, v \in Symbol \/ v \in Nat
  PROVE  ToBytes(v, width) \in Seq(Byte) /\ Len(ToBytes(v, width)) = width
<1>1. CASE v \in Symbol
  BY <1>1 DEF ToBytes, Byte
<1>2. CASE v \notin Symbol /\ v \in Nat
  <2>1. LittleEndian(v, width) \in Seq(0 .. 255) /\ Len(LittleEndian(v, width)) = width
    BY <1>2, LittleEndianType DEF AreBytes
  <2>2. LittleEndian(v, width) \in Seq(Byte)
    <3>1. 0 .. 255 \subseteq Byte
      BY DEF Byte
    <3> QED
      BY <2>1, <3>1, SeqMonotonic
  <2> QED
    BY <1>2, <2>1, <2>2 DEF ToBytes
<1> QED
  BY <1>1, <1>2

\* A value is read back from its bytes.
LEMMA ValueReadBack ==
  ASSUME NEW width \in Nat \ {0}, NEW v, ValueFits(v, width)
  PROVE  FromBytes(ToBytes(v, width)) = v
<1> DEFINE bytes == ToBytes(v, width)
<1>1. DOMAIN bytes = 1 .. width /\ 1 \in 1 .. width
  <2>1. bytes \in Seq(Byte) /\ Len(bytes) = width
    BY ValueWritten DEF ValueFits
  <2> HIDE DEF bytes
  <2> QED
    BY <2>1, LenProperties
<1>2. CASE v \in Symbol
  <2>1. \A i \in DOMAIN bytes : bytes[i] = v
    BY <1>2 DEF ToBytes
  <2>2. v \notin 0 .. 255
    BY <1>2, SymbolAssumption
  <2> HIDE DEF bytes
  <2>3. ~ \A i \in DOMAIN bytes : bytes[i] \in 0 .. 255
    BY <1>1, <2>1, <2>2
  <2>4. bytes[1] = v /\ \E s \in Symbol : \A i \in DOMAIN bytes : bytes[i] = s
    BY <1>1, <1>2, <2>1
  <2>5. FromBytes(bytes) = bytes[1]
    BY <2>3, <2>4 DEF FromBytes
  <2> QED
    BY <2>4, <2>5 DEF bytes
<1>3. CASE v \notin Symbol
  <2>1. v \in Nat /\ Fits(v, width) /\ bytes = LittleEndian(v, width)
    BY <1>3 DEF ValueFits, ToBytes
  <2>2. FromLittleEndian(bytes) = v
    BY <2>1, NumberReadBack
  <2>3. \A i \in 1 .. width : bytes[i] \in 0 .. 255
    <3>1. AreBytes(LittleEndian(v, width), width)
      BY <2>1, LittleEndianType
    <3> QED
      BY <2>1, <3>1 DEF AreBytes
  <2> HIDE DEF bytes
  <2>4. \A s \in Symbol : bytes[1] # s
    <3>0. bytes[1] \in 0 .. 255
      BY <1>1, <2>3, Zenon
    <3>1. bytes[1] \in Nat
      BY <3>0
    <3> QED
      BY <3>1, SymbolAssumption
  <2>5. FromBytes(bytes) = FromLittleEndian(bytes)
    BY <1>1, <2>3, <2>4 DEF FromBytes
  <2> QED
    BY <2>2, <2>5 DEF bytes
<1> QED
  BY <1>2, <1>3

FieldType == [tag : {0, 1}, width : Nat \ {0}]

\* A value of the field: one of its width, or None in an optional field.
FieldFits(field, v) == ValueFits(v, field.width) \/ (field.tag = 1 /\ v = None)

\* An encoded field has its width, its tag, and for None the tag only.
LEMMA FieldWritten ==
  ASSUME NEW field \in FieldType, NEW v, FieldFits(field, v)
  PROVE  /\ EncodeField(field, v) \in Seq(Byte)
         /\ Len(EncodeField(field, v)) =
              IF field.tag = 1 /\ v = None THEN 1 ELSE field.tag + field.width
<1>0. /\ field.tag \in {0, 1} /\ field.width \in Nat
      /\ 0 \in Byte /\ 1 \in Byte
  BY DEF FieldType, Byte
<1>1. CASE field.tag = 1 /\ v = None
  <2>1. EncodeField(field, v) = <<0>>
    BY <1>1 DEF EncodeField
  <2> QED
    BY <1>0, <1>1, <2>1
<1>2. CASE ~ (field.tag = 1 /\ v = None)
  <2> DEFINE bytes == ToBytes(v, field.width)
  <2>1. bytes \in Seq(Byte) /\ Len(bytes) = field.width
    BY <1>0, <1>2, ValueWritten DEF FieldFits, ValueFits
  <2>2. CASE field.tag = 0
    BY <2>1, <2>2, <1>0 DEF EncodeField
  <2>3. CASE field.tag = 1
    <3>1. EncodeField(field, v) = <<1>> \o bytes
      BY <1>2, <2>3 DEF EncodeField
    <3>2. <<1>> \in Seq(Byte) /\ Len(<<1>>) = 1
      BY <1>0
    <3> HIDE DEF bytes
    <3>3. <<1>> \o bytes \in Seq(Byte) /\ Len(<<1>> \o bytes) = 1 + field.width
      BY <2>1, <3>2, ConcatProperties
    <3> QED
      BY <1>2, <2>3, <3>1, <3>3
  <2> QED
    BY <1>0, <2>2, <2>3
<1> QED
  BY <1>1, <1>2

\* A field at the front of the data is read back, and what follows it is what
\* was written behind it.
LEMMA FieldReadBack ==
  ASSUME NEW field \in FieldType, NEW v, FieldFits(field, v), NEW rest \in Seq(Byte)
  PROVE  /\ DecodeField(field, EncodeField(field, v) \o rest) = v
         /\ LengthOf(field, EncodeField(field, v) \o rest) = Len(EncodeField(field, v))
<1> DEFINE first == EncodeField(field, v)
           buffer == first \o rest
<1>0. /\ field.tag \in {0, 1} /\ field.width \in Nat \ {0}
      /\ 0 \in Byte /\ 1 \in Byte
  BY DEF FieldType, Byte
<1>1. /\ first \in Seq(Byte)
      /\ Len(first) = IF field.tag = 1 /\ v = None THEN 1 ELSE field.tag + field.width
  BY FieldWritten
<1>2. Take(buffer, Len(first)) = first
  <2> HIDE DEF first
  <2> QED
    BY <1>1, PartsOfConcat
<1>3. CASE field.tag = 0
  <2>1. first = ToBytes(v, field.width) /\ Len(first) = field.width
    BY <1>0, <1>1, <1>3 DEF EncodeField
  <2>2. FromBytes(first) = v
    BY <1>0, <1>3, <2>1, ValueReadBack DEF FieldFits
  <2> HIDE DEF first, buffer
  <2>3. DecodeField(field, buffer) = v
    BY <1>2, <1>3, <2>1, <2>2 DEF DecodeField
  <2>4. LengthOf(field, buffer) = Len(first)
    BY <1>0, <1>3, <2>1 DEF LengthOf
  <2> QED
    BY <2>3, <2>4 DEF first, buffer
<1>4. CASE field.tag = 1 /\ v = None
  <2>1. first = <<0>> /\ Len(first) = 1
    BY <1>4 DEF EncodeField
  <2>2. buffer[1] = 0
    BY <1>0, <2>1, ConcatProperties
  <2> HIDE DEF first, buffer
  <2> QED
    BY <1>4, <2>1, <2>2 DEF DecodeField, LengthOf, first, buffer
<1>5. CASE field.tag = 1 /\ v # None
  <2> DEFINE bytes == ToBytes(v, field.width)
  <2>1. first = <<1>> \o bytes
    BY <1>5 DEF EncodeField
  <2>2. bytes \in Seq(Byte) /\ Len(bytes) = field.width /\ FromBytes(bytes) = v
    BY <1>0, <1>5, ValueWritten, ValueReadBack DEF FieldFits, ValueFits
  <2>3. <<1>> \in Seq(Byte) /\ Len(<<1>>) = 1
    BY <1>0
  <2> HIDE DEF bytes
  <2>4. bytes \o rest \in Seq(Byte) /\ Len(bytes \o rest) = Len(bytes) + Len(rest)
    BY <2>2, ConcatProperties
  <2>5. buffer = <<1>> \o (bytes \o rest)
    BY <2>1, <2>2, <2>3, ConcatAssociative
  <2>6. buffer[1] = 1
    BY <2>3, <2>4, <2>5, ConcatProperties
  <2>7. Slice(buffer, 1, field.width) = bytes
    <3> DEFINE tail == bytes \o rest
               one == <<1>>
    <3>0. /\ one \in Seq(Byte) /\ Len(one) = 1 /\ tail \in Seq(Byte)
          /\ 1 + field.width <= Len(one) + Len(tail)
      BY <1>0, <2>2, <2>3, <2>4, LenProperties
    <3>4. Slice(one \o tail, 1, field.width) = Slice(tail, 1 - Len(one), field.width)
      <4>1. \A offset, width \in Nat :
              offset >= Len(one) /\ offset + width <= Len(one) + Len(tail)
                => Slice(one \o tail, offset, width) = Slice(tail, offset - Len(one), width)
        <5> HIDE DEF one, tail
        <5> QED
          BY <3>0, SliceOfConcat
      <4> HIDE DEF one, tail
      <4> QED
        BY <1>0, <3>0, <4>1
    <3>1. Slice(<<1>> \o (bytes \o rest), 1, field.width) = Slice(bytes \o rest, 0, field.width)
      BY <3>0, <3>4
    <3>2. Slice(bytes \o rest, 0, field.width) = Take(bytes \o rest, Len(bytes))
      BY <1>0, <2>2 DEF Slice, Take
    <3>3. Take(bytes \o rest, Len(bytes)) = bytes
      BY <2>2, PartsOfConcat
    <3> QED
      BY <2>5, <3>1, <3>2, <3>3
  <2> HIDE DEF first, buffer
  <2>8. DecodeField(field, buffer) = v
    BY <1>5, <2>2, <2>6, <2>7 DEF DecodeField
  <2>9. LengthOf(field, buffer) = Len(first)
    BY <1>0, <1>1, <1>5, <2>6 DEF LengthOf
  <2> QED
    BY <2>8, <2>9 DEF first, buffer
<1> QED
  BY <1>0, <1>3, <1>4, <1>5

-----------------------------------------------------------------------------
(* Records                                                                 *)

Value == Symbol \cup Nat \cup {None}

IsLayout(fields, n) == Len(fields) = n /\ \A i \in 1 .. n : fields[i] \in FieldType

RecordFits(fields, n, values) ==
  values \in [1 .. n -> Value] /\ \A i \in 1 .. n : FieldFits(fields[i], values[i])

\* after[i] is what is written after the i-th field.
WrittenAfter(after, n, fields, values) ==
  /\ \A i \in 0 .. n : after[i] \in Seq(Byte)
  /\ after[n] = <<>>
  /\ \A i \in 0 .. n - 1 : after[i] = EncodeField(fields[i + 1], values[i + 1]) \o after[i + 1]

\* left[i] is what is left to read after the i-th field.
LeftAfter(left, n, fields, bytes) ==
  /\ left[0] = bytes
  /\ \A i \in 1 .. n : left[i] = Drop(left[i - 1], LengthOf(fields[i], left[i - 1]))

\* Encodings is the recursion it is written as.
LEMMA EncodingsStep ==
  ASSUME NEW n \in Nat, NEW fields, NEW values,
         IsLayout(fields, n), RecordFits(fields, n, values)
  PROVE  WrittenAfter(Encodings(fields, values), n, fields, values)
<1> DEFINE bytes(i) == EncodeField(fields[i], values[i])
           S == Seq(Byte)
           Q(f) == f = [i \in 0 .. n |-> IF i = n THEN <<>> ELSE bytes(i + 1) \o f[i + 1]]
           step == [i \in 0 .. n - 1 |-> [x \in S |-> bytes(i + 1) \o x]]
<1>0. ASSUME NEW i \in 0 .. n - 1, NEW x \in S
      PROVE  bytes(i + 1) \o x \in S
  <2>1. i + 1 \in 1 .. n
    OBVIOUS
  <2>2. fields[i + 1] \in FieldType /\ FieldFits(fields[i + 1], values[i + 1])
    BY <2>1 DEF IsLayout, RecordFits
  <2>3. bytes(i + 1) \in Seq(Byte)
    BY <2>2, FieldWritten
  <2> HIDE DEF bytes
  <2> QED
    BY <2>3, ConcatProperties
<1> HIDE DEF bytes
<1>1. StepsWithin(S, 0 .. n - 1, step)
  <2>1. \A i \in 0 .. n - 1, x \in S : step[i][x] = bytes(i + 1) \o x
    OBVIOUS
  <2> HIDE DEF step, S
  <2> QED
    BY <1>0, <2>1 DEF StepsWithin
<1>2. <<>> \in S
  BY EmptySeq
<1> HIDE DEF S
<1>3. PICK f : RunsDownFrom(f, S, n, <<>>, step)
  <2> HIDE DEF step
  <2> QED
    BY <1>1, <1>2, RecursionDownFrom
<1>4. Q(f)
  <2>1. f = [i \in 0 .. n |-> f[i]]
    BY <1>3 DEF RunsDownFrom
  <2>2. ASSUME NEW i \in 0 .. n - 1
        PROVE  f[i] = bytes(i + 1) \o f[i + 1]
    <3>1. f[i + 1] \in S
      BY <1>3 DEF RunsDownFrom
    <3>2. f[i] = step[i][f[i + 1]]
      <4> HIDE DEF step
      <4> QED
        BY <1>3 DEF RunsDownFrom
    <3> QED
      BY <3>1, <3>2
  <2>3. f[n] = <<>>
    BY <1>3 DEF RunsDownFrom
  <2>4. \A i \in 0 .. n : i # n => i \in 0 .. n - 1
    OBVIOUS
  <2>5. \A i \in 0 .. n : f[i] = IF i = n THEN <<>> ELSE bytes(i + 1) \o f[i + 1]
    BY <2>2, <2>3, <2>4
  <2> QED
    BY <2>1, <2>5
<1>5. Encodings(fields, values) = CHOOSE g : Q(g)
  BY DEF Encodings, IsLayout, bytes
<1>6. Q(Encodings(fields, values))
  <2> HIDE DEF Q
  <2> QED
    BY <1>4, <1>5
<1>7. ASSUME NEW g, Q(g)
      PROVE  /\ g[n] = <<>>
             /\ \A i \in 0 .. n - 1 : g[i] = bytes(i + 1) \o g[i + 1]
  BY <1>7
<1>8. ASSUME NEW g, Q(g)
      PROVE  \A i \in 0 .. n : g[i] \in S
  <2> DEFINE T == {i \in 0 .. n : g[i] \in S}
  <2>1. g[n] \in S
    BY <1>2, <1>7, <1>8
  <2>2. ASSUME NEW i \in 0 .. n - 1, g[i + 1] \in S
        PROVE  g[i] \in S
    <3>1. g[i] = bytes(i + 1) \o g[i + 1]
      BY <1>7, <1>8
    <3> QED
      BY <3>1, <2>2, <1>0
  <2>3. n \in T /\ \A i \in 0 .. n - 1 : i + 1 \in T => i \in T
    BY <2>1, <2>2
  <2>4. 0 .. n \subseteq T
    <3> HIDE DEF T
    <3> QED
      BY <2>3, InductionDownFrom
  <2> QED
    BY <2>4
<1> QED
  <2> HIDE DEF Q
  <2> QED
    BY <1>6, <1>7, <1>8 DEF S, bytes, WrittenAfter

\* Buffers is the recursion it is written as.
LEMMA BuffersStep ==
  ASSUME NEW n \in Nat, NEW fields, IsLayout(fields, n), NEW bytes \in Seq(Byte)
  PROVE  LeftAfter(Buffers(fields, bytes), n, fields, bytes)
<1> DEFINE next(i, x) == Drop(x, LengthOf(fields[i], x))
           S == Seq(Byte)
           Q(f) == f = [i \in 0 .. n |-> IF i = 0 THEN bytes ELSE next(i, f[i - 1])]
           step == [i \in 1 .. n |-> [x \in S |-> next(i, x)]]
<1>0. ASSUME NEW i \in 1 .. n, NEW x \in S
      PROVE  next(i, x) \in S
  <2> DEFINE l == LengthOf(fields[i], x)
  <2>1. fields[i] \in FieldType
    BY DEF IsLayout
  <2>2. l \in Nat
    BY <2>1 DEF LengthOf, FieldType
  <2> HIDE DEF l
  <2>3. Len(x) \in Nat /\ \A j \in l + 1 .. Len(x) : x[j] \in Byte
    BY <2>2, ElementOfSeq, LenProperties
  <2>4. SubSeq(x, l + 1, Len(x)) \in Seq(Byte)
    BY <2>2, <2>3, SubSeqProperties
  <2> QED
    BY <2>4 DEF Drop, l
<1> HIDE DEF next
<1>1. StepsWithin(S, 1 .. n, step)
  <2>1. \A i \in 1 .. n, x \in S : step[i][x] = next(i, x)
    OBVIOUS
  <2> HIDE DEF step, S
  <2> QED
    BY <1>0, <2>1 DEF StepsWithin
<1>2. bytes \in S
  OBVIOUS
<1> HIDE DEF S
<1>3. PICK f : RunsUpTo(f, S, n, bytes, step)
  <2> HIDE DEF step
  <2> QED
    BY <1>1, <1>2, RecursionUpTo
<1>4. Q(f)
  <2>1. f = [i \in 0 .. n |-> f[i]]
    BY <1>3 DEF RunsUpTo
  <2>2. ASSUME NEW i \in 1 .. n
        PROVE  f[i] = next(i, f[i - 1])
    <3>1. f[i - 1] \in S
      BY <1>3 DEF RunsUpTo
    <3>2. f[i] = step[i][f[i - 1]]
      <4> HIDE DEF step
      <4> QED
        BY <1>3 DEF RunsUpTo
    <3> QED
      BY <3>1, <3>2
  <2>3. f[0] = bytes
    BY <1>3 DEF RunsUpTo
  <2>4. \A i \in 0 .. n : i # 0 => i \in 1 .. n
    OBVIOUS
  <2>5. \A i \in 0 .. n : f[i] = IF i = 0 THEN bytes ELSE next(i, f[i - 1])
    BY <2>2, <2>3, <2>4
  <2> QED
    BY <2>1, <2>5
<1>5. Buffers(fields, bytes) = CHOOSE g : Q(g)
  BY DEF Buffers, IsLayout, next
<1>6. Q(Buffers(fields, bytes))
  <2> HIDE DEF Q
  <2> QED
    BY <1>4, <1>5
<1>7. ASSUME NEW g, Q(g)
      PROVE  g[0] = bytes /\ \A i \in 1 .. n : g[i] = next(i, g[i - 1])
  BY <1>7
<1> QED
  <2> HIDE DEF Q
  <2> QED
    BY <1>6, <1>7 DEF next, LeftAfter

\* Reading field by field follows writing field by field, whatever comes behind.
LEMMA BuffersFollowEncodings ==
  ASSUME NEW n \in Nat, NEW fields, NEW values, NEW rest \in Seq(Byte), NEW after, NEW left,
         IsLayout(fields, n), RecordFits(fields, n, values),
         WrittenAfter(after, n, fields, values), LeftAfter(left, n, fields, after[0] \o rest)
  PROVE  \A i \in 0 .. n : left[i] = after[i] \o rest
<1> DEFINE Follows(i) == left[i] = after[i] \o rest
           T == {i \in 0 .. n : Follows(i)}
<1>1. left[0] = after[0] \o rest
  BY DEF LeftAfter
<1>2. ASSUME NEW i \in 0 .. n - 1, left[i] = after[i] \o rest
      PROVE  left[i + 1] = after[i + 1] \o rest
  <2> DEFINE field == fields[i + 1]
             v == values[i + 1]
             first == EncodeField(field, v)
             tail == after[i + 1] \o rest
  <2>1. field \in FieldType /\ FieldFits(field, v)
    <3>1. i + 1 \in 1 .. n
      OBVIOUS
    <3> QED
      BY <3>1 DEF IsLayout, RecordFits
  <2>2. first \in Seq(Byte)
    BY <2>1, FieldWritten
  <2>3. after[i + 1] \in Seq(Byte)
    BY DEF WrittenAfter
  <2>4. tail \in Seq(Byte)
    BY <2>3, BytesJoin
  <2>5. left[i] = first \o tail
    <3>1. after[i] = first \o after[i + 1]
      BY DEF WrittenAfter
    <3> HIDE DEF first
    <3>2. (first \o after[i + 1]) \o rest = first \o (after[i + 1] \o rest)
      BY <2>2, <2>3, BytesAssociate
    <3> QED
      BY <1>2, <3>1, <3>2, Zenon
  <2>6. LengthOf(field, first \o tail) = Len(first)
    <3> HIDE DEF field, v, tail
    <3> QED
      BY <2>1, <2>4, FieldReadBack
  <2>7. Drop(first \o tail, Len(first)) = tail
    <3> HIDE DEF first, tail
    <3> QED
      BY <2>2, <2>4, BytesPart
  <2>8. left[i + 1] = Drop(left[i], LengthOf(field, left[i]))
    BY DEF LeftAfter
  <2> QED
    BY <2>5, <2>6, <2>7, <2>8
<1>3. 0 \in T /\ \A i \in 0 .. n - 1 : i \in T => i + 1 \in T
  <2>1. Follows(0) /\ \A i \in 0 .. n - 1 : Follows(i) => Follows(i + 1)
    BY <1>1, <1>2
  <2> HIDE DEF Follows
  <2> QED
    BY <2>1
<1>4. 0 .. n \subseteq T
  <2> HIDE DEF T
  <2> QED
    BY <1>3, InductionUpTo
<1> QED
  BY <1>4

LEMMA FieldsAreLayouts ==
  ASSUME NEW k \in Kind
  PROVE  /\ Len(Fields(k)) \in Nat
         /\ IsLayout(Fields(k), Len(Fields(k)))
<1>1. \A width \in Nat \ {0} : Field(width) \in FieldType /\ Optional(width) \in FieldType
  BY DEF Field, Optional, FieldType
<1>2. CASE k = "VoterWeightRecord"
  <2>1. Fields(k) = <<Field(8), Field(32), Field(32),
                      Field(8), Field(1), Field(8), Field(8), Field(7),
                      Field(8), Optional(8), Optional(1), Optional(32), Field(8)>>
    BY <1>2 DEF Fields
  <2> QED
    BY <1>1, <2>1 DEF IsLayout
<1>3. CASE k = "MaxVoterWeightRecord"
  <2>1. Fields(k) = <<Field(8), Field(32), Field(32), Field(8), Optional(8), Field(8)>>
    BY <1>3 DEF Fields
  <2> QED
    BY <1>1, <2>1 DEF IsLayout
<1>4. CASE k = "Registrar"
  <2>1. Fields(k) = <<Field(8), Field(32), Field(32), Field(32), Field(2), Field(8), Field(64)>>
    BY <1>4 DEF Fields
  <2> QED
    BY <1>1, <2>1 DEF IsLayout
<1>5. CASE k = "IdentityState"
  <2>1. Fields(k) = <<Field(8), Field(32), Field(8), Field(8), Field(4), Field(2)>>
    BY <1>5 DEF Fields
  <2> QED
    BY <1>1, <2>1 DEF IsLayout
<1> QED
  BY <1>2, <1>3, <1>4, <1>5 DEF Kind

\* The values of a record of type k.
IsRecord(k, values) == RecordFits(Fields(k), Len(Fields(k)), values)

\* A record is read back from its bytes, whatever is left behind them.
THEOREM RecordReadBack ==
  ASSUME NEW k \in Kind, NEW values, IsRecord(k, values), NEW rest \in Seq(Byte)
  PROVE  Decode(k, Encode(k, values) \o rest) = values
<1> DEFINE fields == Fields(k)
           n == Len(fields)
           after == Encodings(fields, values)
           left == Buffers(fields, after[0] \o rest)
<1>1. n \in Nat /\ IsLayout(fields, n) /\ RecordFits(fields, n, values)
  BY FieldsAreLayouts DEF IsRecord
<1>2. Decode(k, Encode(k, values) \o rest) = [i \in 1 .. n |-> DecodeField(fields[i], left[i - 1])]
  BY DEF Decode, Encode
<1> HIDE DEF n, fields
<1>3. WrittenAfter(after, n, fields, values)
  BY <1>1, EncodingsStep
<1> HIDE DEF after
<1>4. LeftAfter(left, n, fields, after[0] \o rest)
  <2>1. after[0] \in Seq(Byte)
    BY <1>1, <1>3 DEF WrittenAfter
  <2>2. after[0] \o rest \in Seq(Byte)
    BY <2>1, BytesJoin
  <2> QED
    BY <1>1, <2>2, BuffersStep
<1> HIDE DEF left
<1>5. \A i \in 0 .. n : left[i] = after[i] \o rest
  BY <1>1, <1>3, <1>4, BuffersFollowEncodings
<1>6. ASSUME NEW i \in 1 .. n
      PROVE  DecodeField(fields[i], left[i - 1]) = values[i]
  <2> DEFINE first == EncodeField(fields[i], values[i])
             tail == after[i] \o rest
  <2>1. i - 1 \in 0 .. n - 1 /\ i - 1 \in 0 .. n /\ i \in 0 .. n /\ (i - 1) + 1 = i
    BY <1>1
  <2>2. fields[i] \in FieldType /\ FieldFits(fields[i], values[i])
    BY <1>1 DEF IsLayout, RecordFits
  <2>3. first \in Seq(Byte)
    BY <2>2, FieldWritten
  <2>4. after[i] \in Seq(Byte) /\ after[i - 1] = first \o after[i]
    BY <1>3, <2>1 DEF WrittenAfter
  <2>5. tail \in Seq(Byte)
    BY <2>4, BytesJoin
  <2>6. left[i - 1] = first \o tail
    <3> HIDE DEF first
    <3>1. (first \o after[i]) \o rest = first \o (after[i] \o rest)
      BY <2>3, <2>4, BytesAssociate
    <3> QED
      BY <1>5, <2>1, <2>4, <3>1, Zenon
  <2>7. DecodeField(fields[i], first \o tail) = values[i]
    <3> HIDE DEF tail
    <3> QED
      BY <2>2, <2>5, FieldReadBack
  <2> QED
    BY <2>6, <2>7
<1>7. values = [i \in 1 .. n |-> values[i]]
  BY <1>1 DEF RecordFits
<1> QED
  BY <1>2, <1>6, <1>7

-----------------------------------------------------------------------------
(* Which numbers fit                                                       *)

\* What fits a width fits every larger one.
LEMMA FitsWider ==
  ASSUME NEW v \in Nat, NEW narrow \in Nat, NEW extra \in Nat, Fits(v, narrow)
  PROVE  Fits(v, narrow + extra)
<1> DEFINE wide == narrow + extra
           short == Quotients(v, narrow)
           long == Quotients(v, wide)
           Same(i) == short[i] = long[i]
           Zero(i) == long[narrow + i] = 0
           T == {i \in 0 .. narrow : Same(i)}
           U == {i \in 0 .. extra : Zero(i)}
<1>1. wide \in Nat
  OBVIOUS
<1>2. Divided(short, v, narrow)
  BY QuotientsStep
<1>3. Divided(long, v, wide)
  <2> HIDE DEF wide
  <2> QED
    BY <1>1, QuotientsStep
<1>4. short[narrow] = 0
  BY DEF Fits
<1> HIDE DEF short, long
<1>5. Same(0)
  BY <1>2, <1>3 DEF Divided
<1>6. ASSUME NEW i \in 0 .. narrow - 1, Same(i)
      PROVE  Same(i + 1)
  <2>1. i + 1 \in 1 .. narrow /\ i + 1 \in 1 .. wide /\ (i + 1) - 1 = i
    OBVIOUS
  <2>2. short[i + 1] = short[i] \div 256 /\ long[i + 1] = long[i] \div 256
    <3> HIDE DEF wide
    <3> QED
      BY <1>2, <1>3, <2>1 DEF Divided
  <2> QED
    BY <1>6, <2>2
<1>7. narrow \in T
  <2> HIDE DEF Same
  <2>1. 0 \in T /\ \A i \in 0 .. narrow - 1 : i \in T => i + 1 \in T
    BY <1>5, <1>6
  <2>2. 0 .. narrow \subseteq T
    <3> HIDE DEF T
    <3> QED
      BY <2>1, InductionUpTo
  <2> QED
    BY <2>2
<1>8. Zero(0)
  BY <1>4, <1>7
<1>9. ASSUME NEW i \in 0 .. extra - 1, Zero(i)
      PROVE  Zero(i + 1)
  <2>1. narrow + (i + 1) \in 1 .. wide /\ (narrow + (i + 1)) - 1 = narrow + i
    OBVIOUS
  <2>2. long[narrow + (i + 1)] = long[narrow + i] \div 256
    <3> HIDE DEF wide
    <3> QED
      BY <1>3, <2>1 DEF Divided
  <2> QED
    BY <1>9, <2>2
<1>10. extra \in U
  <2> HIDE DEF Zero
  <2>1. 0 \in U /\ \A i \in 0 .. extra - 1 : i \in U => i + 1 \in U
    BY <1>8, <1>9
  <2>2. 0 .. extra \subseteq U
    <3> HIDE DEF U
    <3> QED
      BY <2>1, InductionUpTo
  <2> QED
    BY <2>2
<1> QED
  BY <1>10 DEF Fits, long

\* A number below 256 fits one byte.
LEMMA ByteFits ==
  ASSUME NEW v \in 0 .. 255
  PROVE  Fits(v, 1)
<1>1. Divided(Quotients(v, 1), v, 1)
  BY QuotientsStep
<1>2. Quotients(v, 1)[1] = v \div 256
  BY <1>1 DEF Divided
<1>3. v \div 256 = 0
  OBVIOUS
<1> QED
  BY <1>2, <1>3 DEF Fits

\* Smaller numbers fit as well.
LEMMA FitsMonotone ==
  ASSUME NEW m \in Nat, NEW v \in 0 .. m, NEW width \in Nat, Fits(m, width)
  PROVE  Fits(v, width)
<1> DEFINE big == Quotients(m, width)
           small == Quotients(v, width)
           Below(i) == small[i] <= big[i]
           T == {i \in 0 .. width : Below(i)}
<1>1. Divided(big, m, width)
  BY QuotientsStep
<1>2. v \in Nat
  OBVIOUS
<1>3. Divided(small, v, width)
  BY <1>2, QuotientsStep
<1>5. big[width] = 0
  BY DEF Fits
<1> HIDE DEF big, small
<1>6. \A x, y \in Nat : x <= y => x \div 256 <= y \div 256
  OBVIOUS
<1>7. Below(0)
  BY <1>1, <1>3 DEF Divided
<1>8. ASSUME NEW i \in 0 .. width - 1, Below(i)
      PROVE  Below(i + 1)
  <2>1. i + 1 \in 1 .. width /\ (i + 1) - 1 = i
    OBVIOUS
  <2>2. big[i + 1] = big[i] \div 256 /\ small[i + 1] = small[i] \div 256
    BY <1>1, <1>3, <2>1 DEF Divided
  <2>3. big[i] \in Nat /\ small[i] \in Nat
    BY <1>1, <1>3 DEF Divided
  <2> QED
    BY <1>6, <1>8, <2>2, <2>3
<1>9. width \in T
  <2> HIDE DEF Below
  <2>1. 0 \in T /\ \A i \in 0 .. width - 1 : i \in T => i + 1 \in T
    BY <1>7, <1>8
  <2>2. 0 .. width \subseteq T
    <3> HIDE DEF T
    <3> QED
      BY <2>1, InductionUpTo
  <2> QED
    BY <2>2
<1>10. small[width] \in Nat /\ small[width] <= 0
  BY <1>3, <1>5, <1>9 DEF Divided
<1>11. small[width] = 0
  BY <1>10
<1> QED
  BY <1>11 DEF Fits, small

LEMMA NumbersFit ==
  /\ \A v \in Number64 : v \in Nat /\ Fits(v, 8)
  /\ \A v \in Number64 : SaturatingAdd(v, 100) \in Nat /\ Fits(SaturatingAdd(v, 100), 8)
  /\ \A v \in Number16 : v \in Nat /\ Fits(v, 2)
  /\ \A v \in Number16 : v \div 100 \in Nat /\ Fits(v \div 100, 4)
  /\ \A v \in 0 .. 255 : Fits(v, 1) /\ Fits(v, 8)
<1>1. ASSUME NEW v \in 0 .. U64Max
      PROVE  v \in Nat /\ Fits(v, 8)
  BY FitsMonotone, NumberAssumption
<1>2. ASSUME NEW v \in Number64
      PROVE  v \in 0 .. U64Max /\ SaturatingAdd(v, 100) \in 0 .. U64Max
  BY NumberAssumption DEF SaturatingAdd
<1>3. ASSUME NEW v \in Number16
      PROVE  /\ v \in Nat /\ Fits(v, 2)
             /\ v \div 100 \in Nat /\ Fits(v \div 100, 4)
  <2>1. v \in Nat /\ Fits(v, 2)
    BY NumberAssumption
  <2>2. v \div 100 \in 0 .. v
    BY <2>1
  <2>3. Fits(v \div 100, 2)
    BY <2>1, <2>2, FitsMonotone
  <2>4. v \div 100 \in Nat
    BY <2>1, <2>2
  <2>5. Fits(v \div 100, 2 + 2)
    BY <2>3, <2>4, FitsWider
  <2>6. Fits(v \div 100, 4)
    BY <2>5
  <2> QED
    BY <2>1, <2>4, <2>6
<1>4. ASSUME NEW v \in 0 .. 255
      PROVE  Fits(v, 1) /\ Fits(v, 8)
  <2>1. Fits(v, 1)
    BY ByteFits
  <2>2. v \in Nat
    OBVIOUS
  <2>3. \A extra \in Nat : Fits(v, 1 + extra)
    BY <2>1, <2>2, FitsWider
  <2>4. Fits(v, 1 + 7)
    BY <2>3
  <2> QED
    BY <2>1, <2>4
<1> QED
  BY <1>1, <1>2, <1>3, <1>4

-----------------------------------------------------------------------------
(* How long a record is                                                    *)

\* length[i] is how much is written after the i-th field.
Lengths(length, n, fields) ==
  /\ \A i \in 0 .. n : length[i] \in Nat
  /\ length[n] = 0
  /\ \A i \in 0 .. n - 1 :
       LET field == fields[i + 1]
       IN  /\ length[i] <= field.tag + field.width + length[i + 1]
           /\ field.tag = 0 => length[i] = field.width + length[i + 1]

LEMMA LengthsOfEncodings ==
  ASSUME NEW n \in Nat, NEW fields, NEW values, NEW after,
         IsLayout(fields, n), RecordFits(fields, n, values),
         WrittenAfter(after, n, fields, values)
  PROVE  Lengths([i \in 0 .. n |-> Len(after[i])], n, fields)
<1> DEFINE length == [i \in 0 .. n |-> Len(after[i])]
<1>1. \A i \in 0 .. n : length[i] \in Nat
  BY LenProperties DEF WrittenAfter
<1>2. length[n] = 0
  BY EmptySeq DEF WrittenAfter
<1>3. ASSUME NEW i \in 0 .. n - 1
      PROVE  /\ length[i] <= fields[i + 1].tag + fields[i + 1].width + length[i + 1]
             /\ fields[i + 1].tag = 0 => length[i] = fields[i + 1].width + length[i + 1]
  <2> DEFINE field == fields[i + 1]
             v == values[i + 1]
             first == EncodeField(field, v)
  <2>1. field \in FieldType /\ FieldFits(field, v)
    <3>1. i + 1 \in 1 .. n
      OBVIOUS
    <3> QED
      BY <3>1 DEF IsLayout, RecordFits
  <2>2. /\ first \in Seq(Byte)
        /\ Len(first) = IF field.tag = 1 /\ v = None THEN 1 ELSE field.tag + field.width
    <3> HIDE DEF field, v
    <3> QED
      BY <2>1, FieldWritten
  <2>3. after[i + 1] \in Seq(Byte) /\ after[i] = first \o after[i + 1]
    <3>1. i + 1 \in 0 .. n
      OBVIOUS
    <3>2. after[i + 1] \in Seq(Byte)
      BY <3>1 DEF WrittenAfter
    <3>3. after[i] = EncodeField(fields[i + 1], values[i + 1]) \o after[i + 1]
      BY Zenon DEF WrittenAfter
    <3> QED
      BY <3>2, <3>3
  <2>4. length[i] = Len(first) + length[i + 1]
    <3> HIDE DEF first
    <3>1. Len(after[i]) = Len(first) + Len(after[i + 1])
      BY <2>2, <2>3, BytesJoin
    <3> QED
      BY <3>1
  <2>5. field.tag \in {0, 1} /\ field.width \in Nat \ {0} /\ length[i + 1] \in Nat
    BY <1>1, <2>1 DEF FieldType
  <2> HIDE DEF length, first, v, field
  <2>6. length[i] <= field.tag + field.width + length[i + 1]
    BY <2>2, <2>4, <2>5
  <2>7. field.tag = 0 => length[i] = field.width + length[i + 1]
    BY <2>2, <2>4, <2>5
  <2> QED
    BY <2>6, <2>7 DEF field
<1> HIDE DEF length
<1> QED
  BY <1>1, <1>2, <1>3 DEF Lengths, length

\* Every record fits its account, and an identity is as long as its fields.
LEMMA RecordLength ==
  ASSUME NEW k \in Kind, NEW values, IsRecord(k, values)
  PROVE  /\ Encode(k, values) \in Seq(Byte)
         /\ k # "IdentityState" => Len(Encode(k, values)) <= Space(k)
         /\ k = "IdentityState" => Len(Encode(k, values)) = 62
<1> DEFINE n == Len(Fields(k))
           after == Encodings(Fields(k), values)
           length == [i \in 0 .. n |-> Len(after[i])]
<1>1. n \in Nat /\ IsLayout(Fields(k), n) /\ RecordFits(Fields(k), n, values)
  BY FieldsAreLayouts DEF IsRecord
<1>2. WrittenAfter(after, n, Fields(k), values)
  <2> HIDE DEF n
  <2> QED
    BY <1>1, EncodingsStep
<1>3. Lengths(length, n, Fields(k))
  <2> HIDE DEF n, after
  <2> QED
    BY <1>1, <1>2, LengthsOfEncodings
<1>4. after[0] \in Seq(Byte) /\ length[0] = Len(after[0])
  <2> HIDE DEF n, after
  <2> QED
    BY <1>1, <1>2 DEF WrittenAfter
<1>5. Encode(k, values) = after[0]
  BY DEF Encode
<1> HIDE DEF length, after
<1>6. CASE k = "VoterWeightRecord"
  <2>1. Fields(k) = <<Field(8), Field(32), Field(32),
                      Field(8), Field(1), Field(8), Field(8), Field(7),
                      Field(8), Optional(8), Optional(1), Optional(32), Field(8)>> /\ n = 13
    BY <1>6 DEF Fields
  <2> HIDE DEF n
  <2>2. /\ length[0] <= 8 + length[1] /\ length[1] <= 32 + length[2]
        /\ length[2] <= 32 + length[3] /\ length[3] <= 8 + length[4]
        /\ length[4] <= 1 + length[5] /\ length[5] <= 8 + length[6]
        /\ length[6] <= 8 + length[7] /\ length[7] <= 7 + length[8]
        /\ length[8] <= 8 + length[9] /\ length[9] <= 9 + length[10]
        /\ length[10] <= 2 + length[11] /\ length[11] <= 33 + length[12]
        /\ length[12] <= 8 + length[13] /\ length[13] = 0
    BY <1>3, <2>1 DEF Lengths, Field, Optional
  <2>3. \A i \in 0 .. 13 : length[i] \in Nat
    BY <1>3, <2>1 DEF Lengths
  <2>4. /\ length[0] \in Nat /\ length[1] \in Nat /\ length[2] \in Nat /\ length[3] \in Nat
        /\ length[4] \in Nat /\ length[5] \in Nat /\ length[6] \in Nat /\ length[7] \in Nat
        /\ length[8] \in Nat /\ length[9] \in Nat /\ length[10] \in Nat /\ length[11] \in Nat
        /\ length[12] \in Nat /\ length[13] \in Nat
    BY <2>3
  <2>5. length[0] <= 8 + 32 + 32 + 32 + 8 + 9 + 2 + 33 + 8
    BY <2>2, <2>4
  <2>6. Space(k) = 8 + 32 + 32 + 32 + 8 + 9 + 2 + 33 + 8 /\ k # "IdentityState"
    BY <1>6 DEF Space
  <2> QED
    BY <1>4, <1>5, <2>5, <2>6
<1>7. CASE k = "MaxVoterWeightRecord"
  <2>1. Fields(k) = <<Field(8), Field(32), Field(32), Field(8), Optional(8), Field(8)>> /\ n = 6
    BY <1>7 DEF Fields
  <2> HIDE DEF n
  <2>2. /\ length[0] <= 8 + length[1] /\ length[1] <= 32 + length[2]
        /\ length[2] <= 32 + length[3] /\ length[3] <= 8 + length[4]
        /\ length[4] <= 9 + length[5] /\ length[5] <= 8 + length[6] /\ length[6] = 0
    BY <1>3, <2>1 DEF Lengths, Field, Optional
  <2>3. \A i \in 0 .. 6 : length[i] \in Nat
    BY <1>3, <2>1 DEF Lengths
  <2>4. /\ length[0] \in Nat /\ length[1] \in Nat /\ length[2] \in Nat
        /\ length[3] \in Nat /\ length[4] \in Nat /\ length[5] \in Nat /\ length[6] \in Nat
    BY <2>3
  <2>5. length[0] <= 8 + 32 + 32 + 8 + 9 + 8
    BY <2>2, <2>4
  <2>6. Space(k) = 8 + 32 + 32 + 8 + 9 + 8 /\ k # "IdentityState"
    BY <1>7 DEF Space
  <2> QED
    BY <1>4, <1>5, <2>5, <2>6
<1>8. CASE k = "Registrar"
  <2>1. Fields(k) = <<Field(8), Field(32), Field(32), Field(32), Field(2), Field(8), Field(64)>> /\ n = 7
    BY <1>8 DEF Fields
  <2> HIDE DEF n
  <2>2. /\ length[0] <= 8 + length[1] /\ length[1] <= 32 + length[2]
        /\ length[2] <= 32 + length[3] /\ length[3] <= 32 + length[4]
        /\ length[4] <= 2 + length[5] /\ length[5] <= 8 + length[6]
        /\ length[6] <= 64 + length[7] /\ length[7] = 0
    BY <1>3, <2>1 DEF Lengths, Field
  <2>3. \A i \in 0 .. 7 : length[i] \in Nat
    BY <1>3, <2>1 DEF Lengths
  <2>4. /\ length[0] \in Nat /\ length[1] \in Nat /\ length[2] \in Nat /\ length[3] \in Nat
        /\ length[4] \in Nat /\ length[5] \in Nat /\ length[6] \in Nat /\ length[7] \in Nat
    BY <2>3
  <2>5. length[0] <= 8 + 32 + 32 + 32 + 2 + 8 + 64
    BY <2>2, <2>4
  <2>6. Space(k) = 8 + 32 + 32 + 32 + 2 + 8 + 64 /\ k # "IdentityState"
    BY <1>8 DEF Space
  <2> QED
    BY <1>4, <1>5, <2>5, <2>6
<1>9. CASE k = "IdentityState"
  <2>1. Fields(k) = <<Field(8), Field(32), Field(8), Field(8), Field(4), Field(2)>> /\ n = 6
    BY <1>9 DEF Fields
  <2> HIDE DEF n
  <2>2. /\ length[0] = 8 + length[1] /\ length[1] = 32 + length[2]
        /\ length[2] = 8 + length[3] /\ length[3] = 8 + length[4]
        /\ length[4] = 4 + length[5] /\ length[5] = 2 + length[6] /\ length[6] = 0
    BY <1>3, <2>1 DEF Lengths, Field
  <2>3. length[0] = 62
    BY <2>2
  <2> QED
    BY <1>4, <1>5, <1>9, <2>3
<1> QED
  BY <1>6, <1>7, <1>8, <1>9 DEF Kind
=============================================================================
