--------------------------- MODULE IdentityProofs ----------------------------
(***************************************************************************)
(* Theorems about the meta-address codec, for every width of a group and   *)
(* every number of labels, and about Identity, for every group and every   *)
(* hash with the properties assumed in its modules.                        *)
(***************************************************************************)
EXTENDS Identity, SequenceTheorems, TLAPS

------------------------------------------------------------------------------
(* LEB128 *)

LEMMA Base == GroupBase \in Nat /\ GroupBase >= 2 /\ LabelSpace \in Nat
BY CodecWidths DEF CodecWidths

LEMMA Divide ==
  ASSUME NEW v \in Nat
  PROVE  /\ v \div GroupBase \in Nat /\ v % GroupBase \in 0..(GroupBase - 1)
         /\ v = (v % GroupBase) + GroupBase * (v \div GroupBase)
BY Base, SMTT(30)

LEMMA PayloadBits ==
  ASSUME NEW x \in 0..(GroupBase - 1)
  PROVE  x % GroupBase = x /\ (x + GroupBase) % GroupBase = x
BY Base, SMTT(30)

\* Each shift drops a group.
LEMMA ShiftTypes ==
  ASSUME NEW v \in Nat
  PROVE  /\ \A i \in 1..5 : Shifts(v)[i] \in Nat
         /\ \A i \in 1..4 : Shifts(v)[i + 1] = Shifts(v)[i] \div GroupBase
         /\ Shifts(v)[1] = v
<1> DEFINE s1 == v \div GroupBase
           s2 == s1 \div GroupBase
           s3 == s2 \div GroupBase
           s4 == s3 \div GroupBase
<1>1. Shifts(v) = <<v, s1, s2, s3, s4>>
  BY DEF Shifts
<1>2. s1 \in Nat
  BY Divide
<1>3. s2 \in Nat
  BY <1>2, Divide
<1>4. s3 \in Nat
  BY <1>3, Divide
<1>5. s4 \in Nat
  BY <1>4, Divide
<1>6. /\ s2 = s1 \div GroupBase /\ s3 = s2 \div GroupBase /\ s4 = s3 \div GroupBase
      /\ s1 = v \div GroupBase
  OBVIOUS
<1> HIDE DEF s1, s2, s3, s4
<1>7. \A i \in 1..5 : Shifts(v)[i] \in Nat
  BY <1>1, <1>2, <1>3, <1>4, <1>5
<1>8. \A i \in 1..4 : Shifts(v)[i + 1] = Shifts(v)[i] \div GroupBase
  <2>1. 1..4 = {1, 2, 3, 4}
    OBVIOUS
  <2> QED
    BY <1>1, <1>6, <2>1
<1> QED
  BY <1>1, <1>7, <1>8

LEMMA GroupTypes ==
  ASSUME NEW v \in Nat, NEW i \in 1..5
  PROVE  /\ Shifts(v)[i] % GroupBase \in 0..(GroupBase - 1)
         /\ Shifts(v)[i] % GroupBase \in Nat
<1>1. Shifts(v)[i] \in Nat
  BY ShiftTypes
<1>2. Shifts(v)[i] % GroupBase \in 0..(GroupBase - 1)
  BY <1>1, Divide
<1> QED
  BY <1>2, Base

\* A label in n bytes, of which the rest of the data may follow.
Holds(data, v, n) ==
  /\ Len(data) \in Nat /\ n <= Len(data)
  /\ \A i \in 1..n : data[i] = Groups(v, n)[i]

LEMMA GroupBytes ==
  ASSUME NEW v \in Nat, NEW n \in 1..5, NEW data, Holds(data, v, n), NEW i \in 1..n
  PROVE  /\ data[i] % GroupBase = Shifts(v)[i] % GroupBase
         /\ data[i] < GroupBase <=> i = n
<1> DEFINE g == Shifts(v)[i] % GroupBase
<1>0. i \in 1..5
  OBVIOUS
<1>1. g \in 0..(GroupBase - 1)
  BY <1>0, GroupTypes
<1>2. data[i] = g + (IF i < n THEN GroupBase ELSE 0)
  BY DEF Holds, Groups
<1> HIDE DEF g
<1>3. g % GroupBase = g /\ (g + GroupBase) % GroupBase = g
  BY <1>1, PayloadBits
<1>4. CASE i < n
  <2>1. data[i] = g + GroupBase
    BY <1>2, <1>4
  <2>2. ~(data[i] < GroupBase) /\ i # n
    BY <1>1, <1>4, <2>1, Base
  <2> QED
    BY <1>3, <2>1, <2>2 DEF g
<1>5. CASE i = n
  <2>1. data[i] = g
    BY <1>1, <1>2, <1>5
  <2> QED
    BY <1>1, <1>3, <1>5, <2>1, Base DEF g
<1> QED
  BY <1>4, <1>5

LEMMA EndsThere ==
  ASSUME NEW v \in Nat, NEW n \in 1..5, NEW data, Holds(data, v, n)
  PROVE  Ends(data) = {n}
<1>1. \A i \in 1..n : data[i] < GroupBase <=> i = n
  BY GroupBytes
<1>2. n \in Ends(data)
  <2>1. n <= Len(data) /\ data[n] < GroupBase
    BY <1>1 DEF Holds
  <2>2. ASSUME NEW j \in 1..5, j < n PROVE data[j] >= GroupBase
    <3>1. j \in 1..n /\ j # n
      BY <2>2
    <3>2. data[j] = (Shifts(v)[j] % GroupBase) + GroupBase
      BY <2>2, <3>1 DEF Holds, Groups
    <3>3. Shifts(v)[j] % GroupBase \in Nat
      BY GroupTypes
    <3> QED
      BY <3>2, <3>3, Base
  <2> QED
    BY <2>1, <2>2 DEF Ends
<1>3. ASSUME NEW m \in Ends(data) PROVE m = n
  <2>1. m \in 1..5 /\ data[m] < GroupBase /\ \A j \in 1..5 : j < m => data[j] >= GroupBase
    BY DEF Ends
  <2>2. CASE m < n
    BY <1>1, <2>1, <2>2
  <2>3. CASE n < m
    <3>1. data[n] < GroupBase /\ data[n] >= GroupBase
      BY <1>1, <2>1, <2>3
    <3>2. data[n] \in Nat
      <4>1. data[n] = (Shifts(v)[n] % GroupBase) + 0
        BY DEF Holds, Groups
      <4>2. Shifts(v)[n] % GroupBase \in Nat
        BY GroupTypes
      <4> QED
        BY <4>1, <4>2
    <3> QED
      BY <3>1, <3>2, Base
  <2> QED
    BY <2>1, <2>2, <2>3
<1> QED
  BY <1>2, <1>3

\* Horner's scheme undoes the shifts.
LEMMA ValueThere ==
  ASSUME NEW v \in Nat, NEW n \in 1..5, NEW data, Holds(data, v, n), Shifts(v)[n] < GroupBase
  PROVE  Value(data, n) = v
<1> DEFINE g(i) == IF i <= n THEN data[i] % GroupBase ELSE 0
           s(i) == IF i <= n THEN Shifts(v)[i] ELSE 0
<1>1. \A i \in 1..5 : s(i) \in Nat
  BY ShiftTypes
<1>2. \A i \in 1..5 : i <= n => g(i) = Shifts(v)[i] % GroupBase
  BY GroupBytes
<1>3. ASSUME NEW i \in 1..4 PROVE s(i) = g(i) + GroupBase * s(i + 1)
  <2>1. CASE i < n
    <3>1. Shifts(v)[i] = (Shifts(v)[i] % GroupBase) + GroupBase * (Shifts(v)[i] \div GroupBase)
      BY ShiftTypes, Divide
    <3>2. Shifts(v)[i + 1] = Shifts(v)[i] \div GroupBase
      BY ShiftTypes
    <3> QED
      BY <1>2, <2>1, <3>1, <3>2
  <2>2. CASE i = n
    <3>1. Shifts(v)[i] \in 0..(GroupBase - 1)
      BY <2>2, ShiftTypes, Base
    <3>2. g(i) = Shifts(v)[i]
      BY <1>2, <2>2, <3>1, PayloadBits
    <3> QED
      BY <2>2, <3>1, <3>2, Base
  <2>3. CASE i > n
    BY <2>3, Base
  <2> QED
    BY <2>1, <2>2, <2>3
<1>4. s(5) = g(5)
  <2>1. CASE n = 5
    BY <1>2, <2>1, ShiftTypes, Base, PayloadBits
  <2>2. CASE n < 5
    BY <2>2
  <2> QED
    BY <2>1, <2>2
<1>5. Value(data, n) =
        g(1) + GroupBase * (g(2) + GroupBase * (g(3) + GroupBase * (g(4) + GroupBase * g(5))))
  BY DEF Value
<1>6. s(1) = v
  BY ShiftTypes
<1> HIDE DEF g, s
<1>7. /\ s(1) = g(1) + GroupBase * s(2) /\ s(2) = g(2) + GroupBase * s(3)
      /\ s(3) = g(3) + GroupBase * s(4) /\ s(4) = g(4) + GroupBase * s(5)
  BY <1>3, 1 \in 1..4, 2 \in 1..4, 3 \in 1..4, 4 \in 1..4
<1> QED
  BY <1>4, <1>5, <1>6, <1>7, Zenon

LEMMA Smaller ==
  ASSUME NEW x \in Nat, NEW k \in Nat, x < GroupBase * k
  PROVE  x \div GroupBase < k
<1> DEFINE q == x \div GroupBase
<1>1. q \in Nat /\ x = (x % GroupBase) + GroupBase * q /\ x % GroupBase \in Nat
  BY Divide, Base
<1> HIDE DEF q
<1>2. ASSUME q >= k PROVE GroupBase * q >= GroupBase * k
  BY <1>1, <1>2, Base, SMTT(30)
<1>3. GroupBase * q <= x
  <2>1. GroupBase * q \in Nat
    BY <1>1, Base
  <2> QED
    BY <1>1, <2>1
<1>4. ~(q >= k)
  <2>1. GroupBase * q \in Nat /\ GroupBase * k \in Nat
    BY <1>1, Base
  <2> QED
    BY <1>2, <1>3, <2>1
<1> QED
  BY <1>1, <1>4 DEF q

\* Five bytes are enough for every label index.
LEMMA FifthShift == ASSUME NEW v \in Labels PROVE v \in Nat /\ Shifts(v)[5] < GroupBase
<1> DEFINE B == GroupBase
<1>0. B \in Nat /\ B * B \in Nat /\ B * (B * B) \in Nat /\ B * (B * (B * B)) \in Nat
  BY Base
<1>1. v \in Nat /\ v < B * (B * (B * (B * B)))
  <2>1. v \in Nat /\ v < LabelSpace
    BY Base DEF Labels
  <2>2. B * (B * (B * (B * B))) \in Nat
    BY <1>0, Base
  <2> QED
    BY <2>1, <2>2, Base, CodecWidths DEF CodecWidths
<1>2. /\ Shifts(v)[1] = v
      /\ \A i \in 1..5 : Shifts(v)[i] \in Nat
      /\ Shifts(v)[2] = Shifts(v)[1] \div GroupBase
      /\ Shifts(v)[3] = Shifts(v)[2] \div GroupBase
      /\ Shifts(v)[4] = Shifts(v)[3] \div GroupBase
      /\ Shifts(v)[5] = Shifts(v)[4] \div GroupBase
  BY <1>1, ShiftTypes, 1 \in 1..4, 2 \in 1..4, 3 \in 1..4, 4 \in 1..4
<1>3. Shifts(v)[2] < B * (B * (B * B))
  BY <1>0, <1>1, <1>2, Smaller
<1>4. Shifts(v)[3] < B * (B * B)
  BY <1>0, <1>2, <1>3, Smaller
<1>5. Shifts(v)[4] < B * B
  BY <1>0, <1>2, <1>4, Smaller
<1>6. Shifts(v)[5] < B
  BY <1>0, <1>2, <1>5, Smaller
<1> QED
  BY <1>1, <1>6

LEMMA WrittenGroups ==
  ASSUME NEW v \in Labels
  PROVE  GroupCount(v) \in 1..5 /\ Shifts(v)[GroupCount(v)] < GroupBase
<1> DEFINE Small(i) == Shifts(v)[i] < GroupBase
<1>1. v \in Nat /\ Small(5) /\ \A i \in 1..5 : Shifts(v)[i] \in Nat
  BY FifthShift, ShiftTypes
<1>2. \A i \in 1..5 : ~Small(i) => Shifts(v)[i] >= GroupBase
  BY <1>1, Base
<1> HIDE DEF Small
<1>3. \E n \in 1..5 : Small(n) /\ \A j \in 1..5 : j < n => ~Small(j)
  BY <1>1, 1 \in 1..5, 2 \in 1..5, 3 \in 1..5, 4 \in 1..5, 5 \in 1..5, 1..5 = {1, 2, 3, 4, 5}
<1>4. \E n \in 1..5 : IsLength(v, n)
  BY <1>2, <1>3 DEF IsLength, Small
<1> QED
  BY <1>4 DEF GroupCount, IsLength

------------------------------------------------------------------------------
(* Payloads *)

LEMMA GroupsSeq ==
  ASSUME NEW v \in Nat, NEW n \in 1..5
  PROVE  Groups(v, n) \in Seq(Nat) /\ Len(Groups(v, n)) = n
<1>1. ASSUME NEW i \in 1..n
      PROVE  (Shifts(v)[i] % GroupBase) + (IF i < n THEN GroupBase ELSE 0) \in Nat
  <2>1. Shifts(v)[i] % GroupBase \in Nat
    <3>1. i \in 1..5
      OBVIOUS
    <3> QED
      BY <3>1, GroupTypes
  <2> QED
    BY <2>1, Base
<1>2. Groups(v, n) \in [1..n -> Nat]
  BY <1>1 DEF Groups
<1>3. n \in Nat /\ DOMAIN Groups(v, n) = 1..n
  BY <1>2
<1>4. Groups(v, n) \in Seq(Nat)
  BY <1>2, <1>3, SeqDef
<1> QED
  BY <1>3, <1>4, LenProperties

\* Two parts of a payload.
LEMMA Parts ==
  ASSUME NEW S, NEW s \in Seq(S), NEW t \in Seq(S), NEW k \in Nat, Len(s) = k,
         NEW both, both = s \o t
  PROVE  /\ both \in Seq(S) /\ Len(t) \in Nat /\ Len(both) = k + Len(t)
         /\ \A i \in 1..k : both[i] = s[i]
         /\ \A i \in 1..Len(t) : both[k + i] = t[i]
<1>1. Len(t) \in Nat
  BY LenProperties
<1>2. /\ both \in Seq(S) /\ Len(both) = k + Len(t)
      /\ \A i \in 1..(k + Len(t)) : both[i] = IF i <= k THEN s[i] ELSE t[i - k]
  BY ConcatProperties
<1>3. \A i \in 1..k : both[i] = s[i]
  BY <1>1, <1>2
<1>4. ASSUME NEW i \in 1..Len(t) PROVE both[k + i] = t[i]
  <2>1. k + i \in 1..(k + Len(t)) /\ ~(k + i <= k) /\ (k + i) - k = i
    BY <1>1
  <2> QED
    BY <1>2, <2>1
<1> QED
  BY <1>1, <1>2, <1>3, <1>4

Payload(a, b, c, v, n, f, rest) == <<a, b, c>> \o Groups(v, n) \o <<f>> \o rest

\* What a payload holds, and where.
LEMMA Layout ==
  ASSUME NEW a, NEW b, NEW c, NEW f, NEW v \in Nat, NEW n \in 1..5, NEW rest \in Seq(Nat)
  PROVE  LET data == Payload(a, b, c, v, n, f, rest)
         IN  /\ Len(rest) \in Nat /\ Len(data) = 4 + n + Len(rest)
             /\ data[1] = a /\ data[2] = b /\ data[3] = c /\ data[4 + n] = f
             /\ Holds(SubSeq(data, 4, Len(data)), v, n)
<1> DEFINE data == Payload(a, b, c, v, n, f, rest)
<1> DEFINE S == {a, b, c, f} \cup Nat
           groups == Groups(v, n)
           one == <<a, b, c>> \o groups
           two == one \o <<f>>
<1>1. <<a, b, c>> \in Seq(S) /\ Len(<<a, b, c>>) = 3 /\ <<f>> \in Seq(S) /\ Len(<<f>>) = 1
  OBVIOUS
<1>2. groups \in Seq(S) /\ Len(groups) = n
  BY GroupsSeq, SeqMonotonic
<1>3. rest \in Seq(S)
  BY SeqMonotonic
<1>4. data = two \o rest
  BY DEF Payload
<1> HIDE DEF data
<1>5. 3 \in Nat /\ n \in Nat /\ 3 + n \in Nat /\ 4 + n \in Nat /\ (3 + n) + 1 = 4 + n
  OBVIOUS
<1> HIDE DEF S, groups
<1>6. /\ one \in Seq(S) /\ Len(one) = 3 + n
      /\ \A i \in 1..3 : one[i] = <<a, b, c>>[i]
      /\ \A i \in 1..n : one[3 + i] = groups[i]
  BY <1>1, <1>2, <1>5, Parts
<1> HIDE DEF one
<1>7. /\ two \in Seq(S) /\ Len(two) = 4 + n
      /\ \A i \in 1..(3 + n) : two[i] = one[i]
      /\ two[(3 + n) + 1] = <<f>>[1]
  <2>1. /\ two \in Seq(S) /\ Len(two) = (3 + n) + Len(<<f>>)
        /\ \A i \in 1..(3 + n) : two[i] = one[i]
        /\ \A i \in 1..Len(<<f>>) : two[(3 + n) + i] = <<f>>[i]
    BY <1>1, <1>5, <1>6, Parts
  <2>2. 1 \in 1..Len(<<f>>)
    BY <1>1
  <2> QED
    BY <1>1, <1>5, <2>1, <2>2
<1> HIDE DEF two
<1>8. /\ data \in Seq(S) /\ Len(rest) \in Nat /\ Len(data) = 4 + n + Len(rest)
      /\ \A i \in 1..(4 + n) : data[i] = two[i]
  <2> DEFINE k == 4 + n
  <2>1. k \in Nat /\ Len(two) = k
    BY <1>5, <1>7
  <2> HIDE DEF k
  <2>2. /\ data \in Seq(S) /\ Len(rest) \in Nat /\ Len(data) = k + Len(rest)
        /\ \A i \in 1..k : data[i] = two[i]
    BY <1>3, <1>4, <1>7, <2>1, Parts
  <2> QED
    BY <2>2 DEF k
<1>9. ASSUME NEW i \in 1..3 PROVE data[i] = <<a, b, c>>[i]
  BY <1>6, <1>7, <1>8
<1>10. data[4 + n] = f
  <2>1. 4 + n \in 1..(4 + n)
    OBVIOUS
  <2>2. data[4 + n] = two[4 + n]
    BY <1>8, <2>1
  <2>3. two[4 + n] = <<f>>[1] /\ <<f>>[1] = f
    BY <1>5, <1>7
  <2> QED
    BY <2>2, <2>3
<1>11. ASSUME NEW i \in 1..n PROVE data[3 + i] = groups[i]
  <2>1. 3 + i \in 1..(3 + n) /\ 3 + i \in 1..(4 + n)
    OBVIOUS
  <2> QED
    BY <1>6, <1>7, <1>8, <2>1
<1>12. Holds(SubSeq(data, 4, Len(data)), v, n)
  <2> DEFINE tail == SubSeq(data, 4, Len(data))
  <2>1. Len(data) \in Int /\ 4 \in Int /\ 4 <= Len(data)
    BY <1>8
  <2>2. \A i \in 4..Len(data) : data[i] \in S
    BY <1>8, ElementOfSeq
  <2>3. /\ Len(tail) = Len(data) - 4 + 1
        /\ \A i \in 1..(Len(data) - 4 + 1) : tail[i] = data[4 + i - 1]
    BY <2>1, <2>2, SubSeqProperties
  <2>4. Len(tail) \in Nat /\ n <= Len(tail)
    BY <1>8, <2>3
  <2>5. ASSUME NEW i \in 1..n PROVE tail[i] = groups[i]
    <3>1. i \in 1..(Len(data) - 4 + 1) /\ 4 + i - 1 = 3 + i
      BY <1>8
    <3> QED
      BY <1>11, <2>3, <3>1
  <2> QED
    BY <2>4, <2>5 DEF Holds, groups
<1>13. data[1] = a /\ data[2] = b /\ data[3] = c
  BY <1>9, 1 \in 1..3, 2 \in 1..3, 3 \in 1..3
<1> QED
  BY <1>8, <1>10, <1>12, <1>13 DEF data

\* What the decoders make of such a payload.
MetaIn(a, b, c, v) ==
  [version |-> a, b_spend |-> b, b_scan |-> c, label_index |-> v, flags |-> 0]

LEMMA Decoded ==
  ASSUME NEW a, NEW b, NEW c, NEW f, NEW v \in Nat, NEW n \in 1..5, NEW rest \in Seq(Nat),
         Shifts(v)[n] < GroupBase,
         NEW data, data = Payload(a, b, c, v, n, f, rest)
  PROVE  /\ read_payload(data) =
              IF a = META_ADDRESS_VERSION_V1 /\ f = 0 /\ rest = <<>> /\ v \in Labels
              THEN {MetaIn(a, b, c, v)} ELSE {}
         /\ readPayload(data) =
              IF a = META_ADDRESS_VERSION_V1 /\ f = 0 /\ rest = <<>>
              THEN {MetaIn(a, b, c, v % LabelSpace)} ELSE {}
<1>0. LET p == Payload(a, b, c, v, n, f, rest)
      IN  /\ Len(rest) \in Nat /\ Len(p) = 4 + n + Len(rest)
          /\ p[1] = a /\ p[2] = b /\ p[3] = c /\ p[4 + n] = f
          /\ Holds(SubSeq(p, 4, Len(p)), v, n)
  BY Layout
<1> DEFINE tail == SubSeq(data, 4, Len(data))
           found == [value |-> v, consumed |-> n]
           cut == [value |-> v % LabelSpace, consumed |-> n]
<1>1. /\ Len(rest) \in Nat /\ Len(data) = 4 + n + Len(rest)
      /\ data[1] = a /\ data[2] = b /\ data[3] = c /\ data[4 + n] = f
      /\ Holds(tail, v, n)
  BY <1>0
<1>2. Ends(tail) = {n} /\ Value(tail, n) = v
  BY <1>1, EndsThere, ValueThere
<1>3. read_leb128_u32(tail) = IF v \in Labels THEN {found} ELSE {}
  BY <1>2 DEF read_leb128_u32
<1>4. leb128Decode(tail) = {cut}
  BY <1>2 DEF leb128Decode
<1>5. Len(data) >= 5
  BY <1>1
<1>6. rest = <<>> <=> Len(rest) = 0
  BY EmptySeq
<1>7. ASSUME NEW label, label.consumed = n
      PROVE  WellFormed(data, label) <=> rest = <<>> /\ f = 0
  <2>1. Len(data) = 3 + n + 1 <=> Len(rest) = 0
    BY <1>1
  <2>2. Len(rest) = 0 => data[Len(data)] = f
    BY <1>1
  <2> QED
    BY <1>6, <1>7, <2>1, <2>2 DEF WellFormed
<1>8. ASSUME NEW label, label.consumed = n, rest = <<>>, f = 0
      PROVE  Fields(data, label) = MetaIn(a, b, c, label.value)
  <2>1. data[Len(data)] = 0
    BY <1>1, <1>6, <1>8
  <2> QED
    BY <1>1, <2>1 DEF Fields, MetaIn
<1>9. found.consumed = n /\ found.value = v /\ cut.consumed = n /\ cut.value = v % LabelSpace
  OBVIOUS
<1> HIDE DEF tail, found, cut
<1>10. read_payload(data) =
         IF a = META_ADDRESS_VERSION_V1
         THEN {Fields(data, label) : label \in {l \in read_leb128_u32(tail) : WellFormed(data, l)}}
         ELSE {}
  BY <1>1, <1>5 DEF read_payload, tail
<1>11. readPayload(data) =
         IF a = META_ADDRESS_VERSION_V1
         THEN {Fields(data, label) : label \in {l \in leb128Decode(tail) : WellFormed(data, l)}}
         ELSE {}
  BY <1>1, <1>5 DEF readPayload, tail
<1>12. WellFormed(data, found) <=> rest = <<>> /\ f = 0
  BY <1>7, <1>9
<1>13. WellFormed(data, cut) <=> rest = <<>> /\ f = 0
  BY <1>7, <1>9
<1>14. rest = <<>> /\ f = 0 => /\ Fields(data, found) = MetaIn(a, b, c, v)
                             /\ Fields(data, cut) = MetaIn(a, b, c, v % LabelSpace)
  BY <1>8, <1>9
<1> QED
  BY <1>3, <1>4, <1>10, <1>11, <1>12, <1>13, <1>14

\* The payload of an encoded meta-address is such a payload, with nothing behind it.
LEMMA Encoded ==
  ASSUME NEW a, NEW b, NEW c, NEW v \in Labels
  PROVE  write_payload(MetaIn(a, b, c, v)) = Payload(a, b, c, v, GroupCount(v), 0, <<>>)
<1> DEFINE n == GroupCount(v)
           S == {a, b, c, 0} \cup Nat
           one == <<a, b, c>> \o Groups(v, n)
           two == one \o <<0>>
<1>1. n \in 1..5 /\ v \in Nat
  BY WrittenGroups, FifthShift
<1>2. write_payload(MetaIn(a, b, c, v)) = two
  BY DEF write_payload, MetaIn, write_leb128_u32
<1>3. Payload(a, b, c, v, n, 0, <<>>) = two \o <<>>
  BY DEF Payload
<1>4. Groups(v, n) \in Seq(S)
  BY <1>1, GroupsSeq, SeqMonotonic
<1>5. <<a, b, c>> \in Seq(S) /\ <<0>> \in Seq(S)
  OBVIOUS
<1> HIDE DEF S, n
<1>6. one \in Seq(S)
  BY <1>4, <1>5, ConcatProperties
<1> HIDE DEF one
<1>7. two \in Seq(S)
  BY <1>5, <1>6, ConcatProperties
<1> HIDE DEF two
<1>8. two \o <<>> = two
  BY <1>7, ConcatEmptySeq
<1> QED
  BY <1>2, <1>3, <1>8 DEF n

LEMMA LabelFits == \A v \in Labels : v % LabelSpace = v
<1>1. \A v \in Labels : v \in 0..(LabelSpace - 1)
  BY DEF Labels
<1>2. LabelSpace \in Nat /\ LabelSpace >= 2
  BY CodecWidths DEF CodecWidths
<1> QED
  BY <1>1, <1>2, SMTT(30)

\* The round trip of the codec, in both SDKs: what encode_bech32m writes for a label index
\* of 32 bits, both decoders read as the meta-address it was written for.
THEOREM RoundTrip ==
  ASSUME NEW b, NEW c, NEW v \in Labels
  PROVE  LET m == MetaIn(META_ADDRESS_VERSION_V1, b, c, v)
         IN  /\ decode_bech32m(encode_bech32m(m)) = {m}
             /\ decodeMetaAddress(encode_bech32m(m)) = {m}
<1> DEFINE a == META_ADDRESS_VERSION_V1
           n == GroupCount(v)
           m == MetaIn(a, b, c, v)
           data == Payload(a, b, c, v, n, 0, <<>>)
<1>1. v \in Nat /\ n \in 1..5 /\ Shifts(v)[n] < GroupBase /\ <<>> \in Seq(Nat)
  BY WrittenGroups, FifthShift, EmptySeq
<1>2. write_payload(m) = data
  BY Encoded
<1>3. v % LabelSpace = v
  BY LabelFits
<1> HIDE DEF n, a
<1>4. data = Payload(a, b, c, v, n, 0, <<>>)
  OBVIOUS
<1> HIDE DEF data
<1>5. /\ read_payload(data) =
           IF a = META_ADDRESS_VERSION_V1 /\ 0 = 0 /\ <<>> = <<>> /\ v \in Labels
           THEN {MetaIn(a, b, c, v)} ELSE {}
      /\ readPayload(data) =
           IF a = META_ADDRESS_VERSION_V1 /\ 0 = 0 /\ <<>> = <<>>
           THEN {MetaIn(a, b, c, v % LabelSpace)} ELSE {}
  BY <1>1, <1>4, Decoded
<1>6. read_payload(data) = {m} /\ readPayload(data) = {m}
  BY <1>3, <1>5 DEF a
<1> DEFINE text == encode_bech32m(m)
<1>7. /\ text.payload = data
      /\ text.form.checksum = "bech32m" /\ text.form.letters = "lower" /\ text.form.padding = "zero"
  BY <1>2 DEF encode_bech32m, Canonical
<1> HIDE DEF text, m
<1>8. decode_bech32m(text) = {m} /\ decodeMetaAddress(text) = {m}
  BY <1>6, <1>7 DEF decode_bech32m, decodeMetaAddress
<1> QED
  BY <1>8 DEF text, m, a

\* A text has a label whose value needs more than 32 bits.
LabelTooWide(s) ==
  LET tail == SubSeq(s.payload, 4, Len(s.payload))
  IN  \E n \in Ends(tail) : Value(tail, n) \notin Labels

\* Where the two decoders differ, for whatever text: what keys.rs reads, keys.ts reads
\* alike, unless the text has the other checksum or its last bits are not zero, which
\* keys.ts refuses; what keys.ts reads, keys.rs reads alike, unless the letters are upper
\* case, which keys.rs refuses, or the label is too wide, which keys.rs refuses and keys.ts
\* cuts off.
THEOREM WhereDecodersDiffer ==
  ASSUME NEW s
  PROVE  /\ IF s.form.checksum = "bech32m" /\ s.form.padding = "zero"
            THEN decode_bech32m(s) \subseteq decodeMetaAddress(s)
            ELSE decodeMetaAddress(s) = {}
         /\ IF s.form.letters = "lower"
            THEN LabelTooWide(s) \/ decodeMetaAddress(s) \subseteq decode_bech32m(s)
            ELSE decode_bech32m(s) = {}
<1> DEFINE data == s.payload
           tail == SubSeq(data, 4, Len(data))
<1>1. read_leb128_u32(tail) \subseteq leb128Decode(tail)
  BY LabelFits DEF read_leb128_u32, leb128Decode
<1>2. LabelTooWide(s) \/ leb128Decode(tail) \subseteq read_leb128_u32(tail)
  <2> SUFFICES ASSUME \A n \in Ends(tail) : Value(tail, n) \in Labels, NEW l \in leb128Decode(tail)
               PROVE  l \in read_leb128_u32(tail)
    BY DEF LabelTooWide
  <2>1. PICK n \in Ends(tail) : l = [value |-> Value(tail, n) % LabelSpace, consumed |-> n]
    BY DEF leb128Decode
  <2>2. Value(tail, n) \in Labels /\ Value(tail, n) % LabelSpace = Value(tail, n)
    BY LabelFits
  <2> QED
    BY <2>1, <2>2 DEF read_leb128_u32
<1> HIDE DEF tail
<1>3. read_payload(data) \subseteq readPayload(data)
  BY <1>1 DEF read_payload, readPayload, tail
<1>4. LabelTooWide(s) \/ readPayload(data) \subseteq read_payload(data)
  BY <1>2 DEF read_payload, readPayload, tail
<1> QED
  BY <1>3, <1>4 DEF decode_bech32m, decodeMetaAddress

------------------------------------------------------------------------------
(* Keys *)

KeysTyped(k) ==
  /\ \E s \in Scalars \ {0} : k.spend = SpendKey(s)
  /\ \E x \in Secrets : k.scan = ScanKey(x)

LEMMA KeysFromSecrets ==
  ASSUME NEW raw, NEW x \in Secrets, from_bytes_mod_order(raw) \in Scalars,
         NEW k \in keys_from_secrets(raw, x)
  PROVE  /\ k \in KeyPairs /\ KeysTyped(k) /\ k.scan.raw = x
         /\ k = [spend |-> SpendKey(from_bytes_mod_order(raw)), scan |-> ScanKey(x)]
<1>1. /\ k = [spend |-> SpendKey(from_bytes_mod_order(raw)), scan |-> ScanKey(x)]
      /\ from_bytes_mod_order(raw) # 0
  BY DEF keys_from_secrets
<1>2. k.spend = SpendKey(from_bytes_mod_order(raw)) /\ k.scan = ScanKey(x)
  BY <1>1
<1>3. KeysTyped(k)
  BY <1>1, <1>2 DEF KeysTyped
<1>4. k.scan.raw = x
  BY <1>2 DEF ScanKey
<1> QED
  BY <1>1, <1>3, <1>4 DEF KeyPairs

\* A derivation determines the keys: there is at most one pair, with the scan secret of its
\* input.
LEMMA SignedKeysOf ==
  ASSUME NEW network \in Networks, NEW n \in Nonces,
         NEW k \in derive_stealth_keys(Signature(network, n))
  PROVE  /\ k \in KeyPairs /\ KeysTyped(k)
         /\ k.scan.raw = ScanPart(Signature(network, n))
         /\ \A l \in derive_stealth_keys(Signature(network, n)) : l = k
<1> DEFINE s == Signature(network, n)
<1>1. ScanPart(s) \in Secrets /\ from_bytes_mod_order(SpendPart(s)) \in Scalars
  BY DerivationTypes DEF DerivationTypes, Signature
<1>2. \A l \in derive_stealth_keys(s) : l \in keys_from_secrets(SpendPart(s), ScanPart(s))
  BY DEF derive_stealth_keys
<1> HIDE DEF s
<1>3. \A l \in derive_stealth_keys(s) :
        /\ l \in KeyPairs /\ KeysTyped(l) /\ l.scan.raw = ScanPart(s)
        /\ l = [spend |-> SpendKey(from_bytes_mod_order(SpendPart(s))), scan |-> ScanKey(ScanPart(s))]
  BY <1>1, <1>2, KeysFromSecrets
<1>4. k \in derive_stealth_keys(s)
  BY DEF s
<1> QED
  BY <1>3, <1>4 DEF s

LEMMA SeededKeysOf ==
  ASSUME NEW seed \in Seeds, NEW account \in Accounts,
         NEW k \in derive_stealth_keys_hd(seed, account)
  PROVE  /\ k \in KeyPairs /\ KeysTyped(k) /\ SeedLen(seed) \in 16..64
         /\ k.scan.raw = slip10_ed25519_node(seed, Path(account, 1))
         /\ \A l \in derive_stealth_keys_hd(seed, account) : l = k
<1> DEFINE raw == slip10_ed25519_node(seed, Path(account, 0))
           x == slip10_ed25519_node(seed, Path(account, 1))
<1>1. x \in Secrets /\ from_bytes_mod_order(raw) \in Scalars /\ SeedLen(seed) \in Nat
  BY DerivationTypes DEF DerivationTypes
<1>2. /\ SeedLen(seed) \in 16..64
      /\ derive_stealth_keys_hd(seed, account) = keys_from_secrets(raw, x)
  BY <1>1 DEF derive_stealth_keys_hd
<1> HIDE DEF raw, x
<1>3. \A l \in keys_from_secrets(raw, x) :
        /\ l \in KeyPairs /\ KeysTyped(l) /\ l.scan.raw = x
        /\ l = [spend |-> SpendKey(from_bytes_mod_order(raw)), scan |-> ScanKey(x)]
  BY <1>1, KeysFromSecrets
<1> QED
  BY <1>2, <1>3 DEF x

------------------------------------------------------------------------------
(* The invariant *)

\* Keys are what their origin gives, and the same again if that is repeatable.
DerivedFrom(d) ==
  \/ \E network \in Networks, g \in BOOLEAN, n \in Nonces :
       /\ d.origin = Signed(network, g)
       /\ d.keys \in derive_stealth_keys(Signature(network, n))
       /\ Repeatable(d.origin) => n = 0
  \/ \E seed \in Seeds, account \in Accounts :
       /\ d.origin = Seeded(seed, account)
       /\ d.keys \in derive_stealth_keys_hd(seed, account)

Derivation(d) == d = [origin |-> d.origin, keys |-> d.keys] /\ DerivedFrom(d)

OwnString(s, d, i) ==
  s = [text |-> encode_bech32m(MetaOf(d.keys, i)), meta |-> MetaOf(d.keys, i), rest |-> <<>>,
       for |-> {[origin |-> d.origin, label |-> i]}]

PaymentTo(p, d, i, r) ==
  /\ p = [origin |-> d.origin, label |-> i, payment |-> derive_payment(MetaOf(d.keys, i), r)]
  /\ CanDerive(MetaOf(d.keys, i), r)

WalletInv ==
  /\ wallet \in {"deterministic", "randomized"} /\ nonces \subseteq Nonces
  /\ \A d \in derived : Derivation(d)
  /\ installed \in derived \cup {NoKeys}

ShownInv ==
  \/ shown = NoString
  \/ \E d \in derived, i \in LabelIndexes : OwnString(shown, d, i)
  \/ \E f \in Foreign : shown = ForeignString(f)

PaidInv ==
  \A p \in paid : \E d \in derived, i \in LabelIndexes, r \in Ephemerals : PaymentTo(p, d, i, r)

IdentityInv == WalletInv /\ ShownInv /\ PaidInv

LEMMA DerivationTyped ==
  ASSUME NEW d, Derivation(d)
  PROVE  d.origin \in Origins /\ d.keys \in KeyPairs /\ KeysTyped(d.keys)
<1>1. CASE \E network \in Networks, g \in BOOLEAN, n \in Nonces :
             /\ d.origin = Signed(network, g)
             /\ d.keys \in derive_stealth_keys(Signature(network, n))
  <2>1. PICK network \in Networks, g \in BOOLEAN, n \in Nonces :
          /\ d.origin = Signed(network, g)
          /\ d.keys \in derive_stealth_keys(Signature(network, n))
    BY <1>1
  <2>2. d.keys \in KeyPairs /\ KeysTyped(d.keys)
    BY <2>1, SignedKeysOf
  <2>3. d.origin \in Origins
    BY <2>1 DEF Origins
  <2> QED
    BY <2>2, <2>3
<1>2. CASE \E seed \in Seeds, account \in Accounts :
             /\ d.origin = Seeded(seed, account)
             /\ d.keys \in derive_stealth_keys_hd(seed, account)
  <2>1. PICK seed \in Seeds, account \in Accounts :
          /\ d.origin = Seeded(seed, account)
          /\ d.keys \in derive_stealth_keys_hd(seed, account)
    BY <1>2
  <2>2. d.keys \in KeyPairs /\ KeysTyped(d.keys)
    BY <2>1, SeededKeysOf
  <2>3. d.origin \in Origins
    BY <2>1 DEF Origins
  <2> QED
    BY <2>2, <2>3
<1> QED
  BY <1>1, <1>2 DEF Derivation, DerivedFrom

------------------------------------------------------------------------------
(* Strings *)

LEMMA MetaOfIsMeta ==
  ASSUME NEW k, NEW i
  PROVE  MetaOf(k, i) = MetaIn(META_ADDRESS_VERSION_V1, for_label(k.spend, k.scan, i).b_spend, k.scan.public, i)
BY DEF MetaOf, MetaIn

\* Every reader reads an own string as its meta-address.
LEMMA OwnRead ==
  ASSUME NEW s, NEW d, NEW i \in LabelIndexes, OwnString(s, d, i), NEW app \in Readers
  PROVE  Read(app, s.text) = {s.meta} /\ s.meta = MetaOf(d.keys, i)
<1> DEFINE m == MetaOf(d.keys, i)
<1>1. s.text = encode_bech32m(m) /\ s.meta = m
  BY DEF OwnString
<1>2. i \in Labels
  BY IdentityConstants DEF IdentityConstants
<1>3. decode_bech32m(encode_bech32m(m)) = {m} /\ decodeMetaAddress(encode_bech32m(m)) = {m}
  <2> DEFINE b == for_label(d.keys.spend, d.keys.scan, i).b_spend
             c == d.keys.scan.public
  <2>1. m = MetaIn(META_ADDRESS_VERSION_V1, b, c, i)
    BY MetaOfIsMeta
  <2> HIDE DEF m, b, c
  <2> QED
    BY <1>2, <2>1, RoundTrip
<1> HIDE DEF m
<1>4. \A text : dispatch([name |-> "meta-decode", meta |-> text]) = decode_bech32m(text)
  BY DEF dispatch
<1>5. CASE app = "rust"
  BY <1>1, <1>3, <1>5 DEF Read, m
<1>6. CASE app = "typescript"
  BY <1>1, <1>3, <1>6 DEF Read, m
<1>7. CASE app = "cli"
  BY <1>1, <1>3, <1>4, <1>7 DEF Read, m
<1> QED
  BY <1>5, <1>6, <1>7 DEF Readers

\* A reader reads another maker's string as it was written, but for the label in keys.ts,
\* or not at all.
LEMMA ForeignRead ==
  ASSUME NEW f \in Foreign, NEW app \in Readers, NEW m \in Read(app, ForeignString(f).text)
  PROVE  /\ f.meta.version = META_ADDRESS_VERSION_V1 /\ f.meta.flags = 0 /\ f.rest = <<>>
         /\ m.b_spend = f.meta.b_spend /\ m.b_scan = f.meta.b_scan
         /\ app # "typescript" => m = f.meta
<1> DEFINE a == f.meta.version
           b == f.meta.b_spend
           c == f.meta.b_scan
           v == f.meta.label_index
           g == f.meta.flags
           text == ForeignString(f).text
           data == text.payload
<1>1. /\ f.meta = [version |-> a, b_spend |-> b, b_scan |-> c, label_index |-> v, flags |-> g]
      /\ v \in Nat /\ f.length \in 1..5 /\ Shifts(v)[f.length] < GroupBase /\ f.rest \in Seq(Nat)
  BY IdentityConstants DEF IdentityConstants
<1>2. data = Payload(a, b, c, v, f.length, g, f.rest)
  BY DEF ForeignString, Payload
<1> HIDE DEF a, b, c, v, g, data
<1>3. /\ read_payload(data) =
           IF a = META_ADDRESS_VERSION_V1 /\ g = 0 /\ f.rest = <<>> /\ v \in Labels
           THEN {MetaIn(a, b, c, v)} ELSE {}
      /\ readPayload(data) =
           IF a = META_ADDRESS_VERSION_V1 /\ g = 0 /\ f.rest = <<>>
           THEN {MetaIn(a, b, c, v % LabelSpace)} ELSE {}
  BY <1>1, <1>2, Decoded
<1>4. ASSUME NEW w PROVE MetaIn(a, b, c, w).b_spend = b /\ MetaIn(a, b, c, w).b_scan = c
  BY DEF MetaIn
<1> HIDE DEF text
<1>5. CASE app = "typescript"
  <2>1. m \in readPayload(data)
    BY <1>5 DEF Read, decodeMetaAddress, data, text
  <2> QED
    BY <1>3, <1>4, <1>5, <2>1 DEF a, b, c, g
<1>6. CASE app # "typescript"
  <2>1. \A t : dispatch([name |-> "meta-decode", meta |-> t]) = decode_bech32m(t)
    BY DEF dispatch
  <2>2. m \in read_payload(data)
    BY <1>6, <2>1 DEF Readers, Read, decode_bech32m, data, text
  <2>3. m = MetaIn(a, b, c, v) /\ a = META_ADDRESS_VERSION_V1 /\ g = 0 /\ f.rest = <<>>
    BY <1>3, <2>2
  <2>4. m = f.meta
    BY <1>1, <2>3 DEF MetaIn
  <2> QED
    BY <2>3, <2>4 DEF a, b, c, g
<1> QED
  BY <1>5, <1>6

------------------------------------------------------------------------------
(* Payments *)

\* A signature made with the scalar of an address verifies against the address.
THEOREM SignatureVerifies ==
  ASSUME NEW a \in Scalars, NEW m \in Messages
  PROVE  Verifies(BaseTimes(a), m, sign(StealthSigningKey(a), m))
<1> DEFINE r == NonceHash(a, m)
           k == ChallengeHash(BaseTimes(r), BaseTimes(a), m)
<1>1. r \in Scalars
  BY SigningGroup DEF SigningGroup
<1>2. BaseTimes(r) \in Points /\ BaseTimes(a) \in Points
  BY <1>1, StealthGroups DEF StealthGroups
<1>3. k \in Scalars
  BY <1>2, SigningGroup DEF SigningGroup
<1>4. sign(StealthSigningKey(a), m) = [R |-> BaseTimes(r), s |-> Plus(r, TimesScalar(k, a))]
  BY DEF sign, StealthSigningKey
<1> HIDE DEF r, k
<1>5. /\ TimesScalar(k, a) \in Scalars
      /\ BaseTimes(TimesScalar(k, a)) = TimesPoint(k, BaseTimes(a))
  BY <1>3, SigningGroup DEF SigningGroup
<1>6. BaseTimes(Plus(r, TimesScalar(k, a))) = PlusPoint(BaseTimes(r), TimesPoint(k, BaseTimes(a)))
  BY <1>1, <1>5, StealthGroups DEF StealthGroups
<1>7. k = ChallengeHash(BaseTimes(r), BaseTimes(a), m)
  BY DEF k
<1> QED
  BY <1>4, <1>6, <1>7 DEF Verifies

\* A payment to label i of keys k is recovered with k under i.
LEMMA Recover ==
  ASSUME NEW k, KeysTyped(k), NEW i \in LabelIndexes, NEW r \in Ephemerals,
         CanDerive(MetaOf(k, i), r)
  PROVE  Recovers(k, i, derive_payment(MetaOf(k, i), r))
<1>1. PICK s \in Scalars \ {0} : k.spend = SpendKey(s)
  BY DEF KeysTyped
<1>2. PICK x \in Secrets : k.scan = ScanKey(x)
  BY DEF KeysTyped
<1> DEFINE p == derive_payment(MetaOf(k, i), r)
           shared == diffie_hellman(r, PublicKey(x))
           tag == compute_view_tag(shared)
           tweak == compute_tweak(shared, tag)
           labelled == IF i = 0 THEN s ELSE Plus(s, label_tweak_scalar(x, i))
           scalar == Plus(labelled, tweak)
<1>3. r \in Secrets /\ s \in Scalars /\ x \in Secrets
  BY IdentityConstants DEF IdentityConstants
<1>4. shared = diffie_hellman(x, PublicKey(r))
  BY <1>3, StealthGroups DEF StealthGroups
<1>5. tweak \in Scalars
  BY <1>3, StealthGroups DEF StealthGroups
<1>6. /\ labelled \in Scalars
      /\ for_label(k.spend, k.scan, i).b_spend = BaseTimes(labelled)
  <2>1. label_tweak_scalar(x, i) \in Scalars
    BY <1>3, StealthGroups DEF StealthGroups
  <2>2. /\ Plus(s, label_tweak_scalar(x, i)) \in Scalars
        /\ BaseTimes(Plus(s, label_tweak_scalar(x, i))) = PlusPoint(BaseTimes(s), BaseTimes(label_tweak_scalar(x, i)))
    BY <1>3, <2>1, StealthGroups DEF StealthGroups
  <2> QED
    BY <1>1, <1>2, <1>3, <2>2 DEF for_label, SpendKey, ScanKey
<1>7. k.scan.raw = x /\ k.scan.public = PublicKey(x) /\ from_raw(x) = ScanKey(x)
      /\ ScanKey(x).raw = x /\ k.spend.scalar = s
  BY <1>1, <1>2 DEF SpendKey, ScanKey, from_raw
<1>8. MetaOf(k, i).b_spend = BaseTimes(labelled) /\ MetaOf(k, i).b_scan = PublicKey(x)
  BY <1>6, <1>7 DEF MetaOf
<1>9. shared # ZeroShared
  BY <1>8 DEF CanDerive
<1>10. p = [stealth_address |-> PlusPoint(BaseTimes(labelled), BaseTimes(tweak)),
            ephemeral_pub |-> PublicKey(r), view_tag |-> tag]
  BY <1>8 DEF derive_payment
<1>11. scalar \in Scalars /\ BaseTimes(scalar) = PlusPoint(BaseTimes(labelled), BaseTimes(tweak))
  BY <1>5, <1>6, StealthGroups DEF StealthGroups
<1> DEFINE c == Candidate(k.spend, k.scan, shared, tag, i)
<1>12. c = [stealth_address |-> BaseTimes(scalar), stealth_scalar |-> scalar, label_index |-> i]
  BY <1>7 DEF Candidate
<1> HIDE DEF p, scalar, labelled, tweak, tag, shared, c
<1>13. p.stealth_address = BaseTimes(scalar) /\ p.ephemeral_pub = PublicKey(r) /\ p.view_tag = tag
  BY <1>10, <1>11
<1>14. tag = compute_view_tag(shared)
  BY DEF tag
<1>15. ASSUME NEW key, key.raw = x PROVE view_tag_matches(key, p.ephemeral_pub, p.view_tag)
  BY <1>4, <1>9, <1>13, <1>14, <1>15 DEF view_tag_matches
<1>16. view_tag_matches(from_raw(k.scan.raw), p.ephemeral_pub, p.view_tag)
  BY <1>7, <1>15
<1>17. c \in scan_note_candidates(k.spend, k.scan, p.ephemeral_pub, p.view_tag, {i})
  <2>1. view_tag_matches(k.scan, p.ephemeral_pub, p.view_tag)
    BY <1>7, <1>15
  <2>2. c = Candidate(k.spend, k.scan, diffie_hellman(k.scan.raw, p.ephemeral_pub), p.view_tag, i)
    BY <1>4, <1>7, <1>13 DEF c
  <2> QED
    BY <2>1, <2>2 DEF scan_note_candidates
<1>18. /\ c.stealth_address = p.stealth_address
       /\ \A m \in Messages :
            Verifies(c.stealth_address, m, sign(StealthSigningKey(c.stealth_scalar), m))
  BY <1>11, <1>12, <1>13, SignatureVerifies
<1> QED
  BY <1>16, <1>17, <1>18 DEF Recovers, p

------------------------------------------------------------------------------
(* Steps *)

LEMMA InitHolds == Init => IdentityInv
BY DEF Init, IdentityInv, WalletInv, ShownInv, PaidInv

\* What a step adds must be derived, shown and paid rightly; the rest stays.
LEMMA Grows ==
  ASSUME IdentityInv, wallet' = wallet, nonces' \subseteq Nonces,
         derived \subseteq derived', \A d \in derived' : Derivation(d),
         installed' \in derived' \cup {NoKeys},
         \/ shown' = shown
         \/ \E d \in derived', i \in LabelIndexes : OwnString(shown', d, i)
         \/ \E f \in Foreign : shown' = ForeignString(f),
         \A p \in paid' : p \in paid \/ \E d \in derived', i \in LabelIndexes, r \in Ephemerals : PaymentTo(p, d, i, r)
  PROVE  IdentityInv'
<1>1. \A d : Derivation(d) => Derivation(d)'
  BY DEF Derivation, DerivedFrom, Repeatable
<1>2. WalletInv'
  BY <1>1 DEF IdentityInv, WalletInv
<1>3. ShownInv'
  BY DEF IdentityInv, ShownInv
<1>4. PaidInv'
  BY DEF IdentityInv, PaidInv
<1> QED
  BY <1>2, <1>3, <1>4 DEF IdentityInv

\* Nonces are of the wallet's kind; a wallet that signs without one uses none.
LEMMA FreshNonces ==
  ASSUME NEW drawn, NEW n \in Fresh(drawn)
  PROVE  n \in Nonces /\ (wallet = "deterministic" => n = 0) /\ (wallet # "deterministic" => n \notin drawn)
BY DerivationTypes DEF DerivationTypes, Fresh

LEMMA SignedDerivation ==
  ASSUME NEW network \in Networks, NEW g \in BOOLEAN, NEW n \in Nonces,
         NEW k \in derive_stealth_keys(Signature(network, n)),
         g \/ wallet = "deterministic" => n = 0
  PROVE  Derivation([origin |-> Signed(network, g), keys |-> k])
<1> DEFINE d == [origin |-> Signed(network, g), keys |-> k]
<1>1. d.origin = Signed(network, g) /\ d.keys = k /\ d = [origin |-> d.origin, keys |-> d.keys]
  OBVIOUS
<1>2. Repeatable(Signed(network, g)) => n = 0
  BY DEF Repeatable, Signed
<1> HIDE DEF d
<1>3. DerivedFrom(d)
  BY <1>1, <1>2 DEF DerivedFrom
<1> QED
  BY <1>1, <1>3 DEF Derivation, d

LEMMA SeededDerivation ==
  ASSUME NEW seed \in Seeds, NEW account \in Accounts, NEW k \in derive_stealth_keys_hd(seed, account)
  PROVE  Derivation([origin |-> Seeded(seed, account), keys |-> k])
BY DEF Derivation, DerivedFrom

\* An installation keeps the invariant if its result is derived from its origin.
LEMMA Installs ==
  ASSUME IdentityInv, NEW origin, NEW result, Install(origin, result), nonces' \subseteq Nonces,
         \A k \in result : Derivation([origin |-> origin, keys |-> k])
  PROVE  IdentityInv'
<1>1. PICK k \in result : installed' = [origin |-> origin, keys |-> k]
  BY DEF Install
<1>2. /\ wallet' = wallet /\ shown' = shown /\ paid' = paid
      /\ derived' = derived \cup {installed'}
  BY DEF Install
<1>3. Derivation(installed')
  BY <1>1
<1>4. \A d \in derived : Derivation(d)
  BY DEF IdentityInv, WalletInv
<1>5. derived \subseteq derived' /\ installed' \in derived' \cup {NoKeys}
  BY <1>2
<1>6. \A d \in derived' : Derivation(d)
  BY <1>1, <1>2, <1>4
<1> QED
  BY <1>2, <1>5, <1>6, Grows

LEMMA DeriveKeeps ==
  ASSUME IdentityInv, NEW network \in Networks, Derive(network)
  PROVE  IdentityInv'
<1>1. PICK n \in Fresh(nonces) :
        /\ Install(Signed(network, FALSE), derive_stealth_keys(Signature(network, n)))
        /\ nonces' = nonces \cup {n}
  BY DEF Derive
<1>2. n \in Nonces /\ (wallet = "deterministic" => n = 0) /\ nonces \subseteq Nonces
  BY FreshNonces DEF IdentityInv, WalletInv
<1>3. \A k \in derive_stealth_keys(Signature(network, n)) :
        Derivation([origin |-> Signed(network, FALSE), keys |-> k])
  BY <1>2, SignedDerivation
<1>4. nonces' \subseteq Nonces
  BY <1>1, <1>2
<1> QED
  BY <1>1, <1>3, <1>4, Installs

\* Two signatures that are equal were drawn with one nonce, which only a deterministic
\* wallet uses twice.
LEMMA DeriveCheckedKeeps ==
  ASSUME IdentityInv, NEW network \in Networks, DeriveChecked(network)
  PROVE  IdentityInv'
<1>1. PICK n \in Fresh(nonces) : \E m \in Fresh(nonces \cup {n}) :
        /\ Install(Signed(network, TRUE),
                   derive_stealth_keys_checked(Signature(network, n), Signature(network, m)))
        /\ nonces' = nonces \cup {n, m}
  BY DEF DeriveChecked
<1>2. PICK m \in Fresh(nonces \cup {n}) :
        /\ Install(Signed(network, TRUE),
                   derive_stealth_keys_checked(Signature(network, n), Signature(network, m)))
        /\ nonces' = nonces \cup {n, m}
  BY <1>1
<1>3. n \in Nonces /\ (wallet = "deterministic" => n = 0)
  BY FreshNonces
<1>4. m \in Nonces /\ (wallet # "deterministic" => m # n)
  BY FreshNonces
<1> DEFINE result == derive_stealth_keys_checked(Signature(network, n), Signature(network, m))
<1>5. ASSUME NEW k \in result
      PROVE  Derivation([origin |-> Signed(network, TRUE), keys |-> k])
  <2>1. /\ Signature(network, n) = Signature(network, m)
        /\ k \in derive_stealth_keys(Signature(network, n))
    BY <1>5 DEF derive_stealth_keys_checked
  <2>2. n = m
    BY <1>3, <1>4, <2>1, NoncesShow DEF NoncesShow, Signature
  <2>3. n = 0
    BY <1>3, <1>4, <2>2
  <2> QED
    BY <1>3, <2>1, <2>3, SignedDerivation
<1>6. nonces' \subseteq Nonces
  BY <1>2, <1>3, <1>4 DEF IdentityInv, WalletInv
<1> QED
  BY <1>2, <1>5, <1>6, Installs

LEMMA DeriveHdKeeps ==
  ASSUME IdentityInv, NEW seed \in Seeds, NEW account \in Accounts, DeriveHd(seed, account)
  PROVE  IdentityInv'
<1>1. Install(Seeded(seed, account), derive_stealth_keys_hd(seed, account)) /\ nonces' \subseteq Nonces
  BY DEF DeriveHd, IdentityInv, WalletInv
<1> QED
  BY <1>1, SeededDerivation, Installs

LEMMA ForgetKeeps ==
  ASSUME IdentityInv, Forget
  PROVE  IdentityInv'
<1>1. /\ wallet' = wallet /\ nonces' = nonces /\ derived' = derived /\ shown' = shown /\ paid' = paid
      /\ installed' \in derived' \cup {NoKeys}
  BY DEF Forget
<1>2. nonces' \subseteq Nonces /\ \A d \in derived' : Derivation(d)
  BY <1>1 DEF IdentityInv, WalletInv
<1> QED
  BY <1>1, <1>2, Grows

LEMMA ShowsOwn ==
  ASSUME NEW d, NEW i, Show(d.origin, d.keys, i, encode_bech32m(MetaOf(d.keys, i)))
  PROVE  OwnString(shown', d, i)
BY DEF Show, OwnString

LEMMA HandOutKeeps ==
  ASSUME IdentityInv, NEW i \in LabelIndexes, HandOut(i)
  PROVE  IdentityInv'
<1>1. /\ wallet' = wallet /\ nonces' = nonces /\ installed' = installed /\ derived' = derived /\ paid' = paid
      /\ installed # NoKeys
      /\ Show(installed.origin, installed.keys, i, encode_bech32m(MetaOf(installed.keys, i)))
  BY DEF HandOut
<1>2. installed \in derived' /\ OwnString(shown', installed, i)
  BY <1>1, ShowsOwn DEF IdentityInv, WalletInv
<1>3. /\ nonces' \subseteq Nonces /\ \A d \in derived' : Derivation(d)
      /\ installed' \in derived' \cup {NoKeys}
  BY <1>1 DEF IdentityInv, WalletInv
<1> QED
  BY <1>1, <1>2, <1>3, Grows

\* What slnt prints is an own string if its commands encode the keys they derive.
LEMMA PrintedKeeps ==
  ASSUME IdentityInv, NEW origin, NEW k, NEW i \in LabelIndexes, NEW command,
         Printed(origin, k, i, command), nonces' \subseteq Nonces,
         Derivation([origin |-> origin, keys |-> k]),
         dispatch(command) \subseteq {encode_bech32m(MetaOf(k, i))}
  PROVE  IdentityInv'
<1> DEFINE d == [origin |-> origin, keys |-> k]
<1>1. PICK text \in dispatch(command) : Show(origin, k, i, text)
  BY DEF Printed
<1>2. /\ wallet' = wallet /\ installed' = installed /\ paid' = paid
      /\ derived' = derived \cup {d}
  BY DEF Printed
<1>3. OwnString(shown', d, i)
  <2>1. text = encode_bech32m(MetaOf(k, i)) /\ d.origin = origin /\ d.keys = k
    OBVIOUS
  <2> HIDE DEF d
  <2> QED
    BY <1>1, <2>1, ShowsOwn
<1>4. \A e \in derived : Derivation(e)
  BY DEF IdentityInv, WalletInv
<1>5. \A e \in derived' : Derivation(e)
  BY <1>2, <1>4
<1>6. installed' \in derived' \cup {NoKeys} /\ derived \subseteq derived' /\ d \in derived'
  BY <1>2 DEF IdentityInv, WalletInv
<1> HIDE DEF d
<1>7. \E e \in derived', j \in LabelIndexes : OwnString(shown', e, j)
  BY <1>3, <1>6
<1> QED
  BY <1>2, <1>5, <1>6, <1>7, Grows

\* slnt derives the keys again from the same signature or seed, and gets the same.
LEMMA Commands ==
  ASSUME NEW network \in Networks, NEW n \in Nonces, NEW i,
         NEW k \in derive_stealth_keys(Signature(network, n))
  PROVE  LET hex == Hex(Signature(network, n), 64)
         IN  /\ dispatch([name |-> "derive", signature |-> hex]) = {encode_bech32m(MetaOf(k, 0))}
             /\ dispatch([name |-> "label", signature |-> hex, index |-> i]) = {encode_bech32m(MetaOf(k, i))}
<1> DEFINE s == Signature(network, n)
           hex == Hex(s, 64)
<1>1. derive_stealth_keys(s) = {k}
  BY SignedKeysOf
<1>2. hex.length = 64 /\ hex.bytes = s
  BY DEF Hex
<1> HIDE DEF s, hex
<1>3. SignedKeys(hex) = {k}
  BY <1>1, <1>2 DEF SignedKeys, parse_fixed
<1>4. dispatch([name |-> "derive", signature |-> hex]) = {encode_bech32m(MetaOf(l, 0)) : l \in SignedKeys(hex)}
  BY DEF dispatch
<1>5. dispatch([name |-> "label", signature |-> hex, index |-> i])
        = {encode_bech32m(MetaOf(l, i)) : l \in SignedKeys(hex)}
  <2> DEFINE c == [name |-> "label", signature |-> hex, index |-> i]
  <2>1. c.name = "label" /\ c.signature = hex /\ c.index = i
    OBVIOUS
  <2> HIDE DEF c
  <2>2. dispatch(c) = Label(c)
    BY <2>1 DEF dispatch
  <2> QED
    BY <2>1, <2>2 DEF Label, c
<1> QED
  BY <1>3, <1>4, <1>5 DEF s, hex

LEMMA PrintSignedKeeps ==
  ASSUME IdentityInv, NEW name \in Names, NEW network \in Networks, NEW i \in LabelIndexes,
         PrintSigned(name, network, i)
  PROVE  IdentityInv'
<1> DEFINE asked == [name |-> "canonical-message", network |-> name]
<1>1. PICK message \in dispatch(asked) : \E n \in Fresh(nonces) :
        /\ <<name, network>> \in NetworkNames
        /\ \E k \in derive_stealth_keys(WalletSign(message, n)) :
             \/ Printed(Signed(network, FALSE), k, i,
                        [name |-> "label", signature |-> Hex(WalletSign(message, n), 64), index |-> i])
             \/ /\ i = 0
                /\ Printed(Signed(network, FALSE), k, 0,
                           [name |-> "derive", signature |-> Hex(WalletSign(message, n), 64)])
        /\ nonces' = nonces \cup {n}
  BY DEF PrintSigned
<1>2. message = canonical_message(network)
  <2>1. dispatch(asked) = {canonical_message(a) : a \in parse_network(name)}
    BY DEF dispatch
  <2>2. PICK a \in parse_network(name) : message = canonical_message(a)
    BY <2>1
  <2>3. <<name, a>> \in NetworkNames /\ <<name, network>> \in NetworkNames
    BY <1>1, <2>2 DEF parse_network
  <2>4. a = network
    BY <2>3 DEF NetworkNames
  <2> QED
    BY <2>2, <2>4
<1>3. PICK n \in Fresh(nonces) :
        /\ \E k \in derive_stealth_keys(Signature(network, n)) :
             \/ Printed(Signed(network, FALSE), k, i,
                        [name |-> "label", signature |-> Hex(Signature(network, n), 64), index |-> i])
             \/ /\ i = 0
                /\ Printed(Signed(network, FALSE), k, 0,
                           [name |-> "derive", signature |-> Hex(Signature(network, n), 64)])
        /\ nonces' = nonces \cup {n}
  BY <1>1, <1>2 DEF Signature
<1>4. PICK k \in derive_stealth_keys(Signature(network, n)) :
        \/ Printed(Signed(network, FALSE), k, i,
                   [name |-> "label", signature |-> Hex(Signature(network, n), 64), index |-> i])
        \/ /\ i = 0
           /\ Printed(Signed(network, FALSE), k, 0,
                      [name |-> "derive", signature |-> Hex(Signature(network, n), 64)])
  BY <1>3
<1>5. n \in Nonces /\ (wallet = "deterministic" => n = 0)
  BY FreshNonces
<1>6. nonces' \subseteq Nonces
  BY <1>3, <1>5 DEF IdentityInv, WalletInv
<1>7. Derivation([origin |-> Signed(network, FALSE), keys |-> k])
  BY <1>5, SignedDerivation
<1>8. /\ dispatch([name |-> "derive", signature |-> Hex(Signature(network, n), 64)]) = {encode_bech32m(MetaOf(k, 0))}
      /\ dispatch([name |-> "label", signature |-> Hex(Signature(network, n), 64), index |-> i])
           = {encode_bech32m(MetaOf(k, i))}
  BY <1>5, Commands
<1>9. CASE Printed(Signed(network, FALSE), k, i,
                   [name |-> "label", signature |-> Hex(Signature(network, n), 64), index |-> i])
  BY <1>6, <1>7, <1>8, <1>9, PrintedKeeps
<1>10. CASE /\ i = 0
            /\ Printed(Signed(network, FALSE), k, 0,
                       [name |-> "derive", signature |-> Hex(Signature(network, n), 64)])
  BY <1>6, <1>7, <1>8, <1>10, PrintedKeeps
<1> QED
  BY <1>4, <1>9, <1>10

LEMMA PrintSeededKeeps ==
  ASSUME IdentityInv, NEW seed \in Seeds, NEW account \in Accounts, PrintSeeded(seed, account)
  PROVE  IdentityInv'
<1> DEFINE command == [name |-> "derive-hd", seed |-> seed, account |-> account]
<1>1. PICK k \in derive_stealth_keys_hd(seed, account) : Printed(Seeded(seed, account), k, 0, command)
  BY DEF PrintSeeded
<1>2. nonces' \subseteq Nonces
  BY DEF PrintSeeded, IdentityInv, WalletInv
<1>3. derive_stealth_keys_hd(seed, account) = {k}
  BY SeededKeysOf
<1>4. dispatch(command) = {encode_bech32m(MetaOf(l, 0)) : l \in derive_stealth_keys_hd(seed, account)}
  BY DEF dispatch
<1>5. dispatch(command) = {encode_bech32m(MetaOf(k, 0))}
  BY <1>3, <1>4
<1>6. 0 \in LabelIndexes /\ Derivation([origin |-> Seeded(seed, account), keys |-> k])
  BY SeededDerivation, IdentityConstants DEF IdentityConstants
<1> HIDE DEF command
<1> QED
  BY <1>1, <1>2, <1>5, <1>6, PrintedKeeps

LEMMA ReceiveKeeps ==
  ASSUME IdentityInv, NEW f \in Foreign, Receive(f)
  PROVE  IdentityInv'
<1>1. /\ wallet' = wallet /\ nonces' = nonces /\ installed' = installed /\ derived' = derived /\ paid' = paid
      /\ shown' = ForeignString(f)
  BY DEF Receive
<1>2. /\ nonces' \subseteq Nonces /\ \A d \in derived' : Derivation(d)
      /\ installed' \in derived' \cup {NoKeys}
  BY <1>1 DEF IdentityInv, WalletInv
<1> QED
  BY <1>1, <1>2, Grows

\* Whichever way a sender reads a string, the payment is derived from what was read.
LEMMA PaymentsFrom ==
  ASSUME NEW app \in Readers, NEW text, NEW r, NEW payment \in PaymentsTo(app, text, r)
  PROVE  \E m \in Read(app, text) : CanDerive(m, r) /\ payment = derive_payment(m, r)
<1>1. CASE app # "cli"
  BY <1>1 DEF PaymentsTo
<1>2. CASE app = "cli"
  <2> DEFINE command == [name |-> "pay", meta |-> text, rng |-> Hex(r, 32)]
             told == [name |-> "meta-decode", meta |-> text]
  <2>1. command.name = "pay" /\ command.meta = text /\ command.rng = Hex(r, 32)
    OBVIOUS
  <2>2. told.name = "meta-decode" /\ told.meta = text
    OBVIOUS
  <2>3. Read(app, text) = dispatch(told)
    BY <1>2 DEF Read
  <2>4. PaymentsTo(app, text, r) = dispatch(command)
    BY <1>2 DEF PaymentsTo
  <2> HIDE DEF command, told
  <2>5. dispatch(told) = decode_bech32m(text)
    BY <2>2 DEF dispatch
  <2>6. dispatch(command) =
          UNION {{derive_payment(x, q) : x \in {y \in decode_bech32m(text) : CanDerive(y, q)}} :
                   q \in parse_fixed(32, Hex(r, 32))}
    BY <2>1 DEF dispatch
  <2>7. parse_fixed(32, Hex(r, 32)) = {r}
    BY DEF parse_fixed, Hex
  <2>8. PICK q \in {r} : payment \in {derive_payment(x, q) : x \in {y \in decode_bech32m(text) : CanDerive(y, q)}}
    BY <2>4, <2>6, <2>7
  <2> QED
    BY <2>3, <2>5, <2>8
<1> QED
  BY <1>1, <1>2

LEMMA PayKeeps ==
  ASSUME IdentityInv, NEW app \in Readers, NEW r \in Ephemerals, Pay(app, r)
  PROVE  IdentityInv'
<1>1. /\ wallet' = wallet /\ nonces' = nonces /\ installed' = installed /\ derived' = derived /\ shown' = shown
      /\ shown # NoString
  BY DEF Pay
<1>2. PICK payment \in PaymentsTo(app, shown.text, r) : \E to \in shown.for :
        paid' = paid \cup {[origin |-> to.origin, label |-> to.label, payment |-> payment]}
  BY DEF Pay
<1>3. PICK to \in shown.for :
        paid' = paid \cup {[origin |-> to.origin, label |-> to.label, payment |-> payment]}
  BY <1>2
<1>4. PICK d \in derived, i \in LabelIndexes : OwnString(shown, d, i)
  <2>1. \A f \in Foreign : ForeignString(f).for = {}
    BY DEF ForeignString
  <2> QED
    BY <1>1, <1>3, <2>1 DEF IdentityInv, ShownInv
<1>5. to.origin = d.origin /\ to.label = i
  BY <1>3, <1>4 DEF OwnString
<1>6. CanDerive(MetaOf(d.keys, i), r) /\ payment = derive_payment(MetaOf(d.keys, i), r)
  <2>1. Read(app, shown.text) = {MetaOf(d.keys, i)}
    BY <1>4, OwnRead
  <2> QED
    BY <1>2, <2>1, PaymentsFrom
<1>7. \A p \in paid' : p \in paid \/ PaymentTo(p, d, i, r)
  BY <1>3, <1>5, <1>6 DEF PaymentTo
<1>8. /\ nonces' \subseteq Nonces /\ \A e \in derived' : Derivation(e)
      /\ installed' \in derived' \cup {NoKeys}
  BY <1>1 DEF IdentityInv, WalletInv
<1> QED
  BY <1>1, <1>4, <1>7, <1>8, Grows

LEMMA NextKeeps == IdentityInv /\ [Next]_vars => IdentityInv'
<1> SUFFICES ASSUME IdentityInv, [Next]_vars PROVE IdentityInv'
  OBVIOUS
<1>1. CASE UNCHANGED vars
  <2>1. \A d : Derivation(d) => Derivation(d)'
    BY <1>1 DEF vars, Derivation, DerivedFrom, Repeatable
  <2> QED
    BY <1>1, <2>1 DEF vars, IdentityInv, WalletInv, ShownInv, PaidInv
<1>2. CASE \E network \in Networks : Derive(network) \/ DeriveChecked(network)
  BY <1>2, DeriveKeeps, DeriveCheckedKeeps
<1>3. CASE \E seed \in Seeds, account \in Accounts : DeriveHd(seed, account)
  BY <1>3, DeriveHdKeeps
<1>4. CASE Forget
  BY <1>4, ForgetKeeps
<1>5. CASE \E i \in LabelIndexes : HandOut(i)
  BY <1>5, HandOutKeeps
<1>6. CASE \E name \in Names, network \in Networks, i \in LabelIndexes : PrintSigned(name, network, i)
  BY <1>6, PrintSignedKeeps
<1>7. CASE \E seed \in Seeds, account \in Accounts : PrintSeeded(seed, account)
  BY <1>7, PrintSeededKeeps
<1>8. CASE \E f \in Foreign : Receive(f)
  BY <1>8, ReceiveKeeps
<1>9. CASE \E app \in Readers, r \in Ephemerals : Pay(app, r)
  BY <1>9, PayKeeps
<1> QED
  BY <1>1, <1>2, <1>3, <1>4, <1>5, <1>6, <1>7, <1>8, <1>9 DEF Next

LEMMA IdentityInvHolds == Spec => []IdentityInv
BY InitHolds, NextKeeps, PTL DEF Spec

------------------------------------------------------------------------------
(* What the invariant implies *)

LEMMA TypesHold == IdentityInv => TypeOK
<1> SUFFICES ASSUME IdentityInv PROVE TypeOK
  OBVIOUS
<1>1. \A d \in derived : d \in [origin : Origins, keys : KeyPairs]
  <2>1. ASSUME NEW d \in derived PROVE d \in [origin : Origins, keys : KeyPairs]
    <3>1. Derivation(d)
      BY DEF IdentityInv, WalletInv
    <3>2. d.origin \in Origins /\ d.keys \in KeyPairs
      BY <3>1, DerivationTyped
    <3>3. d = [origin |-> d.origin, keys |-> d.keys]
      BY <3>1 DEF Derivation
    <3> QED
      BY <3>2, <3>3
  <2> QED
    BY <2>1
<1>2. shown # NoString => DOMAIN shown = {"text", "meta", "rest", "for"}
  <2>1. CASE shown = NoString
    BY <2>1
  <2>2. CASE \E d \in derived, i \in LabelIndexes : OwnString(shown, d, i)
    BY <2>2 DEF OwnString
  <2>3. CASE \E f \in Foreign : shown = ForeignString(f)
    BY <2>3 DEF ForeignString
  <2> QED
    BY <2>1, <2>2, <2>3 DEF IdentityInv, ShownInv
<1>3. ASSUME NEW p \in paid PROVE p.origin \in Origins /\ p.label \in LabelIndexes
  <2>1. PICK d \in derived, i \in LabelIndexes, r \in Ephemerals : PaymentTo(p, d, i, r)
    BY DEF IdentityInv, PaidInv
  <2>2. p.origin = d.origin /\ p.label = i
    BY <2>1 DEF PaymentTo
  <2>3. d.origin \in Origins
    BY <1>1
  <2> QED
    BY <2>2, <2>3
<1> QED
  BY <1>1, <1>2, <1>3 DEF TypeOK, IdentityInv, WalletInv

\* Derived again the same way, keys are the same.
LEMMA SameAgain ==
  ASSUME NEW d, NEW e, Derivation(d), Derivation(e), d.origin = e.origin, Repeatable(d.origin)
  PROVE  d.keys = e.keys
<1>1. CASE \E network \in Networks, g \in BOOLEAN, n \in Nonces :
             /\ d.origin = Signed(network, g)
             /\ d.keys \in derive_stealth_keys(Signature(network, n))
             /\ Repeatable(d.origin) => n = 0
  <2>1. PICK network \in Networks, g \in BOOLEAN, n \in Nonces :
          /\ d.origin = Signed(network, g)
          /\ d.keys \in derive_stealth_keys(Signature(network, n))
          /\ Repeatable(d.origin) => n = 0
    BY <1>1
  <2>2. e.origin.method = "signed"
    BY <2>1 DEF Signed
  <2>3. \A seed, account : Seeded(seed, account).method = "seed"
    BY DEF Seeded
  <2>4. PICK other \in Networks, h \in BOOLEAN, m \in Nonces :
          /\ e.origin = Signed(other, h)
          /\ e.keys \in derive_stealth_keys(Signature(other, m))
          /\ Repeatable(e.origin) => m = 0
    BY <2>2, <2>3 DEF Derivation, DerivedFrom
  <2>5. other = network
    <3>1. Signed(network, g).network = network /\ Signed(other, h).network = other
      BY DEF Signed
    <3> QED
      BY <2>1, <2>4, <3>1
  <2>6. n = 0 /\ m = 0
    BY <2>1, <2>4
  <2> QED
    BY <2>1, <2>4, <2>5, <2>6, SignedKeysOf
<1>2. CASE \E seed \in Seeds, account \in Accounts :
             /\ d.origin = Seeded(seed, account)
             /\ d.keys \in derive_stealth_keys_hd(seed, account)
  <2>1. PICK seed \in Seeds, account \in Accounts :
          /\ d.origin = Seeded(seed, account)
          /\ d.keys \in derive_stealth_keys_hd(seed, account)
    BY <1>2
  <2>2. e.origin.method = "seed"
    BY <2>1 DEF Seeded
  <2>3. \A network, g : Signed(network, g).method = "signed"
    BY DEF Signed
  <2>4. PICK other \in Seeds, index \in Accounts :
          /\ e.origin = Seeded(other, index)
          /\ e.keys \in derive_stealth_keys_hd(other, index)
    BY <2>2, <2>3 DEF Derivation, DerivedFrom
  <2>5. other = seed /\ index = account
    <3>1. /\ Seeded(seed, account).seed = seed /\ Seeded(seed, account).account = account
          /\ Seeded(other, index).seed = other /\ Seeded(other, index).account = index
      BY DEF Seeded
    <3> QED
      BY <2>1, <2>4, <3>1
  <2> QED
    BY <2>1, <2>4, <2>5, SeededKeysOf
<1> QED
  BY <1>1, <1>2 DEF Derivation, DerivedFrom

LEMMA RecoverableHolds == IdentityInv => PaidIsRecoverable
<1> SUFFICES ASSUME IdentityInv, installed # NoKeys, NEW p \in paid,
                    p.origin = installed.origin, Repeatable(p.origin)
             PROVE  Recovers(installed.keys, p.label, p.payment)
  BY DEF PaidIsRecoverable
<1>1. PICK d \in derived, i \in LabelIndexes, r \in Ephemerals : PaymentTo(p, d, i, r)
  BY DEF IdentityInv, PaidInv
<1>2. Derivation(d) /\ Derivation(installed)
  BY DEF IdentityInv, WalletInv
<1>3. /\ p.origin = d.origin /\ p.label = i /\ p.payment = derive_payment(MetaOf(d.keys, i), r)
      /\ CanDerive(MetaOf(d.keys, i), r)
  BY <1>1 DEF PaymentTo
<1>4. installed.keys = d.keys
  BY <1>2, <1>3, SameAgain
<1>5. KeysTyped(d.keys)
  BY <1>2, DerivationTyped
<1> QED
  BY <1>3, <1>4, <1>5, Recover

\* Two seeds or accounts whose scan paths agree have the same account below the hardened bit.
LEMMA HardenApart ==
  ASSUME NEW a \in Accounts, NEW b \in Accounts, Path(a, 1) = Path(b, 1)
  PROVE  a % HardenedBit = b % HardenedBit
<1>1. harden(a) = harden(b)
  BY DEF Path
<1>2. HardenedBit \in Nat /\ HardenedBit > 3 /\ a \in Nat /\ b \in Nat
  BY DerivationTypes DEF DerivationTypes
<1>3. a % HardenedBit \in Int /\ b % HardenedBit \in Int
  BY <1>2
<1> QED
  BY <1>1, <1>2, <1>3 DEF harden

LEMMA ApartHolds == IdentityInv => IdentitiesApart
<1> SUFFICES ASSUME IdentityInv, NEW d \in derived, NEW e \in derived, d.keys = e.keys
             PROVE  SameIdentity(d.origin, e.origin)
  BY DEF IdentitiesApart
<1> DEFINE FromSignature(x, network, g, n) ==
             /\ x.origin = Signed(network, g)
             /\ x.keys \in derive_stealth_keys(Signature(network, n))
           FromSeed(x, seed, account) ==
             /\ x.origin = Seeded(seed, account)
             /\ x.keys \in derive_stealth_keys_hd(seed, account)
<1>1. \A x \in derived :
        \/ \E network \in Networks, g \in BOOLEAN, n \in Nonces : FromSignature(x, network, g, n)
        \/ \E seed \in Seeds, account \in Accounts : FromSeed(x, seed, account)
  BY DEF IdentityInv, WalletInv, Derivation, DerivedFrom
<1>2. ASSUME NEW x, NEW network \in Networks, NEW g \in BOOLEAN, NEW n \in Nonces,
             FromSignature(x, network, g, n)
      PROVE  /\ x.keys.scan.raw = ScanPart(WalletSign(canonical_message(network), n))
             /\ x.origin.method = "signed" /\ x.origin.network = network
  BY <1>2, SignedKeysOf DEF Signature, Signed
<1>3. ASSUME NEW x, NEW seed \in Seeds, NEW account \in Accounts, FromSeed(x, seed, account)
      PROVE  /\ x.keys.scan.raw = slip10_ed25519_node(seed, Path(account, 1))
             /\ SeedLen(seed) \in 16..64
             /\ x.origin.method = "seed" /\ x.origin.seed = seed /\ x.origin.account = account
  BY <1>3, SeededKeysOf DEF Seeded
<1> HIDE DEF FromSignature, FromSeed
<1>4. d.keys.scan.raw = e.keys.scan.raw
  OBVIOUS
<1>5. ASSUME NEW x, NEW y, x.keys.scan.raw = y.keys.scan.raw,
             NEW network \in Networks, NEW g \in BOOLEAN, NEW n \in Nonces,
             FromSignature(x, network, g, n),
             NEW seed \in Seeds, NEW account \in Accounts, FromSeed(y, seed, account)
      PROVE  FALSE
  <2>1. /\ x.keys.scan.raw = ScanPart(WalletSign(canonical_message(network), n))
        /\ x.origin.method = "signed" /\ x.origin.network = network
    BY <1>2, <1>5, Zenon
  <2>2. y.keys.scan.raw = slip10_ed25519_node(seed, Path(account, 1))
    BY <1>3, <1>5
  <2>3. ScanPart(WalletSign(canonical_message(network), n)) # slip10_ed25519_node(seed, Path(account, 1))
    BY NoCollisions DEF NoCollisions
  <2> QED
    BY <1>5, <2>1, <2>2, <2>3
<1>6. ASSUME NEW a \in Networks, NEW g \in BOOLEAN, NEW n \in Nonces, FromSignature(d, a, g, n),
             NEW b \in Networks, NEW h \in BOOLEAN, NEW m \in Nonces, FromSignature(e, b, h, m)
      PROVE  SameIdentity(d.origin, e.origin)
  <2>1. /\ d.keys.scan.raw = ScanPart(WalletSign(canonical_message(a), n))
        /\ d.origin.method = "signed" /\ d.origin.network = a
    BY <1>2, <1>6
  <2>2. /\ e.keys.scan.raw = ScanPart(WalletSign(canonical_message(b), m))
        /\ e.origin.method = "signed" /\ e.origin.network = b
    BY <1>2, <1>6
  <2>3. ScanPart(WalletSign(canonical_message(a), n)) = ScanPart(WalletSign(canonical_message(b), m))
    BY <1>4, <2>1, <2>2
  <2>4. canonical_message(a) = canonical_message(b)
    BY <2>3, NoCollisions DEF NoCollisions
  <2>5. a = b
    BY <2>4 DEF canonical_message
  <2> QED
    BY <2>1, <2>2, <2>5 DEF SameIdentity
<1>7. ASSUME NEW s \in Seeds, NEW a \in Accounts, FromSeed(d, s, a),
             NEW t \in Seeds, NEW b \in Accounts, FromSeed(e, t, b)
      PROVE  SameIdentity(d.origin, e.origin)
  <2>1. /\ d.keys.scan.raw = slip10_ed25519_node(s, Path(a, 1)) /\ SeedLen(s) \in 16..64
        /\ d.origin.method = "seed" /\ d.origin.seed = s /\ d.origin.account = a
    BY <1>3, <1>7
  <2>2. /\ e.keys.scan.raw = slip10_ed25519_node(t, Path(b, 1)) /\ SeedLen(t) \in 16..64
        /\ e.origin.method = "seed" /\ e.origin.seed = t /\ e.origin.account = b
    BY <1>3, <1>7
  <2>3. slip10_ed25519_node(s, Path(a, 1)) = slip10_ed25519_node(t, Path(b, 1))
    BY <1>4, <2>1, <2>2
  <2>4. s = t /\ Path(a, 1) = Path(b, 1)
    BY <2>1, <2>2, <2>3, NoCollisions DEF NoCollisions
  <2>5. d.origin.account % HardenedBit = e.origin.account % HardenedBit
    BY <2>1, <2>2, <2>4, HardenApart
  <2> QED
    BY <2>1, <2>2, <2>4, <2>5, Zenon DEF SameIdentity
<1> QED
  BY <1>1, <1>4, <1>5, <1>6, <1>7

LEMMA OwnReadHolds == IdentityInv => OwnStringsAreRead
<1> SUFFICES ASSUME IdentityInv, shown # NoString, shown.for # {}, NEW app \in Readers
             PROVE  Read(app, shown.text) = {shown.meta}
  BY DEF OwnStringsAreRead
<1>1. \A f \in Foreign : ForeignString(f).for = {}
  BY DEF ForeignString
<1> QED
  BY <1>1, OwnRead DEF IdentityInv, ShownInv

LEMMA WrittenHolds == IdentityInv => ReadAsWritten
<1> SUFFICES ASSUME IdentityInv, shown # NoString, NEW m \in decode_bech32m(shown.text)
             PROVE  m = shown.meta /\ shown.rest = <<>> /\ m.flags = 0
  BY DEF ReadAsWritten
<1>1. CASE \E d \in derived, i \in LabelIndexes : OwnString(shown, d, i)
  <2>1. PICK d \in derived, i \in LabelIndexes : OwnString(shown, d, i)
    BY <1>1
  <2>2. Read("rust", shown.text) = {shown.meta} /\ shown.meta = MetaOf(d.keys, i)
    BY <2>1, OwnRead DEF Readers
  <2>3. m = shown.meta
    BY <2>2 DEF Read
  <2>4. shown.rest = <<>>
    BY <2>1 DEF OwnString
  <2>5. MetaOf(d.keys, i).flags = 0
    BY DEF MetaOf
  <2> QED
    BY <2>2, <2>3, <2>4, <2>5
<1>2. CASE \E f \in Foreign : shown = ForeignString(f)
  <2>1. PICK f \in Foreign : shown = ForeignString(f)
    BY <1>2
  <2>2. ForeignString(f).meta = f.meta /\ ForeignString(f).rest = f.rest
    BY DEF ForeignString
  <2>3. "rust" \in Readers /\ m \in Read("rust", ForeignString(f).text)
    BY <2>1 DEF Readers, Read
  <2>4. m = f.meta /\ f.rest = <<>> /\ f.meta.flags = 0
    BY <2>3, ForeignRead
  <2> QED
    BY <2>1, <2>2, <2>4
<1> QED
  BY <1>1, <1>2 DEF IdentityInv, ShownInv

\* A payment depends on the two keys of what was read.
LEMMA KeysPay ==
  ASSUME NEW m, NEW n, m.b_spend = n.b_spend, m.b_scan = n.b_scan, NEW r
  PROVE  derive_payment(m, r) = derive_payment(n, r)
BY DEF derive_payment

LEMMA PaidHolds == IdentityInv => PaidAsWritten
<1> SUFFICES ASSUME IdentityInv, shown # NoString, NEW app \in Readers, NEW r \in Ephemerals,
                    NEW payment \in PaymentsTo(app, shown.text, r)
             PROVE  /\ payment = derive_payment(shown.meta, r)
                    /\ shown.meta.version = META_ADDRESS_VERSION_V1 /\ shown.meta.flags = 0
                    /\ shown.rest = <<>>
  BY DEF PaidAsWritten
<1>1. PICK m \in Read(app, shown.text) : payment = derive_payment(m, r)
  BY PaymentsFrom
<1>2. CASE \E d \in derived, i \in LabelIndexes : OwnString(shown, d, i)
  <2>1. PICK d \in derived, i \in LabelIndexes : OwnString(shown, d, i)
    BY <1>2
  <2>2. m = shown.meta /\ shown.meta = MetaOf(d.keys, i)
    BY <2>1, OwnRead
  <2>3. shown.rest = <<>>
    BY <2>1 DEF OwnString
  <2>4. MetaOf(d.keys, i).version = META_ADDRESS_VERSION_V1 /\ MetaOf(d.keys, i).flags = 0
    BY DEF MetaOf
  <2> QED
    BY <1>1, <2>2, <2>3, <2>4
<1>3. CASE \E f \in Foreign : shown = ForeignString(f)
  <2>1. PICK f \in Foreign : shown = ForeignString(f)
    BY <1>3
  <2>2. shown.meta = f.meta /\ shown.rest = f.rest
    BY <2>1 DEF ForeignString
  <2>3. /\ f.meta.version = META_ADDRESS_VERSION_V1 /\ f.meta.flags = 0 /\ f.rest = <<>>
        /\ m.b_spend = f.meta.b_spend /\ m.b_scan = f.meta.b_scan
    BY <2>1, ForeignRead
  <2> QED
    BY <1>1, <2>2, <2>3, KeysPay
<1> QED
  BY <1>2, <1>3 DEF IdentityInv, ShownInv

------------------------------------------------------------------------------
(* Theorems of the specification *)

\* Types hold throughout the life of an identity: no derivation, by an application or by
\* slnt, installs or prints keys with the zero scalar.
THEOREM IdentityTyped == Spec => []TypeOK
BY IdentityInvHolds, TypesHold, PTL

\* For every wallet, every loss of the application and every way of deriving the keys again
\* that gives an identity at all a second time, all payments to it are recovered.
THEOREM PaymentsSurviveLoss == Spec => []PaidIsRecoverable
BY IdentityInvHolds, RecoverableHolds, PTL

\* Networks, seeds and accounts are kept apart, up to the hardened bit.
THEOREM IdentitiesStayApart == Spec => []IdentitiesApart
BY IdentityInvHolds, ApartHolds, PTL

\* All that this SDK and slnt write is read as it was meant, by both SDKs and by slnt.
THEOREM OwnStringsRead == Spec => []OwnStringsAreRead
BY IdentityInvHolds, OwnReadHolds, PTL

\* No string of another maker is mistaken for something its maker did not write.
THEOREM NothingMisread == Spec => []ReadAsWritten
BY IdentityInvHolds, WrittenHolds, PTL

\* Whatever string a sender is shown, of this SDK or of another maker and in whatever form,
\* and whichever reader takes it: what is paid is what the maker wrote.
THEOREM EveryoneIsPaidAsWritten == Spec => []PaidAsWritten
BY IdentityInvHolds, PaidHolds, PTL
==============================================================================
