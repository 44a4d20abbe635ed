----------------------------- MODULE MetaAddress -----------------------------
(***************************************************************************)
(* The text of a meta-address: the codec of keys.rs and its counterpart in *)
(* keys.ts.  A text is a payload and the form it is written in.  The       *)
(* payload is a sequence of bytes in which a public key, 32 bytes in the   *)
(* code, is one element; the form says which checksum the text has, in     *)
(* which letters its prefix "slnt" and its characters are, and whether the *)
(* bits that fill up its last characters are zero.  What a decoder returns *)
(* is a set, empty for an error.  Texts whose checksum is wrong, whose     *)
(* letters are mixed or whose prefix is another word are refused by both   *)
(* libraries and both decoders, and left out.                              *)
(***************************************************************************)
EXTENDS Integers, Sequences

CONSTANTS
  GroupBase,    \* values of the payload bits of a LEB128 byte; code: 2^7
  LabelSpace    \* number of label indexes; code: 2^32

\* The code's five groups hold 35 bits: some of the fifth is to spare.
ASSUME CodecWidths ==
  /\ GroupBase \in Nat /\ GroupBase >= 2
  /\ LabelSpace \in Nat /\ LabelSpace >= 2
  /\ LabelSpace <= GroupBase * (GroupBase * (GroupBase * (GroupBase * GroupBase)))

META_ADDRESS_VERSION_V1 == 1
Labels == 0..(LabelSpace - 1)

------------------------------------------------------------------------------
(* LEB128.  A byte at or above GroupBase announces another one. *)

\* val after 0, 1, ... 4 shifts by one group.
Shifts(val) ==
  LET s1 == val \div GroupBase  s2 == s1 \div GroupBase
      s3 == s2 \div GroupBase   s4 == s3 \div GroupBase
  IN  <<val, s1, s2, s3, s4>>

\* val in n bytes.
Groups(val, n) ==
  [i \in 1..n |-> (Shifts(val)[i] % GroupBase) + (IF i < n THEN GroupBase ELSE 0)]

\* The bytes needed: the loop ends when nothing is left after a shift.
IsLength(val, n) ==
  Shifts(val)[n] < GroupBase /\ \A j \in 1..5 : j < n => Shifts(val)[j] >= GroupBase
GroupCount(val) == CHOOSE n \in 1..5 : IsLength(val, n)

write_leb128_u32(val) == Groups(val, GroupCount(val))

\* Faulty: four bytes at most.
EndsEarly(data) ==
  {n \in 1..4 : /\ n <= Len(data) /\ data[n] < GroupBase
                /\ \A j \in 1..4 : j < n => data[j] >= GroupBase}

\* Where reading ends: the first byte, of five, that announces no other.
Ends(data) ==
  {n \in 1..5 : /\ n <= Len(data) /\ data[n] < GroupBase
                /\ \A j \in 1..5 : j < n => data[j] >= GroupBase}

\* The groups of the first n bytes, put together.
Value(data, n) ==
  LET g(i) == IF i <= n THEN data[i] % GroupBase ELSE 0
  IN  g(1) + GroupBase * (g(2) + GroupBase * (g(3) + GroupBase * (g(4) + GroupBase * g(5))))

\* Faulty: in 32 bits, and whatever comes out is taken.
ReadUnchecked(data) ==
  {[value |-> Value(data, n) % LabelSpace, consumed |-> n] : n \in Ends(data)}

\* keys.rs: in 64 bits, and an error if the value does not fit into 32.
read_leb128_u32(data) ==
  {[value |-> Value(data, n), consumed |-> n] :
     n \in {m \in Ends(data) : Value(data, m) \in Labels}}

\* keys.ts: in 32 bits; what does not fit is shifted out.
leb128Decode(data) ==
  {[value |-> Value(data, n) % LabelSpace, consumed |-> n] : n \in Ends(data)}

------------------------------------------------------------------------------
(* Payload *)

write_payload(m) ==
  <<m.version, m.b_spend, m.b_scan>> \o write_leb128_u32(m.label_index) \o <<m.flags>>

\* What both decoders make of a payload once its label is read.
Fields(data, label) ==
  [version |-> data[1], b_spend |-> data[2], b_scan |-> data[3],
   label_index |-> label.value, flags |-> data[Len(data)]]

\* Faulty: what follows the flags is not looked at.
WellFormedPrefix(data, label) ==
  Len(data) >= 3 + label.consumed + 1 /\ data[3 + label.consumed + 1] = 0

WellFormed(data, label) == Len(data) = 3 + label.consumed + 1 /\ data[Len(data)] = 0

read_payload(data) ==
  IF Len(data) < 5 \/ data[1] # META_ADDRESS_VERSION_V1 THEN {}
  ELSE {Fields(data, label) :
          label \in {l \in read_leb128_u32(SubSeq(data, 4, Len(data))) : WellFormed(data, l)}}

readPayload(data) ==
  IF Len(data) < 5 \/ data[1] # META_ADDRESS_VERSION_V1 THEN {}
  ELSE {Fields(data, label) :
          label \in {l \in leb128Decode(SubSeq(data, 4, Len(data))) : WellFormed(data, l)}}

------------------------------------------------------------------------------
(* Text *)

Forms == [checksum : {"bech32m", "bech32"}, letters : {"lower", "upper"}, padding : {"zero", "other"}]

\* How both SDKs write.
Canonical == [checksum |-> "bech32m", letters |-> "lower", padding |-> "zero"]

encode_bech32m(m) == [form |-> Canonical, payload |-> write_payload(m)]

\* keys.rs: bech32::decode takes either checksum and drops the bits that fill up; the
\* prefix is compared in lower case.
decode_bech32m(s) == {m \in read_payload(s.payload) : s.form.letters = "lower"}

\* keys.ts: bech32m.decode knows one checksum and lowers the letters; fromWords wants the
\* bits that fill up to be zero.
decodeMetaAddress(s) ==
  {m \in readPayload(s.payload) : s.form.checksum = "bech32m" /\ s.form.padding = "zero"}
==============================================================================
