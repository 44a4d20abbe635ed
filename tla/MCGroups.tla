------------------------------ MODULE MCGroups -------------------------------
(***************************************************************************)
(* Groups small enough for TLC.  The Ed25519 group is the group of order   *)
(* 11 in the integers modulo 23, X25519 the integers modulo 29, hashes are *)
(* polynomials without meaning.                                            *)
(***************************************************************************)
EXTENDS Integers

Power[n \in Nat \X Nat \X Nat] ==
  IF n[2] = 0 THEN 1 ELSE (n[1] * Power[<<n[1], n[2] - 1, n[3]>>]) % n[3]

TheScalars == 0..10
TheSecrets == 1..13
ThePlus(a, b) == (a + b) % 11
BaseTimesTable == [a \in TheScalars |-> Power[<<2, a, 23>>]]
TheBaseTimes(a) == BaseTimesTable[a]
ThePlusPoint(a, b) == (a * b) % 23
ThePoints == {TheBaseTimes(a) : a \in TheScalars}
PointsButIdentity == ThePoints \ {1}
PublicKeyTable == [a \in TheSecrets |-> Power[<<2, a, 29>>]]
ThePublicKey(a) == PublicKeyTable[a]
SharedTable == [a \in TheSecrets, b \in 1..28 |-> Power[<<b, a, 29>>]]
TheSharedSecret(a, b) == SharedTable[a, b]
TheViewTag(shared) == shared % 2
TheTweak(shared, tag) == (7 * shared + 3 * tag + 1) % 11
TheLabelTweak(secret, i) == (5 * secret + 3 * i * i) % 11
==============================================================================
