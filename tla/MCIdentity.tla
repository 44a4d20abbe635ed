----------------------------- MODULE MCIdentity ------------------------------
(***************************************************************************)
(* An instance of Identity for TLC: derivation paths and                   *)
(* signatures as numbers that do not collide on the few inputs there are.  *)
(***************************************************************************)
EXTENDS Identity, MCGroups

CONSTANTS phrase, short

TheTimesScalar(a, b) == (a * b) % 11
TimesTable == [a \in TheScalars, p \in ThePoints |-> Power[<<p, a, 23>>]]
TheTimesPoint(a, p) == TimesTable[a, p]

\* Signatures 0..5: two networks, three nonces.  Signature 2 gives the zero scalar.
TheNetworks == {"Mainnet", "Devnet"}
TheWalletSign(message, n) == (IF message.network = "Mainnet" THEN 0 ELSE 1) + 2 * n
TheSpendPart(signature) == 22 + ((signature + 9) % 11)
TheScanPart(signature) == signature + 1

\* A node is the path to it, four digits of base 8 after the seed.
TheSeeds == {phrase, short}
TheSeedLen(seed) == IF seed = short THEN 12 ELSE 32
TheAccounts == {0, 1, 5}
TheMasterNode(seed) == IF seed = short THEN 2 ELSE 1
TheChildNode(node, index) == 8 * node + index
TheNodeKey(node) == 9 + (node % 2) + 2 * ((node \div 8) % 2)
TheReduce(raw) == raw % 11
TheNonceHash(scalar, message) == (3 * scalar + 5 * message + 2) % 11
TheChallengeHash(point, address, message) == (point + 4 * address + message) % 11

TheLabels == {0, 3, 4, 511}

\* Metas of other makers: labels about the width, lengths up to five bytes, and what a
\* later version may bring.
ForeignMetas ==
  [version : {1, 2}, b_spend : {2}, b_scan : {2}, label_index : {0, 3, 4, 511, 512, 1023}, flags : {0, 1}]
ForeignPayloads ==
  {f \in [meta : ForeignMetas, length : 1..5, rest : {<<>>, <<0>>}, form : {Canonical}] :
     GroupCount(f.meta.label_index) <= f.length}

\* Each form of text, with a label that fits, in no more bytes than it needs, and one that
\* does not.
ForeignForms ==
  {f \in [meta : ForeignMetas, length : {1, 5}, rest : {<<>>}, form : Forms] :
     /\ f.meta.version = 1 /\ f.meta.flags = 0
     /\ <<f.meta.label_index, f.length>> \in {<<3, 1>>, <<512, 5>>}}

ForeignStrings == ForeignPayloads \cup ForeignForms
==============================================================================
