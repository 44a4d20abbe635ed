---------------------------- MODULE KeyDerivation ----------------------------
(***************************************************************************)
(* Where a recipient's keys come from, and signing with a derived key:     *)
(* keys.rs and stealth_signing.rs of slnt-sdk.  Hashes are functions of    *)
(* which only injectivity is assumed, and only where identities depend on  *)
(* it.  A derivation returns a set, empty for an error.                    *)
(***************************************************************************)
EXTENDS StealthKeys

CONSTANTS
  Networks,               \* labels of Network
  Seeds, SeedLen(_),      \* BIP-39 seeds and their lengths in bytes
  Accounts, HardenedBit,  \* account indexes, u32; code: 2^31
  Nonces,                 \* what a randomized wallet draws for a signature, 0 among them
  WalletSign(_, _),       \* a wallet's signature of a message, with a nonce
  SpendPart(_), ScanPart(_),       \* the two halves of HKDF of a signature
  MasterNode(_), ChildNode(_, _),  \* SLIP-0010
  NodeKey(_),             \* the 32 bytes of a node
  from_bytes_mod_order(_),\* 32 bytes to a scalar
  TimesScalar(_, _),      \* product of two scalars, modulo the group order
  TimesPoint(_, _),       \* scalar times a point
  Messages,               \* what is signed with a derived key
  NonceHash(_, _),        \* scalar hashed from a signing key and a message
  ChallengeHash(_, _, _)  \* scalar hashed from a point, an address and a message

SLNT_HD_PURPOSE == 3      \* code: 0x534C4E54, below HardenedBit
SOLANA_COIN_TYPE == 2     \* code: 501

------------------------------------------------------------------------------
(* Method 2: a signed message *)

\* Faulty: one message for all networks.
CanonicalMessageFixed(network) == [text |-> "Derive Stealth Keys", network |-> "Localnet"]

canonical_message(network) == [text |-> "Derive Stealth Keys", network |-> network]

keys_from_secrets(b_spend_raw, b_scan_raw) ==
  {[spend |-> SpendKey(b_spend), scan |-> ScanKey(b_scan_raw)] :
     b_spend \in {from_bytes_mod_order(b_spend_raw)} \ {0}}

derive_stealth_keys(signature) == keys_from_secrets(SpendPart(signature), ScanPart(signature))

\* Faulty: the second signature is not looked at.
DeriveUnchecked(signature, confirmation) == derive_stealth_keys(signature)

derive_stealth_keys_checked(signature, confirmation) ==
  IF signature # confirmation THEN {} ELSE derive_stealth_keys(signature)

------------------------------------------------------------------------------
(* Method 1: a seed.  All paths have four levels. *)

\* The top bit is set, not added.
harden(index) == HardenedBit + (index % HardenedBit)

slip10_ed25519_node(seed, path) ==
  NodeKey(ChildNode(ChildNode(ChildNode(ChildNode(MasterNode(seed),
    path[1]), path[2]), path[3]), path[4]))

Path(account, selector) ==
  <<harden(SLNT_HD_PURPOSE), harden(SOLANA_COIN_TYPE), harden(account), harden(selector)>>

derive_stealth_keys_hd(seed, account) ==
  IF SeedLen(seed) < 16 \/ SeedLen(seed) > 64 THEN {}
  ELSE keys_from_secrets(slip10_ed25519_node(seed, Path(account, 0)),
                         slip10_ed25519_node(seed, Path(account, 1)))

------------------------------------------------------------------------------
(* Delegated scanning, and signing for a stealth address *)

\* What a delegated scanner rebuilds from the raw bytes it is given.
from_raw(raw) == ScanKey(raw)

StealthSigningKey(scalar) == [scalar |-> scalar, public_point |-> BaseTimes(scalar)]

\* Faulty: the challenge leaves out the address.
SignWithoutAddress(key, message) ==
  LET r == NonceHash(key.scalar, message)
      k == ChallengeHash(BaseTimes(r), BaseTimes(r), message)
  IN  [R |-> BaseTimes(r), s |-> Plus(r, TimesScalar(k, key.scalar))]

sign(key, message) ==
  LET r == NonceHash(key.scalar, message)
      k == ChallengeHash(BaseTimes(r), key.public_point, message)
  IN  [R |-> BaseTimes(r), s |-> Plus(r, TimesScalar(k, key.scalar))]

\* The cluster's check of a signature: s G = R + k A.
Verifies(address, message, signature) ==
  BaseTimes(signature.s) =
    PlusPoint(signature.R,
              TimesPoint(ChallengeHash(signature.R, address, message), address))
------------------------------------------------------------------------------
ASSUME DerivationTypes ==
  /\ HardenedBit \in Nat /\ HardenedBit > 3 /\ Accounts \subseteq Nat
  /\ 0 \in Scalars /\ 0 \in Nonces
  /\ \A network \in Networks, n \in Nonces :
       LET signature == WalletSign(canonical_message(network), n)
       IN  /\ ScanPart(signature) \in Secrets
           /\ from_bytes_mod_order(SpendPart(signature)) \in Scalars
  /\ \A seed \in Seeds : SeedLen(seed) \in Nat
  /\ \A seed \in Seeds, account \in Accounts :
       /\ from_bytes_mod_order(slip10_ed25519_node(seed, Path(account, 0))) \in Scalars
       /\ slip10_ed25519_node(seed, Path(account, 1)) \in Secrets

\* The rest of the Ed25519 group's algebra, which signatures rely on.
ASSUME SigningGroup ==
  /\ \A a, b \in Scalars :
       /\ TimesScalar(a, b) \in Scalars
       /\ BaseTimes(TimesScalar(a, b)) = TimesPoint(a, BaseTimes(b))
  /\ \A a \in Scalars, m \in Messages : NonceHash(a, m) \in Scalars
  /\ \A R, A \in Points, m \in Messages : ChallengeHash(R, A, m) \in Scalars
==============================================================================
