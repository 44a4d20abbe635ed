------------------------------- MODULE Identity -------------------------------
(***************************************************************************)
(* The life of a stealth identity.  A recipient derives keys by one of the *)
(* SDK's methods, hands out meta-addresses as strings, is paid by senders  *)
(* that read them with either SDK, loses the application and derives the   *)
(* keys again.  Nothing of this is stored anywhere: what is not derived    *)
(* alike twice is lost.  The command-line tool keeps not even keys: each   *)
(* of its runs derives them again and prints a string, or what a sender    *)
(* needs for a payment.                                                    *)
(***************************************************************************)
EXTENDS Cli, FiniteSets

CONSTANTS
  Foreign,         \* strings of other makers' encoders, see ForeignString
  Ephemerals,      \* ephemeral secrets senders draw
  NoKeys, NoString,
  MaxDerivations, MaxPaid  \* bounds

ASSUME IdentityConstants ==
  /\ LabelIndexes \subseteq Labels /\ 0 \in LabelIndexes
  /\ Ephemerals \subseteq Secrets
  /\ \A f \in Foreign :
       /\ f.meta = [version |-> f.meta.version, b_spend |-> f.meta.b_spend, b_scan |-> f.meta.b_scan,
                    label_index |-> f.meta.label_index, flags |-> f.meta.flags]
       /\ f.meta.label_index \in Nat /\ f.length \in 1..5
       /\ Shifts(f.meta.label_index)[f.length] < GroupBase
       /\ f.rest \in Seq(Nat) /\ f.form \in Forms

\* What a randomized wallet draws shows in its signature.
ASSUME NoncesShow ==
  \A network \in Networks, n, m \in Nonces :
    WalletSign(canonical_message(network), n) = WalletSign(canonical_message(network), m) => n = m

\* HKDF and SLIP-0010 do not collide.
ASSUME NoCollisions ==
  /\ \A a, b \in Networks, n, m \in Nonces :
       ScanPart(WalletSign(canonical_message(a), n)) = ScanPart(WalletSign(canonical_message(b), m))
         => canonical_message(a) = canonical_message(b)
  /\ \A s, t \in {seed \in Seeds : SeedLen(seed) \in 16..64}, a, b \in Accounts :
       slip10_ed25519_node(s, Path(a, 1)) = slip10_ed25519_node(t, Path(b, 1))
         => s = t /\ Path(a, 1) = Path(b, 1)
  /\ \A network \in Networks, n \in Nonces, seed \in Seeds, account \in Accounts :
       ScanPart(WalletSign(canonical_message(network), n)) # slip10_ed25519_node(seed, Path(account, 1))

VARIABLES
  wallet,    \* "deterministic" or "randomized": how it signs
  nonces,    \* what it has drawn for its signatures
  installed, \* keys in the recipient's application, and what they were derived from
  derived,   \* history: all that was ever installed, or derived by the tool
  shown,     \* the string a sender is about to read
  paid       \* payments, with the identity they were meant for

vars == <<wallet, nonces, installed, derived, shown, paid>>

------------------------------------------------------------------------------
(* The recipient derives keys *)

Signature(network, n) == WalletSign(canonical_message(network), n)

\* The nonces a wallet may sign with next; a randomized one never repeats itself.
Fresh(drawn) == IF wallet = "deterministic" THEN {0} ELSE Nonces \ drawn

Signed(network, guarded) == [method |-> "signed", network |-> network, guarded |-> guarded]
Seeded(seed, account) == [method |-> "seed", seed |-> seed, account |-> account]

\* The derivation gave keys; after an error nothing is installed.
Install(origin, result) ==
  /\ installed = NoKeys
  /\ \E k \in result : installed' = [origin |-> origin, keys |-> k]
  /\ derived' = derived \cup {installed'}
  /\ Cardinality(derived') <= MaxDerivations
  /\ UNCHANGED <<wallet, shown, paid>>

\* derive_stealth_keys: one signature.
Derive(network) ==
  \E n \in Fresh(nonces) :
    /\ Install(Signed(network, FALSE), derive_stealth_keys(Signature(network, n)))
    /\ nonces' = nonces \cup {n}

DeriveChecked(network) ==
  \E n \in Fresh(nonces) : \E m \in Fresh(nonces \cup {n}) :
    /\ Install(Signed(network, TRUE),
               derive_stealth_keys_checked(Signature(network, n), Signature(network, m)))
    /\ nonces' = nonces \cup {n, m}

DeriveHd(seed, account) ==
  /\ Install(Seeded(seed, account), derive_stealth_keys_hd(seed, account))
  /\ UNCHANGED nonces

\* The application is removed.
Forget ==
  /\ installed # NoKeys
  /\ installed' = NoKeys
  /\ UNCHANGED <<wallet, nonces, derived, shown, paid>>

------------------------------------------------------------------------------
(* A meta-address goes from hand to hand as a string *)

\* A string made of keys k for label i.
Show(origin, k, i, text) ==
  shown' = [text |-> text, meta |-> MetaOf(k, i), rest |-> <<>>, for |-> {[origin |-> origin, label |-> i]}]

\* The application encodes a meta-address.
HandOut(i) ==
  /\ installed # NoKeys
  /\ Show(installed.origin, installed.keys, i, encode_bech32m(MetaOf(installed.keys, i)))
  /\ UNCHANGED <<wallet, nonces, installed, derived, paid>>

\* What slnt prints, and the keys it derived for it, seen from outside.
Printed(origin, k, i, command) ==
  /\ \E text \in dispatch(command) : Show(origin, k, i, text)
  /\ derived' = derived \cup {[origin |-> origin, keys |-> k]}
  /\ Cardinality(derived') <= MaxDerivations
  /\ UNCHANGED <<wallet, installed, paid>>

Hex(bytes, length) == [bytes |-> bytes, length |-> length]

\* slnt canonical-message; the wallet signs what it printed; slnt derive or slnt label.
PrintSigned(name, network, i) ==
  \E message \in dispatch([name |-> "canonical-message", network |-> name]), n \in Fresh(nonces) :
    LET signature == WalletSign(message, n)
    IN  /\ <<name, network>> \in NetworkNames
        /\ \E k \in derive_stealth_keys(signature) :
             \/ Printed(Signed(network, FALSE), k, i,
                         [name |-> "label", signature |-> Hex(signature, 64), index |-> i])
             \/ /\ i = 0
                /\ Printed(Signed(network, FALSE), k, 0,
                           [name |-> "derive", signature |-> Hex(signature, 64)])
        /\ nonces' = nonces \cup {n}

\* slnt derive-hd.
PrintSeeded(seed, account) ==
  /\ \E k \in derive_stealth_keys_hd(seed, account) :
       Printed(Seeded(seed, account), k, 0,
               [name |-> "derive-hd", seed |-> seed, account |-> account])
  /\ UNCHANGED nonces

\* A string of another maker's encoder: the same layout, but perhaps a label of more
\* than 32 bits, a label in more bytes than it needs, a later version, more fields, or
\* another form of text.
ForeignString(f) ==
  [text |-> [form |-> f.form,
             payload |-> <<f.meta.version, f.meta.b_spend, f.meta.b_scan>>
                           \o Groups(f.meta.label_index, f.length) \o <<f.meta.flags>> \o f.rest],
   meta |-> f.meta, rest |-> f.rest, for |-> {}]

Receive(f) ==
  /\ shown' = ForeignString(f)
  /\ UNCHANGED <<wallet, nonces, installed, derived, paid>>

\* What a sender's application reads in a string.
Readers == {"rust", "typescript", "cli"}
Read(app, text) ==
  CASE app = "rust" -> decode_bech32m(text)
    [] app = "typescript" -> decodeMetaAddress(text)
    [] app = "cli" -> dispatch([name |-> "meta-decode", meta |-> text])

\* A sender, with an application or with slnt pay.
PaymentsTo(app, text, r) ==
  IF app = "cli" THEN dispatch([name |-> "pay", meta |-> text, rng |-> Hex(r, 32)])
  ELSE {derive_payment(m, r) : m \in {x \in Read(app, text) : CanDerive(x, r)}}

Pay(app, r) ==
  /\ shown # NoString
  /\ Cardinality(paid) < MaxPaid
  /\ \E payment \in PaymentsTo(app, shown.text, r), to \in shown.for :
       paid' = paid \cup {[origin |-> to.origin, label |-> to.label, payment |-> payment]}
  /\ UNCHANGED <<wallet, nonces, installed, derived, shown>>

------------------------------------------------------------------------------
Names == {"mainnet", "mainnet-beta", "devnet", "testnet", "localnet"}

Init ==
  /\ wallet \in {"deterministic", "randomized"} /\ nonces = {}
  /\ installed = NoKeys /\ derived = {} /\ shown = NoString /\ paid = {}

Next ==
  \/ \E network \in Networks : Derive(network) \/ DeriveChecked(network)
  \/ \E seed \in Seeds, account \in Accounts : DeriveHd(seed, account)
  \/ Forget
  \/ \E i \in LabelIndexes : HandOut(i)
  \/ \E name \in Names, network \in Networks, i \in LabelIndexes : PrintSigned(name, network, i)
  \/ \E seed \in Seeds, account \in Accounts : PrintSeeded(seed, account)
  \/ \E f \in Foreign : Receive(f)
  \/ \E app \in Readers, r \in Ephemerals : Pay(app, r)

Spec == Init /\ [][Next]_vars

------------------------------------------------------------------------------
(* Properties *)

Origins == {Signed(n, g) : n \in Networks, g \in BOOLEAN}
             \cup {Seeded(s, a) : s \in Seeds, a \in Accounts}
KeyPairs == [spend : {SpendKey(s) : s \in Scalars \ {0}}, scan : {ScanKey(s) : s \in Secrets}]

\* Types; what is installed was derived, and no spend key is the identity.
TypeOK ==
  /\ wallet \in {"deterministic", "randomized"} /\ nonces \subseteq Nonces
  /\ derived \subseteq [origin : Origins, keys : KeyPairs]
  /\ installed \in derived \cup {NoKeys}
  /\ shown # NoString => DOMAIN shown = {"text", "meta", "rest", "for"}
  /\ \A p \in paid : p.origin \in Origins /\ p.label \in LabelIndexes

\* A derivation whose keys can be had again: derive_stealth_keys alone does not look
\* whether the wallet signs deterministically.
Repeatable(origin) ==
  origin.method = "seed" \/ wallet = "deterministic" \/ origin.guarded

\* The delegated scanner forwards the note, the recipient recognises the address under
\* the label, and its signatures for the address verify.
Recovers(k, label, payment) ==
  /\ view_tag_matches(from_raw(k.scan.raw), payment.ephemeral_pub, payment.view_tag)
  /\ \E c \in scan_note_candidates(k.spend, k.scan, payment.ephemeral_pub, payment.view_tag, {label}) :
       /\ c.stealth_address = payment.stealth_address
       /\ \A m \in Messages :
            Verifies(c.stealth_address, m, sign(StealthSigningKey(c.stealth_scalar), m))

\* Whoever derives keys again the same way recovers and can spend every payment ever made
\* to a string of that identity, whichever SDK the sender read the string with.
PaidIsRecoverable ==
  installed # NoKeys =>
    \A p \in paid : p.origin = installed.origin /\ Repeatable(p.origin) =>
      Recovers(installed.keys, p.label, p.payment)

SameIdentity(a, b) ==
  \/ a.method = "signed" /\ b.method = "signed" /\ a.network = b.network
  \/ /\ a.method = "seed" /\ b.method = "seed" /\ a.seed = b.seed
     /\ a.account % HardenedBit = b.account % HardenedBit

\* Keys of one network or account are never those of another: two derivations agree only
\* for the same network, or the same seed and accounts equal up to the hardened bit,
\* which harden sets and the API accepts already set.
IdentitiesApart ==
  \A d, e \in derived : d.keys = e.keys => SameIdentity(d.origin, e.origin)

\* Both SDKs read a string of this SDK as the meta-address it was made from: the codec's
\* round trip, for every label index.
OwnStringsAreRead ==
  shown # NoString /\ shown.for # {} =>
    \A app \in Readers : Read(app, shown.text) = {shown.meta}

\* decode_bech32m never takes a string for another meta-address than its maker wrote: a
\* later version, unknown flags, more fields or a wider label are refused.
ReadAsWritten ==
  shown # NoString =>
    \A m \in decode_bech32m(shown.text) : m = shown.meta /\ shown.rest = <<>> /\ m.flags = 0

\* A sender that pays to a string, of whatever maker and in whatever form, with whichever
\* reader takes it, pays what the maker wrote and nothing else: version 1, no flags, no
\* fields the reader does not know, and the address derived from the keys written there.
\* This holds although the readers do not take the same strings, and although keys.ts has a
\* label of more than 32 bits wrong, which keys.rs refuses: a payment does not depend on it.
PaidAsWritten ==
  shown # NoString =>
    \A app \in Readers, r \in Ephemerals : \A payment \in PaymentsTo(app, shown.text, r) :
      /\ payment = derive_payment(shown.meta, r)
      /\ shown.meta.version = META_ADDRESS_VERSION_V1 /\ shown.meta.flags = 0 /\ shown.rest = <<>>
===============================================================================
