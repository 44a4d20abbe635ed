----------------------------- MODULE StealthKeys -----------------------------
(***************************************************************************)
(* The derivation of one-time addresses, by its algebra: keys.rs,          *)
(* sender.rs and recipient.rs of slnt-sdk.  Spend keys live in the Ed25519 *)
(* group, scan and ephemeral keys in X25519; hashes are functions of which *)
(* nothing is known.                                                       *)
(***************************************************************************)
EXTENDS Integers, FiniteSets

CONSTANTS
  Scalars, Points,        \* of the Ed25519 group; a point is also an address
  Secrets,                \* X25519 secrets
  LabelIndexes,           \* label indexes, 0 among them
  Plus(_, _),             \* sum of two scalars, modulo the group order
  PlusPoint(_, _),        \* sum of two points
  BaseTimes(_),           \* scalar times the base point
  PublicKey(_),           \* X25519 public key of a secret
  diffie_hellman(_, _),   \* X25519 shared secret of a secret and a public key
  ZeroShared,             \* the shared secret that is all zero bytes
  SpendablePoints,        \* points of prime order
  compute_view_tag(_),    \* one byte of a hash of the shared secret
  compute_tweak(_, _),    \* a scalar hashed from shared secret and view tag
  label_tweak_scalar(_, _) \* a scalar hashed from scan secret and label index

ASSUME StealthGroups ==
  /\ \A a, b \in Scalars :
       /\ Plus(a, b) \in Scalars /\ BaseTimes(a) \in Points
       /\ BaseTimes(Plus(a, b)) = PlusPoint(BaseTimes(a), BaseTimes(b))
  /\ \A a, b \in Secrets : diffie_hellman(a, PublicKey(b)) = diffie_hellman(b, PublicKey(a))
  /\ \A a, b \in Secrets :
       LET shared == diffie_hellman(a, PublicKey(b))
       IN  compute_tweak(shared, compute_view_tag(shared)) \in Scalars
  /\ LabelIndexes \subseteq Nat
  /\ \A a \in Secrets, i \in LabelIndexes : label_tweak_scalar(a, i) \in Scalars

------------------------------------------------------------------------------
(* Recipient's keys *)

SpendKey(scalar) == [scalar |-> scalar, point |-> BaseTimes(scalar)]
ScanKey(secret) == [raw |-> secret, public |-> PublicKey(secret)]

\* Label 0 is the unlabeled address.
for_label(spend, scan, i) ==
  [b_spend |-> IF i = 0 THEN spend.point
                        ELSE PlusPoint(spend.point, BaseTimes(label_tweak_scalar(scan.raw, i))),
   b_scan |-> scan.public]

------------------------------------------------------------------------------
(* Sender *)

\* derive_payment returns an error otherwise.
CanDerive(meta, r) ==
  meta.b_spend \in SpendablePoints /\ diffie_hellman(r, meta.b_scan) # ZeroShared

derive_payment(meta, r) ==
  LET shared == diffie_hellman(r, meta.b_scan)
      view_tag == compute_view_tag(shared)
  IN  [stealth_address |-> PlusPoint(meta.b_spend, BaseTimes(compute_tweak(shared, view_tag))),
       ephemeral_pub |-> PublicKey(r), view_tag |-> view_tag]

------------------------------------------------------------------------------
(* Recipient *)

\* Faulty: the tweak of the label is left out of the scalar.
CandidateUntweaked(spend, scan, shared, view_tag, i) ==
  LET scalar == Plus(spend.scalar, compute_tweak(shared, view_tag))
  IN  [stealth_address |-> BaseTimes(scalar), stealth_scalar |-> scalar, label_index |-> i]

\* A NoteMatch under label i.
Candidate(spend, scan, shared, view_tag, i) ==
  LET labelled == IF i = 0 THEN spend.scalar
                           ELSE Plus(spend.scalar, label_tweak_scalar(scan.raw, i))
      scalar == Plus(labelled, compute_tweak(shared, view_tag))
  IN  [stealth_address |-> BaseTimes(scalar), stealth_scalar |-> scalar, label_index |-> i]

view_tag_matches(scan, ephemeral_pub, view_tag) ==
  LET shared == diffie_hellman(scan.raw, ephemeral_pub)
  IN  shared # ZeroShared /\ compute_view_tag(shared) = view_tag

\* scan_note adds points where scan_note_candidates adds scalars first.
scan_note(spend, scan, ephemeral_pub, view_tag) ==
  LET tweak == compute_tweak(diffie_hellman(scan.raw, ephemeral_pub), view_tag)
  IN  {[stealth_address |-> PlusPoint(spend.point, BaseTimes(tweak)),
        stealth_scalar |-> Plus(spend.scalar, tweak), label_index |-> 0] :
         x \in IF view_tag_matches(scan, ephemeral_pub, view_tag) THEN {0} ELSE {}}

scan_note_candidates(spend, scan, ephemeral_pub, view_tag, known_labels) ==
  {Candidate(spend, scan, diffie_hellman(scan.raw, ephemeral_pub), view_tag, i) :
     i \in IF view_tag_matches(scan, ephemeral_pub, view_tag) THEN {0} \cup known_labels ELSE {}}
==============================================================================
