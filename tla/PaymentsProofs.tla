--------------------------- MODULE PaymentsProofs ----------------------------
(***************************************************************************)
(* Theorems about StealthKeys and Payments, for every value of their       *)
(* constants: every pair of groups, hash functions, wallets and amounts.   *)
(***************************************************************************)
EXTENDS Payments, FiniteSetTheorems, SequenceTheorems, WellFoundedInduction, TLAPS

------------------------------------------------------------------------------
(* Keys and addresses *)

\* Both sides arrive at the same shared secret and tweak.
LEMMA TweaksAgree ==
  ASSUME NEW b \in Secrets, NEW r \in Secrets
  PROVE  LET sent == diffie_hellman(r, PublicKey(b))
         IN  /\ diffie_hellman(b, PublicKey(r)) = sent
             /\ compute_tweak(sent, compute_view_tag(sent)) \in Scalars
  BY StealthGroups

\* Whatever meta-address of a recipient a sender uses, labelled or not, the
\* recipient's scan for that label turns up the very address the sender derived,
\* with a scalar that signs for it: derive_payment and scan_note_candidates fit.
THEOREM AddressesAgree ==
  ASSUME NEW s \in Scalars, NEW b \in Secrets, NEW r \in Secrets,
         NEW labels \in SUBSET LabelIndexes, NEW i \in labels \cup {0},
         CanDerive(for_label(SpendKey(s), ScanKey(b), i), r)
  PROVE  LET payment == derive_payment(for_label(SpendKey(s), ScanKey(b), i), r)
         IN  \E c \in scan_note_candidates(SpendKey(s), ScanKey(b), payment.ephemeral_pub,
                                           payment.view_tag, labels) :
               /\ c.label_index = i
               /\ c.stealth_address = payment.stealth_address
               /\ BaseTimes(c.stealth_scalar) = payment.stealth_address
<1> DEFINE meta == for_label(SpendKey(s), ScanKey(b), i)
           payment == derive_payment(meta, r)
           shared == diffie_hellman(r, PublicKey(b))
           view_tag == compute_view_tag(shared)
           tweak == compute_tweak(shared, view_tag)
           labelled == IF i = 0 THEN s ELSE Plus(s, label_tweak_scalar(b, i))
           c == Candidate(SpendKey(s), ScanKey(b), shared, view_tag, i)
<1>1. diffie_hellman(b, PublicKey(r)) = shared /\ tweak \in Scalars
  BY TweaksAgree
<1>2. /\ meta.b_scan = PublicKey(b)
      /\ meta.b_spend = IF i = 0 THEN BaseTimes(s)
                        ELSE PlusPoint(BaseTimes(s), BaseTimes(label_tweak_scalar(b, i)))
  BY DEF for_label, SpendKey, ScanKey
<1>3. shared # ZeroShared
  BY <1>2 DEF CanDerive
<1>4. /\ payment.ephemeral_pub = PublicKey(r) /\ payment.view_tag = view_tag
      /\ payment.stealth_address = PlusPoint(meta.b_spend, BaseTimes(tweak))
  BY <1>2 DEF derive_payment
<1>5. labelled \in Scalars /\ BaseTimes(labelled) = meta.b_spend
  <2>1. CASE i = 0
    BY <2>1, <1>2
  <2>2. CASE i # 0
    <3>1. i \in LabelIndexes /\ label_tweak_scalar(b, i) \in Scalars
      BY <2>2, StealthGroups
    <3> QED
      BY <2>2, <3>1, <1>2, StealthGroups
  <2> QED
    BY <2>1, <2>2
<1>6. BaseTimes(Plus(labelled, tweak)) = payment.stealth_address
  BY <1>1, <1>4, <1>5, StealthGroups
<1>7. /\ c.stealth_scalar = Plus(labelled, tweak) /\ c.label_index = i
      /\ c.stealth_address = BaseTimes(Plus(labelled, tweak))
  BY DEF Candidate, SpendKey, ScanKey
<1>8. view_tag_matches(ScanKey(b), PublicKey(r), view_tag)
  BY <1>1, <1>3 DEF view_tag_matches, ScanKey
<1>9. c \in scan_note_candidates(SpendKey(s), ScanKey(b), PublicKey(r), view_tag, labels)
  BY <1>1, <1>8 DEF scan_note_candidates, ScanKey
<1> QED
  BY <1>4, <1>6, <1>7, <1>9

\* scan_note, which adds points, returns nothing or the unlabelled candidate of
\* scan_note_candidates, which adds scalars.
THEOREM ScanNoteIsUnlabelled ==
  ASSUME NEW s \in Scalars, NEW b \in Secrets, NEW r \in Secrets, NEW view_tag,
         NEW labels \in SUBSET LabelIndexes
  PROVE  scan_note(SpendKey(s), ScanKey(b), PublicKey(r), view_tag) =
         {c \in scan_note_candidates(SpendKey(s), ScanKey(b), PublicKey(r), view_tag, labels) :
            c.label_index = 0}
<1> DEFINE spend == SpendKey(s)
           scan == ScanKey(b)
           shared == diffie_hellman(b, PublicKey(r))
           tweak == compute_tweak(shared, view_tag)
           found == view_tag_matches(scan, PublicKey(r), view_tag)
           c0 == Candidate(spend, scan, shared, view_tag, 0)
<1>1. /\ c0.label_index = 0
      /\ \A i \in labels : Candidate(spend, scan, shared, view_tag, i).label_index = i
  BY DEF Candidate
<1>2. scan_note_candidates(spend, scan, PublicKey(r), view_tag, labels) =
        {Candidate(spend, scan, shared, view_tag, i) : i \in IF found THEN {0} \cup labels ELSE {}}
  BY DEF scan_note_candidates, ScanKey
<1>3. {c \in scan_note_candidates(spend, scan, PublicKey(r), view_tag, labels) :
         c.label_index = 0} = IF found THEN {c0} ELSE {}
  BY <1>1, <1>2
<1>4. found => /\ shared = diffie_hellman(r, PublicKey(b)) /\ tweak \in Scalars
               /\ BaseTimes(Plus(s, tweak)) = PlusPoint(BaseTimes(s), BaseTimes(tweak))
  <2> SUFFICES ASSUME found
               PROVE  /\ shared = diffie_hellman(r, PublicKey(b)) /\ tweak \in Scalars
                      /\ BaseTimes(Plus(s, tweak)) = PlusPoint(BaseTimes(s), BaseTimes(tweak))
    OBVIOUS
  <2>1. shared = diffie_hellman(r, PublicKey(b)) /\ view_tag = compute_view_tag(shared)
    BY StealthGroups DEF view_tag_matches, ScanKey
  <2>2. tweak \in Scalars
    BY <2>1, TweaksAgree
  <2> QED
    BY <2>1, <2>2, StealthGroups
<1>5. found => c0 = [stealth_address |-> PlusPoint(BaseTimes(s), BaseTimes(tweak)),
                     stealth_scalar |-> Plus(s, tweak), label_index |-> 0]
  BY <1>4 DEF Candidate, SpendKey
<1>6. scan_note(spend, scan, PublicKey(r), view_tag) = IF found THEN {c0} ELSE {}
  BY <1>5 DEF scan_note, SpendKey, ScanKey
<1> QED
  BY <1>3, <1>6

------------------------------------------------------------------------------
(* The payments of the model *)

Announced == {Announcement(p) : p \in Payments}

LEMMA KeysAreKeys ==
  ASSUME NEW p \in Payments
  PROVE  /\ To[p] \in Recipients /\ Ephemeral[p] \in Secrets
         /\ SpendScalar[To[p]] \in Scalars /\ ScanSecret[To[p]] \in Secrets
         /\ KnownLabels[To[p]] \in SUBSET LabelIndexes /\ Label[p] \in KnownLabels[To[p]] \cup {0}
         /\ Label[p] \in LabelIndexes /\ Amount[p] \in Nat \ {0} /\ Asset[p] \in {"sol", "spl"}
         /\ Announcement(p) \in Announced
  BY PaymentConstants DEF Announced

Built == {p \in Payments : CanBuild(p)}

\* A wallet that paid derived the address without an error.
PaidWasBuilt ==
  /\ \A p \in Payments : wallet[p] = "new" => transfers[p] = 0
  /\ \A p \in Payments : wallet[p] # "new" => p \in Built

\* No note announces a payment that could not be built.
NotesWereBuilt ==
  /\ open \subseteq Built
  /\ \A i \in 1..Len(notes) : \E p \in Built : notes[i] = Announcement(p)

\* Stealth addresses hold nothing but what payments put there.
AccountsArePaid ==
  \A asset \in {"sol", "spl"}, address \in Points :
    held[asset][address] > 0 => \E p \in Built : Asset[p] = asset /\ AddressOf(p) = address

\* The lamports at a stealth address are those of whole transfers.
WholeTransfers ==
  \A p \in Built : Asset[p] = "sol" =>
    \E k \in Nat : held["sol"][AddressOf(p)] = k * Value(p)

\* So are those that a sweep moves, and the key that signs it is the address's.
SweepsAreWhole ==
  \A tx \in sweeps :
    /\ tx.signer = tx.address
    /\ \E p \in Built :
         /\ Asset[p] = tx.asset /\ AddressOf(p) = tx.address
         /\ tx.asset = "sol" => \E k \in Nat : tx.moved[1] + tx.moved[2] = k * Value(p)

TypeInv == TypeOK /\ PaidWasBuilt
Money == AccountsArePaid /\ WholeTransfers /\ SweepsAreWhole
IInv == TypeInv /\ NotesWereBuilt /\ Money

\* An address that can be derived is a point.
LEMMA AddressIsPoint ==
  ASSUME NEW p \in Payments
  PROVE  AddressOf(p) \in Points
<1> DEFINE b == ScanSecret[To[p]]
           s == SpendScalar[To[p]]
           i == Label[p]
           meta == MetaAddress(p)
           shared == diffie_hellman(Ephemeral[p], PublicKey(b))
           tweak == compute_tweak(shared, compute_view_tag(shared))
           labelled == IF i = 0 THEN s ELSE Plus(s, label_tweak_scalar(b, i))
<1>1. tweak \in Scalars
  BY KeysAreKeys, TweaksAgree
<1>2. labelled \in Scalars /\ BaseTimes(labelled) = meta.b_spend /\ meta.b_scan = PublicKey(b)
  <2>1. label_tweak_scalar(b, i) \in Scalars /\ s \in Scalars
    BY KeysAreKeys, StealthGroups
  <2> QED
    BY <2>1, StealthGroups DEF MetaAddress, for_label, SpendKey, ScanKey, Spend, Scan
<1>3. AddressOf(p) = PlusPoint(meta.b_spend, BaseTimes(tweak))
  BY <1>2 DEF AddressOf, StealthPayment, derive_payment
<1>4. AddressOf(p) = BaseTimes(Plus(labelled, tweak))
  BY <1>1, <1>2, <1>3, StealthGroups
<1> QED
  BY <1>1, <1>2, <1>4, StealthGroups

\* What the scan turns up are points with the scalars that sign for them.
LEMMA MatchesAreTyped ==
  ASSUME NEW r \in Recipients, NEW note \in Announced, NEW c \in Matches[r][note]
  PROVE  c.stealth_address \in Points /\ BaseTimes(c.stealth_scalar) = c.stealth_address
<1> DEFINE b == ScanSecret[r]
           shared == diffie_hellman(b, note.ephemeral_pub)
           tweak == compute_tweak(shared, note.view_tag)
<1>1. b \in Secrets /\ SpendScalar[r] \in Scalars /\ KnownLabels[r] \subseteq LabelIndexes
  BY PaymentConstants
<1>2. PICK p \in Payments : note = Announcement(p)
  BY DEF Announced
<1>3. note.ephemeral_pub = PublicKey(Ephemeral[p])
  BY <1>2 DEF Announcement, StealthPayment, derive_payment
<1>4. c \in scan_note_candidates(Spend(r), Scan(r), note.ephemeral_pub, note.view_tag,
                                 KnownLabels[r])
  BY DEF Matches, Announced
<1>5. PICK i \in {0} \cup KnownLabels[r] :
        /\ c = Candidate(Spend(r), Scan(r), shared, note.view_tag, i)
        /\ view_tag_matches(Scan(r), note.ephemeral_pub, note.view_tag)
  BY <1>4 DEF scan_note_candidates, Scan, ScanKey
<1>6. tweak \in Scalars
  <2>1. note.view_tag = compute_view_tag(shared)
    BY <1>5 DEF view_tag_matches, Scan, ScanKey
  <2>2. Ephemeral[p] \in Secrets
    BY KeysAreKeys
  <2> QED
    BY <2>1, <2>2, <1>1, <1>3, StealthGroups
<1>7. (IF i = 0 THEN SpendScalar[r] ELSE Plus(SpendScalar[r], label_tweak_scalar(b, i))) \in Scalars
  <2>1. CASE i = 0
    BY <2>1, <1>1
  <2>2. CASE i # 0
    <3>1. label_tweak_scalar(b, i) \in Scalars
      BY <2>2, <1>1, <1>5, StealthGroups
    <3> QED
      BY <2>2, <3>1, <1>1, StealthGroups
  <2> QED
    BY <2>1, <2>2
<1>8. c.stealth_scalar \in Scalars /\ c.stealth_address = BaseTimes(c.stealth_scalar)
  BY <1>5, <1>6, <1>7, StealthGroups DEF Candidate, Spend, Scan, SpendKey, ScanKey
<1> QED
  BY <1>8, StealthGroups

\* The recipient's scan of a payment's note turns up the payment.
LEMMA PaymentIsFound ==
  ASSUME NEW p \in Built
  PROVE  \E c \in Matches[To[p]][Announcement(p)] :
           /\ c.label_index = Label[p] /\ c.stealth_address = AddressOf(p)
           /\ BaseTimes(c.stealth_scalar) = AddressOf(p)
<1> DEFINE s == SpendScalar[To[p]]
           b == ScanSecret[To[p]]
           r == Ephemeral[p]
           labels == KnownLabels[To[p]]
           l == Label[p]
           payment == derive_payment(for_label(SpendKey(s), ScanKey(b), l), r)
<1>1. /\ s \in Scalars /\ b \in Secrets /\ r \in Secrets
      /\ labels \in SUBSET LabelIndexes /\ l \in labels \cup {0}
  BY KeysAreKeys DEF Built
<1>2. CanDerive(for_label(SpendKey(s), ScanKey(b), l), r)
  BY DEF Built, CanBuild, MetaAddress, Spend, Scan
<1>3. payment = StealthPayment[p] /\ payment.stealth_address = AddressOf(p)
  BY DEF Built, StealthPayment, MetaAddress, Spend, Scan, AddressOf
<1>4. Matches[To[p]][Announcement(p)] =
        scan_note_candidates(SpendKey(s), ScanKey(b), payment.ephemeral_pub, payment.view_tag,
                             labels)
  BY <1>3, KeysAreKeys DEF Built, Matches, Announcement, Spend, Scan
<1> HIDE DEF s, b, r, labels, l
<1>5. \E c \in scan_note_candidates(SpendKey(s), ScanKey(b), payment.ephemeral_pub,
                                    payment.view_tag, labels) :
        /\ c.label_index = l
        /\ c.stealth_address = payment.stealth_address
        /\ BaseTimes(c.stealth_scalar) = payment.stealth_address
  BY <1>1, <1>2, AddressesAgree
<1> QED
  BY <1>3, <1>4, <1>5 DEF l

\* No two payments share an address.
LEMMA AddressesDiffer ==
  ASSUME NEW p \in Built, NEW q \in Built, AddressOf(p) = AddressOf(q)
  PROVE  p = q
<1>1. PICK c \in Matches[To[p]][Announcement(p)] : c.stealth_address = AddressOf(p)
  BY PaymentIsFound
<1>2. To[p] \in Recipients
  BY KeysAreKeys DEF Built
<1> QED
  BY <1>1, <1>2, NoForeignMatches DEF Built

\* A scan turns up one candidate under a label.
LEMMA OneCandidatePerLabel ==
  ASSUME NEW r \in Recipients, NEW note \in Announced,
         NEW c \in Matches[r][note], NEW d \in Matches[r][note],
         c.label_index = d.label_index
  PROVE  c = d
<1> DEFINE shared == diffie_hellman(ScanSecret[r], note.ephemeral_pub)
<1>1. \A e \in Matches[r][note] :
        \E i \in {0} \cup KnownLabels[r] :
          e = Candidate(Spend(r), Scan(r), shared, note.view_tag, i)
  BY DEF Matches, Announced, scan_note_candidates, Scan, ScanKey
<1>2. \A i : Candidate(Spend(r), Scan(r), shared, note.view_tag, i).label_index = i
  BY DEF Candidate
<1> QED
  BY <1>1, <1>2

------------------------------------------------------------------------------
(* Amounts *)

\* A transfer moves something, and one in lamports at least the rent.
LEMMA ValuesArePositive ==
  ASSUME NEW p \in Payments
  PROVE  /\ Value(p) \in Nat \ {0}
         /\ Asset[p] = "sol" => Value(p) >= RENT_EXEMPT_MIN
  BY KeysAreKeys, PaymentConstants DEF Value

\* Of whole transfers less whole transfers whole transfers are left.
LEMMA MultiplesSubtract ==
  ASSUME NEW v \in Nat \ {0}, NEW k \in Nat, NEW j \in Nat, j * v <= k * v
  PROVE  \E m \in Nat : k * v - j * v = m * v
<1>1. j <= k
  <2> SUFFICES ASSUME k + 1 <= j PROVE FALSE
    OBVIOUS
  <2>1. PICK d \in Nat : j = k + 1 + d
    <3>1. j - (k + 1) \in Nat /\ j = k + 1 + (j - (k + 1))
      OBVIOUS
    <3> QED
      BY <3>1
  <2>2. j * v = k * v + v + d * v
    BY <2>1
  <2>3. d * v \in Nat /\ k * v \in Nat /\ j * v \in Nat
    OBVIOUS
  <2> QED
    BY <2>2, <2>3
<1>2. k - j \in Nat /\ k * v - j * v = (k - j) * v
  BY <1>1
<1> QED
  BY <1>2

\* A multiple is nothing or as much as a transfer.
LEMMA MultiplesAreLarge ==
  ASSUME NEW v \in Nat, NEW m \in Nat
  PROVE  m * v = 0 \/ m * v >= v
<1>1. CASE m = 0
  BY <1>1
<1>2. CASE m # 0
  <2>1. m - 1 \in Nat /\ m * v = (m - 1) * v + v
    BY <1>2
  <2>2. (m - 1) * v \in Nat
    BY <2>1
  <2> QED
    BY <2>1, <2>2
<1> QED
  BY <1>1, <1>2

\* Every order of a batch is a sequence of its elements.
LEMMA OrdersAreSequences ==
  ASSUME NEW batch \in SUBSET Payments, NEW order \in SetToSeqs(batch)
  PROVE  order \in Seq(batch)
<1>1. Cardinality(batch) \in Nat
  BY PaymentConstants, FS_Subset, FS_CardinalityType
<1>2. order \in [1..Cardinality(batch) -> batch]
  BY DEF SetToSeqs
<1> QED
  BY <1>1, <1>2, SeqDef

\* A deposit keeps the amounts natural numbers.
LEMMA TransferKeepsTypes ==
  ASSUME TypeOK, NEW p \in Payments, Transfer(p), transfers[p] < MaxTransfers
  PROVE  /\ held' \in [{"sol", "spl"} -> [Points -> Nat]]
         /\ transfers' \in [Payments -> 0..MaxTransfers]
<1>1. Value(p) \in Nat /\ Asset[p] \in {"sol", "spl"}
  BY KeysAreKeys, PaymentConstants DEF Value
<1>2. held[Asset[p]] \in [Points -> Nat] /\ held[Asset[p]][AddressOf(p)] \in Nat
  BY <1>1, AddressIsPoint DEF TypeOK
<1>3. held[Asset[p]][AddressOf(p)] + Value(p) \in Nat
  BY <1>1, <1>2
<1>4. held' \in [{"sol", "spl"} -> [Points -> Nat]]
  BY <1>1, <1>2, <1>3 DEF Transfer, TypeOK
<1>5. transfers[p] + 1 \in 0..MaxTransfers
  BY PaymentConstants DEF TypeOK
<1> QED
  BY <1>4, <1>5 DEF Transfer, TypeOK

\* A recipient's funded candidates are addresses with keys.
LEMMA FundedIsTyped ==
  ASSUME TypeOK, NEW r \in Recipients, NEW f \in Funded(r, Len(notes))
  PROVE  /\ f.asset \in {"sol", "spl"}
         /\ f.match.stealth_address \in Points
         /\ BaseTimes(f.match.stealth_scalar) = f.match.stealth_address
         /\ held[f.asset][f.match.stealth_address] > 0
<1>1. PICK i \in dedup_by_ephemeral_pub(Len(notes)) :
        f \in [note : {i}, match : Matches[r][notes[i]], asset : {"sol", "spl"}]
  BY DEF Funded
<1>2. notes[i] \in Announced
  <2>1. i \in 1..Len(notes)
    BY DEF dedup_by_ephemeral_pub
  <2> QED
    BY <2>1, ElementOfSeq DEF TypeOK, Announced
<1>3. /\ f.match \in Matches[r][notes[i]] /\ f.asset \in {"sol", "spl"}
      /\ held[f.asset][f.match.stealth_address] > 0
  BY <1>1 DEF Funded
<1> QED
  BY <1>2, <1>3, MatchesAreTyped

\* What a sweep moves is never negative.
LEMMA SweepsAreTyped ==
  ASSUME NEW balance \in Nat, NEW take \in Nat, NEW to_main \in BOOLEAN,
         NEW moved \in build_sol_sweep(balance, take, to_main)
                       \cup build_spl_sweep(balance, take, to_main)
  PROVE  moved \in Nat \X Nat /\ moved[1] + moved[2] = balance
<1>1. take <= balance /\ (moved = <<take, balance - take>> \/ moved = <<balance - take, take>>)
  BY DEF build_sol_sweep, build_spl_sweep
<1>2. balance - take \in Nat
  BY <1>1
<1> QED
  BY <1>1, <1>2

------------------------------------------------------------------------------
(* Type correctness *)

LEMMA InitTypeInv == Init => TypeInv
<1> SUFFICES ASSUME Init PROVE TypeInv
  OBVIOUS
<1>1. notes \in Seq({Announcement(p) : p \in Payments})
  BY EmptySeq DEF Init
<1> QED
  BY <1>1, PaymentConstants DEF Init, TypeInv, TypeOK, PaidWasBuilt, Steps

LEMMA NextTypeInv == TypeInv /\ [Next]_vars => TypeInv'
<1> SUFFICES ASSUME TypeInv, [Next]_vars PROVE TypeInv'
  OBVIOUS
<1> USE DEF TypeInv
<1>1. ASSUME NEW p \in Payments, Pay(p) PROVE TypeInv'
  <2>1. transfers[p] = 0 /\ CanBuild(p) /\ Transfer(p)
    BY <1>1 DEF Pay, PaidWasBuilt
  <2>2. TypeOK'
    BY <1>1, <2>1, TransferKeepsTypes, PaymentConstants DEF Pay, TypeOK, Steps
  <2>3. PaidWasBuilt'
    BY <1>1, <2>1 DEF Pay, Transfer, TypeOK, PaidWasBuilt, Built, CanBuild, Value
  <2> QED
    BY <2>2, <2>3
<1>2. ASSUME NEW p \in Payments, LandAgain(p) PROVE TypeInv'
  <2>1. transfers[p] > 0 /\ transfers[p] < MaxTransfers /\ Transfer(p)
    BY <1>2, PaymentConstants DEF LandAgain, TypeOK
  <2>2. TypeOK'
    BY <1>2, <2>1, TransferKeepsTypes DEF LandAgain, TypeOK
  <2>3. PaidWasBuilt'
    BY <1>2, <2>1 DEF LandAgain, Transfer, TypeOK, PaidWasBuilt, Built, CanBuild, Value
  <2> QED
    BY <2>2, <2>3
<1>3. ASSUME NEW p \in Payments, Submit(p) PROVE TypeInv'
  BY <1>3 DEF Submit, recipientVars, TypeOK, PaidWasBuilt, Steps, CanBuild, Value
<1>4. ASSUME NEW p \in Payments, NEW n \in 0..Len(notes), StopWatching(p, n) PROVE TypeInv'
  BY <1>4 DEF StopWatching, recipientVars, TypeOK, PaidWasBuilt, Steps, CanBuild, Value
<1>5. ASSUME NEW p \in Payments, NEW n \in 0..Len(notes), SelfAnnounce(p, n) PROVE TypeInv'
  BY <1>5 DEF SelfAnnounce, recipientVars, TypeOK, PaidWasBuilt, Steps, CanBuild, Value
<1>6. ASSUME NEW p \in Payments, LandPost(p) PROVE TypeInv'
  <2>1. notes' \in Seq({Announcement(q) : q \in Payments})
    BY <1>6, AppendProperties DEF LandPost, TypeOK
  <2> QED
    BY <1>6, <2>1 DEF LandPost, recipientVars, TypeOK, PaidWasBuilt, Steps, CanBuild, Value
<1>7. ASSUME ServicePublishes PROVE TypeInv'
  <2>1. PICK batch \in SUBSET open :
          /\ open' = open \ batch
          /\ \E order \in SetToSeqs(batch) :
               notes' = notes \o [i \in 1..Len(order) |-> Announcement(order[i])]
    BY <1>7 DEF ServicePublishes
  <2>5. PICK order \in SetToSeqs(batch) :
          notes' = notes \o [i \in 1..Len(order) |-> Announcement(order[i])]
    BY <2>1
  <2>2. order \in Seq(Payments)
    BY OrdersAreSequences, SeqMonotonic DEF TypeOK
  <2>3. [i \in 1..Len(order) |-> Announcement(order[i])] \in Seq({Announcement(q) : q \in Payments})
    <3>1. Len(order) \in Nat /\ \A i \in 1..Len(order) : order[i] \in Payments
      BY <2>2, LenProperties, ElementOfSeq
    <3> QED
      BY <3>1, IsASeq
  <2>4. notes' \in Seq({Announcement(q) : q \in Payments})
    BY <2>5, <2>3, ConcatProperties DEF TypeOK
  <2> QED
    BY <1>7, <2>1, <2>4 DEF ServicePublishes, recipientVars, TypeOK, PaidWasBuilt, Built, CanBuild, Value
<1>8. ASSUME ServiceDrops PROVE TypeInv'
  BY <1>8 DEF ServiceDrops, recipientVars, TypeOK, PaidWasBuilt, Built, CanBuild, Value
<1>9. ASSUME NEW r \in Recipients, NEW address \in Points, BuildSweep(r, address) PROVE TypeInv'
  <2>1. PICK f \in Funded(r, Len(notes)), take \in Takes, to_main \in BOOLEAN :
          \E moved \in IF f.asset = "sol"
                       THEN build_sol_sweep(held[f.asset][address], take, to_main)
                       ELSE build_spl_sweep(held[f.asset][address], take, to_main) :
            sweeps' = sweeps \cup {[address |-> address,
                                    signer |-> BaseTimes(f.match.stealth_scalar),
                                    asset |-> f.asset, moved |-> moved]}
    BY <1>9, Zenon DEF BuildSweep
  <2>2. f.asset \in {"sol", "spl"} /\ BaseTimes(f.match.stealth_scalar) \in Points
    BY FundedIsTyped, Zenon
  <2>3. held[f.asset][address] \in Nat /\ take \in Nat
    BY <2>2, PaymentConstants DEF TypeOK
  <2>4. sweeps' \subseteq Sweep
    BY <2>1, <2>2, <2>3, SweepsAreTyped DEF Sweep, TypeOK
  <2> QED
    BY <1>9, <2>4 DEF BuildSweep, TypeOK, PaidWasBuilt, Built, CanBuild, Value
<1>10. ASSUME NEW address \in Points, LandSweep(address) PROVE TypeInv'
  <2>1. PICK tx \in sweeps :
          /\ tx.address = address /\ sweeps' = sweeps \ {tx}
          /\ held' = IF Executes(tx)
                       THEN [held EXCEPT ![tx.asset][address] = @ - tx.moved[1] - tx.moved[2]]
                       ELSE held
    BY <1>10 DEF LandSweep
  <2>2. /\ tx.asset \in {"sol", "spl"} /\ tx.moved[1] \in Nat /\ tx.moved[2] \in Nat
        /\ held[tx.asset] \in [Points -> Nat] /\ held[tx.asset][address] \in Nat
    BY DEF TypeOK, Sweep
  <2>3. Executes(tx) => held[tx.asset][address] - tx.moved[1] - tx.moved[2] \in Nat
    BY <2>1, <2>2, PaymentConstants DEF Executes
  <2>4. held' \in [{"sol", "spl"} -> [Points -> Nat]]
    BY <2>1, <2>2, <2>3 DEF TypeOK
  <2> QED
    BY <1>10, <2>1, <2>4 DEF LandSweep, TypeOK, PaidWasBuilt, Built, CanBuild, Value
<1>11. ASSUME Lose PROVE TypeInv'
  <2>1. wallet' \in [Payments -> Steps] /\ \A p \in Payments : wallet'[p] = "new" => wallet[p] = "new"
    BY <1>11 DEF Lose, TypeOK, Steps
  <2>2. losses' \in 0..MaxLosses
    BY <1>11, PaymentConstants DEF Lose, TypeOK
  <2>3. sweeps' \subseteq Sweep
    BY <1>11 DEF Lose, TypeOK
  <2> QED
    BY <1>11, <2>1, <2>2, <2>3 DEF Lose, TypeOK, PaidWasBuilt, Built, CanBuild, Value
<1>12. CASE UNCHANGED vars
  BY <1>12 DEF vars, TypeOK, PaidWasBuilt, Built, CanBuild, Value
<1> QED
  BY <1>1, <1>2, <1>3, <1>4, <1>5, <1>6, <1>7, <1>8, <1>9, <1>10, <1>11, <1>12 DEF Next

------------------------------------------------------------------------------
(* Notes and money *)

LEMMA NextNotes == IInv /\ [Next]_vars => NotesWereBuilt'
<1> SUFFICES ASSUME IInv, [Next]_vars PROVE NotesWereBuilt'
  OBVIOUS
<1>1. /\ open \subseteq Built /\ \A i \in 1..Len(notes) : \E p \in Built : notes[i] = Announcement(p)
      /\ notes \in Seq(Announced) /\ Len(notes) \in Nat
      /\ \A p \in Payments : wallet[p] # "new" => p \in Built
  BY LenProperties DEF IInv, TypeInv, TypeOK, NotesWereBuilt, PaidWasBuilt, Announced
<1>2. ASSUME NEW p \in Payments, Submit(p) PROVE NotesWereBuilt'
  <2>1. p \in Built /\ open' \subseteq open \cup {p} /\ notes' = notes
    BY <1>1, <1>2 DEF Submit
  <2> QED
    BY <1>1, <2>1 DEF NotesWereBuilt
<1>3. ASSUME NEW p \in Payments, LandPost(p) PROVE NotesWereBuilt'
  <2>1. p \in Built /\ open' = open /\ notes' = Append(notes, Announcement(p))
    BY <1>1, <1>3 DEF LandPost
  <2>2. /\ Len(notes') = Len(notes) + 1 /\ notes'[Len(notes) + 1] = Announcement(p)
        /\ \A i \in 1..Len(notes) : notes'[i] = notes[i]
    BY <2>1, <1>1, KeysAreKeys, AppendProperties
  <2>3. \A i \in 1..Len(notes') : i \in 1..Len(notes) \/ i = Len(notes) + 1
    BY <1>1, <2>2
  <2> QED
    BY <1>1, <2>1, <2>2, <2>3 DEF NotesWereBuilt
<1>4. ASSUME ServicePublishes PROVE NotesWereBuilt'
  <2>1. PICK batch \in SUBSET open :
          /\ open' = open \ batch
          /\ \E order \in SetToSeqs(batch) :
               notes' = notes \o [i \in 1..Len(order) |-> Announcement(order[i])]
    BY <1>4 DEF ServicePublishes
  <2>2. PICK order \in SetToSeqs(batch) :
          notes' = notes \o [i \in 1..Len(order) |-> Announcement(order[i])]
    BY <2>1
  <2> DEFINE more == [i \in 1..Len(order) |-> Announcement(order[i])]
  <2>3. batch \in SUBSET Payments /\ batch \subseteq Built
    BY <1>1 DEF Built
  <2>4. order \in Seq(batch)
    BY <2>3, OrdersAreSequences
  <2>5. Len(order) \in Nat /\ \A i \in 1..Len(order) : order[i] \in batch
    BY <2>4, LenProperties, ElementOfSeq
  <2>6. more \in Seq(Announced) /\ Len(more) = Len(order)
    <3>1. \A i \in 1..Len(order) : Announcement(order[i]) \in Announced
      BY <2>3, <2>5 DEF Announced
    <3> QED
      BY <2>5, <3>1, IsASeq, LenProperties
  <2>7. /\ Len(notes') = Len(notes) + Len(order)
        /\ \A i \in 1..Len(notes') :
             notes'[i] = IF i <= Len(notes) THEN notes[i] ELSE more[i - Len(notes)]
    BY <1>1, <2>2, <2>6, ConcatProperties
  <2>8. ASSUME NEW i \in 1..Len(notes') PROVE \E p \in Built : notes'[i] = Announcement(p)
    <3>1. CASE i <= Len(notes)
      <4>1. i \in 1..Len(notes)
        BY <1>1, <2>5, <2>7, <3>1
      <4>2. notes'[i] = notes[i]
        BY <2>7, <3>1
      <4> QED
        BY <1>1, <4>1, <4>2
    <3>2. CASE ~(i <= Len(notes))
      <4>1. i - Len(notes) \in 1..Len(order)
        BY <1>1, <2>5, <2>7, <3>2
      <4>2. notes'[i] = Announcement(order[i - Len(notes)])
        BY <2>7, <3>2, <4>1
      <4> QED
        BY <2>3, <2>5, <4>1, <4>2
    <3> QED
      BY <3>1, <3>2
  <2> QED
    BY <1>1, <2>1, <2>8 DEF NotesWereBuilt
<1>5. ASSUME ServiceDrops PROVE NotesWereBuilt'
  <2>1. open' \subseteq open /\ notes' = notes
    BY <1>5 DEF ServiceDrops
  <2> QED
    BY <1>1, <2>1 DEF NotesWereBuilt
<1>6. ASSUME UNCHANGED <<open, notes>> PROVE NotesWereBuilt'
  BY <1>1, <1>6 DEF NotesWereBuilt
<1>7. ASSUME NEW p \in Payments, NEW n \in 0..Len(notes),
             Pay(p) \/ LandAgain(p) \/ StopWatching(p, n) \/ SelfAnnounce(p, n)
      PROVE  UNCHANGED <<open, notes>>
  BY <1>7 DEF Pay, LandAgain, StopWatching, SelfAnnounce
<1>8. ASSUME NEW r \in Recipients, NEW address \in Points, BuildSweep(r, address)
      PROVE  UNCHANGED <<open, notes>>
  BY <1>8 DEF BuildSweep
<1>9. ASSUME NEW address \in Points, LandSweep(address) PROVE UNCHANGED <<open, notes>>
  BY <1>9 DEF LandSweep
<1>10. ASSUME Lose \/ UNCHANGED vars PROVE UNCHANGED <<open, notes>>
  BY <1>10 DEF Lose, vars
<1> QED
  <2>1. 0 \in 0..Len(notes)
    BY <1>1
  <2> QED
    BY <1>2, <1>3, <1>4, <1>5, <1>6, <1>7, <1>8, <1>9, <1>10, <2>1 DEF Next

\* A transfer adds to the account of its own payment, and to no other's.
LEMMA TransferKeepsMoney ==
  ASSUME TypeOK, Money, NEW p \in Built, Transfer(p), UNCHANGED sweeps
  PROVE  Money'
<1> DEFINE x == AddressOf(p)
           v == Value(p)
<1>1. /\ p \in Payments /\ Asset[p] \in {"sol", "spl"} /\ x \in Points /\ v \in Nat
  BY KeysAreKeys, AddressIsPoint, ValuesArePositive DEF Built
<1>2. held \in [{"sol", "spl"} -> [Points -> Nat]]
  BY DEF TypeOK
<1>3. \A asset \in {"sol", "spl"}, y \in Points :
        held'[asset][y] = IF asset = Asset[p] /\ y = x THEN held[asset][y] + v ELSE held[asset][y]
  BY <1>1, <1>2 DEF Transfer
<1>4. AccountsArePaid'
  BY <1>1, <1>3 DEF Money, AccountsArePaid
<1>5. WholeTransfers'
  <2> SUFFICES ASSUME NEW q \in Built, Asset[q] = "sol"
               PROVE  \E k \in Nat : held'["sol"][AddressOf(q)] = k * Value(q)
    BY DEF WholeTransfers
  <2>1. AddressOf(q) \in Points /\ Value(q) \in Nat
    BY AddressIsPoint, ValuesArePositive DEF Built
  <2>2. PICK k \in Nat : held["sol"][AddressOf(q)] = k * Value(q)
    BY DEF Money, WholeTransfers
  <2>3. CASE q = p
    <3>1. held'["sol"][AddressOf(q)] = k * Value(q) + Value(q)
      BY <1>3, <2>1, <2>2, <2>3
    <3>2. k + 1 \in Nat /\ k * Value(q) + Value(q) = (k + 1) * Value(q)
      BY <2>1
    <3> QED
      BY <3>1, <3>2
  <2>4. CASE q # p
    BY <1>3, <2>1, <2>2, <2>4, AddressesDiffer
  <2> QED
    BY <2>3, <2>4
<1>6. SweepsAreWhole'
  BY DEF Money, SweepsAreWhole
<1> QED
  BY <1>4, <1>5, <1>6 DEF Money

\* Without a transfer or a new sweep only sweeps that land matter.
LEMMA FewerSweepsKeepMoney ==
  ASSUME Money, UNCHANGED held, sweeps' \subseteq sweeps
  PROVE  Money'
  BY DEF Money, AccountsArePaid, WholeTransfers, SweepsAreWhole

\* A sweep is signed by the key of the address it empties, and moves the whole balance.
LEMMA BuildSweepKeepsMoney ==
  ASSUME TypeOK, Money, NEW r \in Recipients, NEW address \in Points, BuildSweep(r, address)
  PROVE  Money'
<1>1. PICK f \in Funded(r, Len(notes)), take \in Takes, to_main \in BOOLEAN :
        /\ f.match.stealth_address = address
        /\ \E moved \in IF f.asset = "sol"
                        THEN build_sol_sweep(held[f.asset][address], take, to_main)
                        ELSE build_spl_sweep(held[f.asset][address], take, to_main) :
             sweeps' = sweeps \cup {[address |-> address,
                                     signer |-> BaseTimes(f.match.stealth_scalar),
                                     asset |-> f.asset, moved |-> moved]}
  BY Zenon DEF BuildSweep
<1>2. PICK moved \in IF f.asset = "sol"
                     THEN build_sol_sweep(held[f.asset][address], take, to_main)
                     ELSE build_spl_sweep(held[f.asset][address], take, to_main) :
        sweeps' = sweeps \cup {[address |-> address, signer |-> BaseTimes(f.match.stealth_scalar),
                                asset |-> f.asset, moved |-> moved]}
  BY <1>1
<1>3. /\ f.asset \in {"sol", "spl"} /\ BaseTimes(f.match.stealth_scalar) = address
      /\ held[f.asset][address] > 0
  BY <1>1, FundedIsTyped, Zenon
<1>4. held[f.asset][address] \in Nat /\ take \in Nat
  BY <1>3, PaymentConstants DEF TypeOK
<1>5. moved[1] + moved[2] = held[f.asset][address]
  BY <1>2, <1>4, SweepsAreTyped
<1>6. PICK p \in Built : Asset[p] = f.asset /\ AddressOf(p) = address
  BY <1>3 DEF Money, AccountsArePaid
<1>7. f.asset = "sol" => \E k \in Nat : moved[1] + moved[2] = k * Value(p)
  BY <1>5, <1>6 DEF Money, WholeTransfers
<1>8. held' = held
  BY DEF BuildSweep
<1>9. SweepsAreWhole'
  BY <1>2, <1>3, <1>6, <1>7 DEF Money, SweepsAreWhole
<1> QED
  BY <1>8, <1>9 DEF Money, AccountsArePaid, WholeTransfers

\* A sweep that lands takes whole transfers away.
LEMMA LandSweepKeepsMoney ==
  ASSUME TypeOK, Money, NEW address \in Points, LandSweep(address)
  PROVE  Money'
<1>1. PICK tx \in sweeps :
        /\ tx.address = address /\ sweeps' = sweeps \ {tx}
        /\ held' = IF Executes(tx)
                     THEN [held EXCEPT ![tx.asset][address] = @ - tx.moved[1] - tx.moved[2]]
                     ELSE held
  BY DEF LandSweep
<1>2. CASE ~Executes(tx)
  BY <1>1, <1>2, FewerSweepsKeepMoney
<1>3. CASE Executes(tx)
  <2> DEFINE sum == tx.moved[1] + tx.moved[2]
  <2>1. /\ tx.asset \in {"sol", "spl"} /\ tx.moved[1] \in Nat /\ tx.moved[2] \in Nat
        /\ held \in [{"sol", "spl"} -> [Points -> Nat]] /\ held[tx.asset][address] \in Nat
    BY DEF TypeOK, Sweep
  <2>2. sum \in Nat /\ held[tx.asset][address] - tx.moved[1] - tx.moved[2] = held[tx.asset][address] - sum
    BY <2>1
  <2>3. sum <= held[tx.asset][address]
    BY <1>1, <1>3, <2>1, PaymentConstants DEF Executes
  <2>4. \A asset \in {"sol", "spl"}, y \in Points :
          held'[asset][y] = IF asset = tx.asset /\ y = address THEN held[asset][y] - sum
                                                               ELSE held[asset][y]
    BY <1>1, <1>3, <2>1, <2>2
  <2> HIDE DEF sum
  <2>5. AccountsArePaid'
    BY <2>1, <2>2, <2>3, <2>4 DEF Money, AccountsArePaid
  <2>6. WholeTransfers'
    <3> SUFFICES ASSUME NEW q \in Built, Asset[q] = "sol"
                 PROVE  \E k \in Nat : held'["sol"][AddressOf(q)] = k * Value(q)
      BY DEF WholeTransfers
    <3>1. AddressOf(q) \in Points /\ Value(q) \in Nat \ {0}
      BY AddressIsPoint, ValuesArePositive DEF Built
    <3>2. PICK k \in Nat : held["sol"][AddressOf(q)] = k * Value(q)
      BY DEF Money, WholeTransfers
    <3>3. CASE tx.asset = "sol" /\ AddressOf(q) = address
      <4>1. PICK p \in Built :
              /\ Asset[p] = tx.asset /\ AddressOf(p) = tx.address
              /\ tx.asset = "sol" => \E j \in Nat : sum = j * Value(p)
        BY DEF Money, SweepsAreWhole, sum
      <4>2. p = q
        BY <1>1, <3>3, <4>1, AddressesDiffer
      <4>3. PICK j \in Nat : sum = j * Value(q)
        BY <3>3, <4>1, <4>2
      <4>4. j * Value(q) <= k * Value(q)
        BY <2>3, <3>2, <3>3, <4>3
      <4>5. \E m \in Nat : k * Value(q) - j * Value(q) = m * Value(q)
        BY <3>1, <4>4, MultiplesSubtract
      <4> QED
        BY <2>4, <3>1, <3>2, <3>3, <4>3, <4>5
    <3>4. CASE ~(tx.asset = "sol" /\ AddressOf(q) = address)
      BY <2>4, <3>1, <3>2, <3>4
    <3> QED
      BY <3>3, <3>4
  <2>7. SweepsAreWhole'
    BY <1>1 DEF Money, SweepsAreWhole
  <2> QED
    BY <2>5, <2>6, <2>7 DEF Money
<1> QED
  BY <1>2, <1>3

LEMMA NextMoney == IInv /\ [Next]_vars => Money'
<1> SUFFICES ASSUME IInv, [Next]_vars PROVE Money'
  OBVIOUS
<1>1. TypeOK /\ PaidWasBuilt /\ Money
  BY DEF IInv, TypeInv
<1>2. ASSUME NEW p \in Payments, Pay(p) PROVE Money'
  BY <1>1, <1>2, TransferKeepsMoney DEF Pay, Built
<1>3. ASSUME NEW p \in Payments, LandAgain(p) PROVE Money'
  <2>1. transfers[p] # 0 /\ Transfer(p) /\ UNCHANGED sweeps
    BY <1>3, PaymentConstants DEF LandAgain
  <2>2. p \in Built
    BY <1>1, <2>1 DEF PaidWasBuilt
  <2> QED
    BY <1>1, <2>1, <2>2, TransferKeepsMoney
<1>4. ASSUME UNCHANGED held, sweeps' \subseteq sweeps PROVE Money'
  BY <1>1, <1>4, FewerSweepsKeepMoney
<1>5. ASSUME NEW p \in Payments, NEW n \in 0..Len(notes),
             Submit(p) \/ StopWatching(p, n) \/ SelfAnnounce(p, n) \/ LandPost(p)
      PROVE  UNCHANGED held /\ sweeps' \subseteq sweeps
  BY <1>5 DEF Submit, StopWatching, SelfAnnounce, LandPost, recipientVars
<1>6. ASSUME ServicePublishes \/ ServiceDrops \/ Lose \/ UNCHANGED vars
      PROVE  UNCHANGED held /\ sweeps' \subseteq sweeps
  BY <1>6 DEF ServicePublishes, ServiceDrops, Lose, recipientVars, vars
<1>7. ASSUME NEW r \in Recipients, NEW address \in Points, BuildSweep(r, address) PROVE Money'
  BY <1>1, <1>7, BuildSweepKeepsMoney
<1>8. ASSUME NEW address \in Points, LandSweep(address) PROVE Money'
  BY <1>1, <1>8, LandSweepKeepsMoney
<1>9. 0 \in 0..Len(notes)
  BY <1>1, LenProperties DEF TypeOK
<1> QED
  BY <1>2, <1>3, <1>4, <1>5, <1>6, <1>7, <1>8, <1>9 DEF Next

LEMMA InitIInv == Init => IInv
<1> SUFFICES ASSUME Init PROVE IInv
  OBVIOUS
<1>1. TypeInv
  BY InitTypeInv
<1>2. NotesWereBuilt
  BY DEF Init, NotesWereBuilt
<1>3. Money
  <2>1. AccountsArePaid /\ SweepsAreWhole
    BY DEF Init, AccountsArePaid, SweepsAreWhole
  <2>2. WholeTransfers
    <3> SUFFICES ASSUME NEW p \in Built PROVE held["sol"][AddressOf(p)] = 0 * Value(p)
      BY DEF WholeTransfers
    <3>1. AddressOf(p) \in Points /\ Value(p) \in Nat
      BY AddressIsPoint, ValuesArePositive DEF Built
    <3> QED
      BY <3>1 DEF Init
  <2> QED
    BY <2>1, <2>2 DEF Money
<1> QED
  BY <1>1, <1>2, <1>3 DEF IInv

LEMMA NextIInv == IInv /\ [Next]_vars => IInv'
  BY NextTypeInv, NextNotes, NextMoney DEF IInv

LEMMA Invariance == Spec => []IInv
  BY InitIInv, NextIInv, PTL DEF Spec

\* What accounts hold and what sweeps move stays a natural number, whatever lands
\* late, twice or not at all.
THEOREM TypeCorrect == Spec => []TypeOK
<1>1. IInv => TypeOK
  BY DEF IInv, TypeInv
<1> QED
  BY <1>1, Invariance, PTL

------------------------------------------------------------------------------
(* Every announced payment is recovered *)

LEMMA LeastElement ==
  ASSUME NEW S \in SUBSET Nat, S # {}
  PROVE  \E i \in S : \A j \in S : ~(j < i)
<1>1. IsWellFoundedOn(OpToRel(<, Nat), Nat)
  BY NatLessThanWellFounded
<1>2. PICK i \in S : \A j \in S : ~(<<j, i>> \in OpToRel(<, Nat))
  BY <1>1, WFMin, Zenon
<1> QED
  BY <1>2 DEF OpToRel

\* Of the notes with a payment's R, dedup_by_ephemeral_pub keeps one, and that one
\* announces the payment.
LEMMA DedupKeepsOne ==
  ASSUME TypeOK, NEW n \in 0..Len(notes), NEW p \in Payments, Seen(p, n)
  PROVE  \E i \in dedup_by_ephemeral_pub(n) : notes[i] = Announcement(p)
<1> DEFINE same == {i \in 1..n : notes[i].ephemeral_pub = Announcement(p).ephemeral_pub}
<1>1. same \in SUBSET Nat /\ same # {}
  BY DEF Seen
<1>2. PICK i \in same : \A j \in same : ~(j < i)
  BY <1>1, LeastElement
<1>3. i \in 1..n /\ i \in 1..Len(notes) /\ n \in Nat
  BY LenProperties DEF TypeOK
<1>4. \A j \in 1..(i - 1) : notes[j].ephemeral_pub # notes[i].ephemeral_pub
  <2> SUFFICES ASSUME NEW j \in 1..(i - 1), notes[j].ephemeral_pub = notes[i].ephemeral_pub
               PROVE  FALSE
    OBVIOUS
  <2>1. j \in 1..n /\ j < i
    BY <1>3
  <2> QED
    BY <2>1, <1>2
<1>5. i \in dedup_by_ephemeral_pub(n)
  BY <1>3, <1>4 DEF dedup_by_ephemeral_pub
<1>6. PICK q \in Payments : notes[i] = Announcement(q)
  BY <1>3, ElementOfSeq DEF TypeOK
<1>7. q = p
  BY <1>2, <1>6, FreshEphemerals
<1> QED
  BY <1>5, <1>6, <1>7

LEMMA InvariantRecovers == IInv => Recoverable
<1> SUFFICES ASSUME IInv, NEW p \in Payments, transfers[p] > 0, Seen(p, Len(notes))
             PROVE  \E i \in dedup_by_ephemeral_pub(Len(notes)) :
                      \E c \in Matches[To[p]][notes[i]] :
                        /\ c.stealth_address = AddressOf(p)
                        /\ BaseTimes(c.stealth_scalar) = AddressOf(p)
  BY DEF Recoverable
<1>1. TypeOK /\ Len(notes) \in 0..Len(notes)
  BY LenProperties DEF IInv, TypeInv, TypeOK
<1>2. PICK i \in dedup_by_ephemeral_pub(Len(notes)) : notes[i] = Announcement(p)
  BY <1>1, DedupKeepsOne
<1>3. p \in Built
  BY DEF IInv, TypeInv, PaidWasBuilt
<1> QED
  BY <1>2, <1>3, PaymentIsFound

\* No announced payment is lost to its recipient, whoever posted the note and however
\* often: de-duplication keeps a note of it and the scan finds its address and key.
THEOREM PaymentsAreRecoverable == Spec => []Recoverable
  BY Invariance, InvariantRecovers, PTL

------------------------------------------------------------------------------
(* Nothing is counted twice *)

\* Whatever a recipient counts comes from the one note kept of a payment to it, under
\* the label that was paid to.
LEMMA FundedIsOwn ==
  ASSUME IInv, NEW r \in Recipients, NEW n \in 0..Len(notes), NEW f \in Funded(r, n)
  PROVE  \E p \in Built :
           /\ To[p] = r /\ Seen(p, n) /\ Asset[p] = f.asset
           /\ AddressOf(p) = f.match.stealth_address /\ held[f.asset][AddressOf(p)] > 0
           /\ f.note \in dedup_by_ephemeral_pub(n) /\ notes[f.note] = Announcement(p)
           /\ f.match \in Matches[r][Announcement(p)] /\ f.match.label_index = Label[p]
<1>1. /\ f.note \in dedup_by_ephemeral_pub(n) /\ f.match \in Matches[r][notes[f.note]]
      /\ f.asset \in {"sol", "spl"} /\ held[f.asset][f.match.stealth_address] > 0
  BY DEF Funded
<1>2. f.note \in 1..n /\ f.note \in 1..Len(notes)
  BY <1>1, LenProperties DEF dedup_by_ephemeral_pub, IInv, TypeInv, TypeOK
<1>3. PICK p \in Built : notes[f.note] = Announcement(p)
  BY <1>2 DEF IInv, NotesWereBuilt
<1>4. notes[f.note] \in Announced
  BY <1>3 DEF Built, Announced
<1>5. f.match.stealth_address \in Points
  BY <1>1, <1>4, MatchesAreTyped
<1>6. PICK q \in Built : Asset[q] = f.asset /\ AddressOf(q) = f.match.stealth_address
  BY <1>1, <1>5 DEF IInv, Money, AccountsArePaid
<1>7. r = To[q] /\ p = q /\ f.match.label_index = Label[q]
  BY <1>1, <1>3, <1>6, NoForeignMatches DEF Built
<1>8. Seen(p, n)
  BY <1>2, <1>3 DEF Seen
<1> QED
  BY <1>1, <1>3, <1>6, <1>7, <1>8

\* What is seen and holds something is counted.
LEMMA OwnIsFunded ==
  ASSUME IInv, NEW n \in 0..Len(notes), NEW p \in Payments, Seen(p, n),
         held[Asset[p]][AddressOf(p)] > 0
  PROVE  \E f \in Funded(To[p], n) : f.asset = Asset[p] /\ f.match.stealth_address = AddressOf(p)
<1>1. PICK i \in dedup_by_ephemeral_pub(n) : notes[i] = Announcement(p)
  BY DedupKeepsOne DEF IInv, TypeInv
<1>2. i \in 1..Len(notes)
  BY LenProperties DEF dedup_by_ephemeral_pub, IInv, TypeInv, TypeOK
<1>3. PICK q \in Built : notes[i] = Announcement(q)
  BY <1>2 DEF IInv, NotesWereBuilt
<1>4. p \in Built
  BY <1>1, <1>3, FreshEphemerals DEF Built
<1>5. PICK c \in Matches[To[p]][notes[i]] : c.stealth_address = AddressOf(p)
  BY <1>1, <1>4, PaymentIsFound
<1>6. Asset[p] \in {"sol", "spl"}
  BY KeysAreKeys
<1> DEFINE f == [note |-> i, match |-> c, asset |-> Asset[p]]
<1>7. f \in Funded(To[p], n)
  BY <1>1, <1>5, <1>6 DEF Funded
<1> QED
  BY <1>5, <1>7

\* An account is counted under one note and one label only.
LEMMA FundedOnce ==
  ASSUME IInv, NEW r \in Recipients, NEW n \in 0..Len(notes),
         NEW f \in Funded(r, n), NEW g \in Funded(r, n),
         f.asset = g.asset, f.match.stealth_address = g.match.stealth_address
  PROVE  f = g
<1>1. PICK p \in Built :
        /\ AddressOf(p) = f.match.stealth_address /\ f.note \in dedup_by_ephemeral_pub(n)
        /\ notes[f.note] = Announcement(p) /\ f.match \in Matches[r][Announcement(p)]
        /\ f.match.label_index = Label[p]
  BY FundedIsOwn
<1>2. PICK q \in Built :
        /\ AddressOf(q) = g.match.stealth_address /\ g.note \in dedup_by_ephemeral_pub(n)
        /\ notes[g.note] = Announcement(q) /\ g.match \in Matches[r][Announcement(q)]
        /\ g.match.label_index = Label[q]
  BY FundedIsOwn
<1>3. p = q
  BY <1>1, <1>2, AddressesDiffer
<1>4. f.note = g.note
  <2>1. n \in Nat /\ f.note \in 1..n /\ g.note \in 1..n
    BY <1>1, <1>2, LenProperties DEF dedup_by_ephemeral_pub, IInv, TypeInv, TypeOK
  <2>2. notes[f.note].ephemeral_pub = notes[g.note].ephemeral_pub
    BY <1>1, <1>2, <1>3
  <2>3. ~(f.note < g.note)
    BY <1>2, <2>1, <2>2 DEF dedup_by_ephemeral_pub
  <2>4. ~(g.note < f.note)
    BY <1>1, <2>1, <2>2 DEF dedup_by_ephemeral_pub
  <2> QED
    BY <2>1, <2>3, <2>4
<1>5. f.match = g.match
  <2>1. Announcement(p) \in Announced
    BY DEF Built, Announced
  <2> QED
    BY <1>1, <1>2, <1>3, <2>1, OneCandidatePerLabel
<1>6. /\ f = [note |-> f.note, match |-> f.match, asset |-> f.asset]
      /\ g = [note |-> g.note, match |-> g.match, asset |-> g.asset]
  BY DEF Funded
<1> QED
  BY <1>4, <1>5, <1>6, Zenon

LEMMA InvariantCountsOnce == IInv => CountedOnce
<1> SUFFICES ASSUME IInv, NEW r \in Recipients, NEW n \in 0..Len(notes)
             PROVE  /\ {<<f.asset, f.match.stealth_address>> : f \in Funded(r, n)} =
                         {<<Asset[p], AddressOf(p)>> :
                            p \in {q \in Payments : /\ To[q] = r /\ Seen(q, n)
                                                   /\ held[Asset[q]][AddressOf(q)] > 0}}
                    /\ \A f, g \in Funded(r, n) :
                         f.asset = g.asset /\ f.match.stealth_address = g.match.stealth_address
                           => f = g
  BY Zenon DEF CountedOnce
<1> DEFINE own == {q \in Payments : To[q] = r /\ Seen(q, n) /\ held[Asset[q]][AddressOf(q)] > 0}
<1>1. ASSUME NEW f \in Funded(r, n)
      PROVE  \E p \in own : <<f.asset, f.match.stealth_address>> = <<Asset[p], AddressOf(p)>>
  BY FundedIsOwn DEF Built
<1>2. ASSUME NEW p \in own
      PROVE  \E f \in Funded(r, n) : <<f.asset, f.match.stealth_address>> = <<Asset[p], AddressOf(p)>>
  BY OwnIsFunded
<1>3. \A f, g \in Funded(r, n) :
        f.asset = g.asset /\ f.match.stealth_address = g.match.stealth_address => f = g
  BY FundedOnce
<1> QED
  BY <1>1, <1>2, <1>3

\* A recipient counts each account of its announced payments once and no other, for any
\* number of payments, labels, notes and repeated notes, whichever node it reads from.
THEOREM PaymentsAreCountedOnce == Spec => []CountedOnce
  BY Invariance, InvariantCountsOnce, PTL

------------------------------------------------------------------------------
(* Late deposits *)

LEMMA InvariantHarmless == IInv => LateDepositIsHarmless
<1> SUFFICES ASSUME IInv, NEW tx \in sweeps, tx.asset = "sol",
                    held["sol"][tx.address] >= tx.moved[1] + tx.moved[2]
             PROVE  Executes(tx)
  BY DEF LateDepositIsHarmless
<1> DEFINE left == held["sol"][tx.address] - tx.moved[1] - tx.moved[2]
<1>1. /\ tx.moved[1] \in Nat /\ tx.moved[2] \in Nat /\ tx.address \in Points
      /\ held["sol"][tx.address] \in Nat
  BY DEF IInv, TypeInv, TypeOK, Sweep
<1>2. PICK p \in Built, j \in Nat :
        Asset[p] = "sol" /\ AddressOf(p) = tx.address /\ tx.moved[1] + tx.moved[2] = j * Value(p)
  BY DEF IInv, Money, SweepsAreWhole
<1>3. PICK k \in Nat : held["sol"][tx.address] = k * Value(p)
  BY <1>2 DEF IInv, Money, WholeTransfers
<1>4. Value(p) \in Nat \ {0} /\ Value(p) >= RENT_EXEMPT_MIN
  BY <1>2, ValuesArePositive DEF Built
<1>5. PICK m \in Nat : k * Value(p) - j * Value(p) = m * Value(p)
  BY <1>2, <1>3, <1>4, MultiplesSubtract
<1>6. left = m * Value(p)
  <2>1. left = held["sol"][tx.address] - (tx.moved[1] + tx.moved[2])
    BY <1>1
  <2> QED
    BY <1>2, <1>3, <1>5, <2>1
<1>7. left = 0 \/ left >= Value(p)
  BY <1>4, <1>6, MultiplesAreLarge
<1>8. left \in Nat
  BY <1>1
<1>9. left = 0 \/ left >= RENT_EXEMPT_MIN
  BY <1>4, <1>7, <1>8, PaymentConstants
<1>10. tx.signer = tx.address
  BY DEF IInv, Money, SweepsAreWhole
<1> QED
  BY <1>9, <1>10 DEF Executes

\* Every transfer carries the rent of its account, so what a sweep of an old balance leaves
\* is nothing or enough to stand by itself: a sweep of lamports that are still there
\* executes, for every amount, share of the relayer and number of transfers.
THEOREM LateDepositsAreHarmless == Spec => []LateDepositIsHarmless
  BY Invariance, InvariantHarmless, PTL
==============================================================================
