------------------------------ MODULE Payments -------------------------------
(***************************************************************************)
(* A payment from end to end: the sender's wallet derives an address, pays *)
(* to it and gets the note onto the pinboard, with or without the          *)
(* announcement service; the recipient scans, recognises, and sweeps       *)
(* through a relayer.  The SDK's functions (sender.rs, flows.rs,           *)
(* announce.rs, recipient.rs, sweep.rs) decide every step; the loops that  *)
(* call them belong to the wallets.                                        *)
(*                                                                         *)
(* Of the service of AnnounceService, which Announcer implements           *)
(* (AnnouncerRefinement), only its open notes are kept: those it accepted  *)
(* and may yet publish.  A wallet decides by what the chain shows, not by  *)
(* tickets.                                                                *)
(***************************************************************************)
EXTENDS StealthKeys, Sequences, SequencesExt

CONSTANTS
  Payments, Recipients,
  SpendScalar, ScanSecret, \* of each recipient
  KnownLabels,             \* label indexes each recipient scans for
  To, Label,               \* recipient of a payment and label of the meta-address used
  Ephemeral,               \* ephemeral secret of each payment
  Asset,                   \* "sol" or "spl"
  Amount,                  \* of each payment
  RENT_EXEMPT_MIN,         \* lamports
  MaxU64,                  \* code: 2^64 - 1
  Takes,                   \* what relayers ask for
  MaxTransfers,            \* bound: transfers a wallet makes for one payment
  MaxLosses                \* bound: transactions that expire

VARIABLES
  wallet,    \* where the sender's wallet is with each payment
  transfers, \* how often the payment's transfer landed
  open,      \* payments whose note the service may yet publish
  notes,     \* the pinboard: notes in chain order
  held,      \* what stealth addresses hold
  sweeps,    \* sweep transactions under way
  losses     \* transactions that expired

vars == <<wallet, transfers, open, notes, held, sweeps, losses>>
recipientVars == <<held, sweeps>>

------------------------------------------------------------------------------
(* Keys and addresses *)

Spend(r) == SpendKey(SpendScalar[r])
Scan(r) == ScanKey(ScanSecret[r])
MetaAddress(p) == for_label(Spend(To[p]), Scan(To[p]), Label[p])
StealthPayment == [p \in Payments |-> derive_payment(MetaAddress(p), Ephemeral[p])]
AddressOf(p) == StealthPayment[p].stealth_address

\* Announcement::from_payment; scheme and metadata are carried along unchanged.
Announcement(p) ==
  [ephemeral_pub |-> StealthPayment[p].ephemeral_pub, view_tag |-> StealthPayment[p].view_tag]

ASSUME PaymentConstants ==
  /\ IsFiniteSet(Payments)
  /\ SpendScalar \in [Recipients -> Scalars] /\ ScanSecret \in [Recipients -> Secrets]
  /\ To \in [Payments -> Recipients] /\ Label \in [Payments -> LabelIndexes]
  /\ KnownLabels \in [Recipients -> SUBSET LabelIndexes]
  /\ \A p \in Payments : Label[p] \in KnownLabels[To[p]] \cup {0}
  /\ Ephemeral \in [Payments -> Secrets]
  /\ Asset \in [Payments -> {"sol", "spl"}] /\ Amount \in [Payments -> Nat \ {0}]
  /\ RENT_EXEMPT_MIN \in Nat \ {0} /\ MaxU64 \in Nat /\ Takes \subseteq Nat
  /\ MaxTransfers \in Nat \ {0} /\ MaxLosses \in Nat

\* No two payments draw the same ephemeral secret, or an equivalent one.
ASSUME FreshEphemerals ==
  \A p, q \in Payments :
    Announcement(p).ephemeral_pub = Announcement(q).ephemeral_pub => p = q

------------------------------------------------------------------------------
(* The sender pays *)

\* What the transfer of build_sol_payment or build_spl_payment moves.
Value(p) == IF Asset[p] = "sol" THEN Amount[p] + RENT_EXEMPT_MIN ELSE Amount[p]

\* derive_payment and build_sol_payment return no error.
CanBuild(p) == CanDerive(MetaAddress(p), Ephemeral[p]) /\ Value(p) <= MaxU64

\* A transfer of the payment lands.  build_spl_payment creates the token account
\* if it is not there.
Transfer(p) ==
  /\ held' = [held EXCEPT ![Asset[p]][AddressOf(p)] = @ + Value(p)]
  /\ transfers' = [transfers EXCEPT ![p] = @ + 1]

Pay(p) ==
  /\ wallet[p] = "new"
  /\ CanBuild(p)
  /\ Transfer(p)
  /\ wallet' = [wallet EXCEPT ![p] = "paid"]
  /\ UNCHANGED <<open, notes, sweeps, losses>>

\* The wallet sent the transfer again when it had no answer, and both landed.
LandAgain(p) ==
  /\ transfers[p] \in 1..(MaxTransfers - 1)
  /\ Transfer(p)
  /\ UNCHANGED <<wallet, open, notes, sweeps, losses>>

------------------------------------------------------------------------------
(* The sender announces *)

\* AnnounceClient::submit.  The service accepts or refuses; the wallet watches the
\* chain in either case, and if it gets no answer.
Submit(p) ==
  /\ wallet[p] = "paid"
  /\ wallet' = [wallet EXCEPT ![p] = "watching"]
  /\ open' \in {open, open \cup {p}}
  /\ UNCHANGED <<transfers, notes, losses, recipientVars>>

\* A note with the payment's R among the first n.
Seen(p, n) == \E i \in 1..n : notes[i].ephemeral_pub = Announcement(p).ephemeral_pub

\* Faulty: any note will do.
TrustAnyNote(p, n, elapsed) == n = 0 /\ elapsed

\* The timeout has elapsed or it has not.
should_self_announce(p, n, elapsed) == ~Seen(p, n) /\ elapsed

\* The wallet watches through a node that has got as far as note n.
StopWatching(p, n) ==
  /\ wallet[p] = "watching" /\ Seen(p, n)
  /\ wallet' = [wallet EXCEPT ![p] = "done"]
  /\ UNCHANGED <<transfers, open, notes, losses, recipientVars>>

\* The wallet posts the note itself and waits for the outcome.
SelfAnnounce(p, n) ==
  /\ wallet[p] = "watching"
  /\ should_self_announce(p, n, TRUE)
  /\ wallet' = [wallet EXCEPT ![p] = "posting"]
  /\ UNCHANGED <<transfers, open, notes, losses, recipientVars>>

LandPost(p) ==
  /\ wallet[p] = "posting"
  /\ wallet' = [wallet EXCEPT ![p] = "done"]
  /\ notes' = Append(notes, Announcement(p))
  /\ UNCHANGED <<transfers, open, losses, recipientVars>>

------------------------------------------------------------------------------
(* The service, as far as its promise goes *)

\* The notes of a batch reach the chain together, in any order.
ServicePublishes ==
  /\ \E batch \in SUBSET open \ {{}} :
       /\ open' = open \ batch
       /\ \E order \in SetToSeqs(batch) :
            notes' = notes \o [i \in 1..Len(order) |-> Announcement(order[i])]
  /\ UNCHANGED <<wallet, transfers, losses, recipientVars>>

\* It gives up, evicts, or crashes.
ServiceDrops ==
  /\ \E lost \in SUBSET open \ {{}} : open' = open \ lost
  /\ UNCHANGED <<wallet, transfers, notes, losses, recipientVars>>

------------------------------------------------------------------------------
(* The recipient *)

\* Faulty: every note counts.
DedupNothing(n) == 1..n

\* dedup_by_ephemeral_pub over the first n notes: the places of those it keeps.
dedup_by_ephemeral_pub(n) ==
  {i \in 1..n : \A j \in 1..(i - 1) : notes[j].ephemeral_pub # notes[i].ephemeral_pub}

\* What recipient r's scan makes of a note.
Matches ==
  [r \in Recipients |->
     [note \in {Announcement(p) : p \in Payments} |->
        scan_note_candidates(Spend(r), Scan(r), note.ephemeral_pub, note.view_tag,
                             KnownLabels[r])]]

\* Hashes do not collide and recipients do not share keys: a scan turns up the address
\* of a payment for nobody but its recipient, from no note but its own, under no label
\* but its own.
ASSUME NoForeignMatches ==
  \A p, q \in {x \in Payments : CanBuild(x)}, r \in Recipients :
    \A c \in Matches[r][Announcement(p)] :
      c.stealth_address = AddressOf(q) => r = To[q] /\ p = q /\ c.label_index = Label[q]

\* Candidates of recipient r among the first n notes that hold something, each
\* with the note it comes from.
Funded(r, n) ==
  LET found == UNION {[note : {i}, match : Matches[r][notes[i]], asset : {"sol", "spl"}] :
                        i \in dedup_by_ephemeral_pub(n)}
  IN  {f \in found : held[f.asset][f.match.stealth_address] > 0}

\* Faulty: what is left after the relayer's share is not transferred as a whole.
SolSweepShort(balance, take, to_main) ==
  IF to_main \/ take >= balance THEN {} ELSE {<<take, balance - take - take>>}

\* The transfers of a sweep, to relayer and destination; no sweep in case of an
\* error.  to_main: the destination is the recipient's main wallet.
build_sol_sweep(balance, take, to_main) ==
  IF to_main \/ take >= balance THEN {} ELSE {<<take, balance - take>>}

\* Faulty: a share larger than the amount is not refused.
SplSweepUnchecked(amount, take, to_main) == {<<amount - take, take>>}

\* Faulty: the relayer is not paid.
SplSweepUnpaid(amount, take, to_main) ==
  IF to_main \/ take > amount THEN {} ELSE {<<amount - take, 0>>}

\* CloseAccount follows the two transfers.  to_main: it returns the rent to the
\* recipient's main wallet.
build_spl_sweep(amount, take, to_main) ==
  IF to_main \/ take > amount THEN {} ELSE {<<amount - take, take>>}

BuildSweep(r, address) ==
  /\ \E f \in Funded(r, Len(notes)), take \in Takes, to_main \in BOOLEAN :
       LET balance == held[f.asset][address]
       IN  /\ f.match.stealth_address = address
           /\ \E moved \in IF f.asset = "sol" THEN build_sol_sweep(balance, take, to_main)
                                               ELSE build_spl_sweep(balance, take, to_main) :
                LET tx == [address |-> address, signer |-> BaseTimes(f.match.stealth_scalar),
                           asset |-> f.asset, moved |-> moved]
                IN  tx \notin sweeps /\ sweeps' = sweeps \cup {tx}
  /\ UNCHANGED <<wallet, transfers, open, notes, held, losses>>

\* The runtime's rules: the stealth key signed; a system account ends empty or
\* exempt from rent; a token account is closed empty.
Executes(tx) ==
  LET balance == held[tx.asset][tx.address]
      left == balance - tx.moved[1] - tx.moved[2]
  IN  /\ tx.signer = tx.address
      /\ left = 0 \/ (tx.asset = "sol" /\ left >= RENT_EXEMPT_MIN)

LandSweep(address) ==
  /\ \E tx \in sweeps :
       /\ tx.address = address
       /\ sweeps' = sweeps \ {tx}
       /\ held' = IF Executes(tx)
                    THEN [held EXCEPT ![tx.asset][address] = @ - tx.moved[1] - tx.moved[2]]
                    ELSE held
  /\ UNCHANGED <<wallet, transfers, open, notes, losses>>

\* A post or a sweep expires.
Lose ==
  /\ losses < MaxLosses
  /\ losses' = losses + 1
  /\ \/ /\ \E p \in Payments : wallet[p] = "posting" /\ wallet' = [wallet EXCEPT ![p] = "watching"]
        /\ UNCHANGED sweeps
     \/ /\ \E tx \in sweeps : sweeps' = sweeps \ {tx}
        /\ UNCHANGED wallet
  /\ UNCHANGED <<transfers, open, notes, held>>

------------------------------------------------------------------------------

Init ==
  /\ wallet = [p \in Payments |-> "new"] /\ transfers = [p \in Payments |-> 0]
  /\ open = {} /\ notes = <<>>
  /\ held = [a \in {"sol", "spl"} |-> [q \in Points |-> 0]]
  /\ sweeps = {} /\ losses = 0

Next ==
  \/ \E p \in Payments :
       \/ Pay(p) \/ LandAgain(p) \/ Submit(p)
       \/ \E n \in 0..Len(notes) : StopWatching(p, n) \/ SelfAnnounce(p, n)
       \/ LandPost(p)
  \/ ServicePublishes \/ ServiceDrops
  \/ \E r \in Recipients, address \in Points : BuildSweep(r, address)
  \/ \E address \in Points : LandSweep(address)
  \/ Lose

Spec == Init /\ [][Next]_vars

\* Wallets go on, nodes catch up, transactions land unless they expire.  The
\* service owes nothing.
Fairness ==
  \A p \in {q \in Payments : CanBuild(q)} :
    /\ WF_vars(Submit(p)) /\ WF_vars(LandPost(p))
    /\ WF_vars(StopWatching(p, Len(notes))) /\ WF_vars(SelfAnnounce(p, Len(notes)))
    /\ WF_vars(BuildSweep(To[p], AddressOf(p))) /\ WF_vars(LandSweep(AddressOf(p)))

FairSpec == Spec /\ Fairness

------------------------------------------------------------------------------
(* Properties *)

Steps == {"new", "paid", "watching", "posting", "done"}
Sweep == [address : Points, signer : Points, asset : {"sol", "spl"}, moved : Nat \X Nat]

\* Types of the wallets, the chain and the sweeps under way; amounts never go
\* below zero.
TypeOK ==
  /\ wallet \in [Payments -> Steps] /\ transfers \in [Payments -> 0..MaxTransfers]
  /\ open \subseteq Payments
  /\ notes \in Seq({Announcement(p) : p \in Payments})
  /\ held \in [{"sol", "spl"} -> [Points -> Nat]] /\ sweeps \subseteq Sweep
  /\ losses \in 0..MaxLosses

\* Once a payment's note is on the pinboard, in whichever way and however often,
\* the recipient's scan turns up the address that was paid to, with a scalar that
\* signs for it.
Recoverable ==
  \A p \in Payments : transfers[p] > 0 /\ Seen(p, Len(notes)) =>
    \E i \in dedup_by_ephemeral_pub(Len(notes)) :
      \E c \in Matches[To[p]][notes[i]] :
        c.stealth_address = AddressOf(p) /\ BaseTimes(c.stealth_scalar) = AddressOf(p)

\* What a recipient adds up after a scan is what its announced payments hold: every
\* account of theirs that holds something, once although service and wallet both posted,
\* and nothing of others although view tags collide.
CountedOnce ==
  \A r \in Recipients, n \in 0..Len(notes) :
    /\ {<<f.asset, f.match.stealth_address>> : f \in Funded(r, n)} =
         {<<Asset[p], AddressOf(p)>> :
            p \in {q \in Payments : /\ To[q] = r /\ Seen(q, n)
                                   /\ held[Asset[q]][AddressOf(q)] > 0}}
    /\ \A f, g \in Funded(r, n) :
         f.asset = g.asset /\ f.match.stealth_address = g.match.stealth_address => f = g

\* A sweep built on an old balance fails only if the account was swept in the
\* meantime, never because more arrived: what it leaves can stand by itself.
LateDepositIsHarmless ==
  \A tx \in sweeps : tx.asset = "sol" /\ held["sol"][tx.address] >= tx.moved[1] + tx.moved[2]
    => Executes(tx)

\* A payment made is announced, whether the service publishes, refuses, fails,
\* forgets or crashes, and whoever else posts.
EventuallyAnnounced ==
  \A p \in Payments : wallet[p] = "paid" ~> Seen(p, Len(notes))

\* Everything sent to a stealth address leaves it again by a sweep.
EventuallySwept ==
  \A p \in Payments : transfers[p] > 0 ~> held[Asset[p]][AddressOf(p)] = 0
==============================================================================
