------------------------------ MODULE Lifecycle -------------------------------
(***************************************************************************)
(* The demo examples/lifecycle.rs, which scan_stream.rs names as the way   *)
(* to scan what is already on the chain: fund two wallets, pay 1 SOL and   *)
(* post its note in one transaction, search the pinboard's transactions    *)
(* for the note, sweep the address.  RPC calls fail, transactions expire,  *)
(* loops have deadlines, and strangers use the chain too.                  *)
(***************************************************************************)
EXTENDS StealthKeys, NoteLog

CONSTANTS
  spend_scalar, scan_secret, \* of the recipient
  ephemeral,                 \* the secret the sender draws
  ONE_SOL, TX_FEE,           \* lamports
  Airdrop,                   \* lamports; code: 10 * ONE_SOL
  RENT_EXEMPT_MIN,           \* lamports an address holds at least if it holds any
  Limit,                     \* transactions listed at a time; code: 100
  Strangers,                 \* what strangers' transactions log, sequences of lines
  MaxStrangers, MaxDust      \* bounds: transactions of strangers, lamports they give

\* What is paid covers the fee of its sweep and is enough to stay at an address; an airdrop
\* covers a payment with its fee, and what it leaves is enough, too.
ASSUME LifecycleConstants ==
  /\ ONE_SOL \in Nat /\ TX_FEE \in Nat /\ Airdrop \in Nat /\ Limit \in Nat /\ MaxDust \in Nat
  /\ RENT_EXEMPT_MIN \in Nat /\ RENT_EXEMPT_MIN <= ONE_SOL
  /\ TX_FEE <= ONE_SOL /\ ONE_SOL + TX_FEE + RENT_EXEMPT_MIN <= Airdrop

VARIABLES
  pc,       \* where main is
  late,     \* the deadline of the loop that runs has passed
  txs,      \* what became of each of the demo's transactions
  ledger,   \* what the transactions that mention pinboard logged, oldest first
  balance,  \* lamports of the three addresses
  calm,     \* whether the demo is spared faults and strangers, see StrangerPosts
  dust,     \* lamports strangers gave to the stealth address
  before,   \* balances read before the sweep
  sigs,     \* transactions listed and not looked at yet, newest first
  matched   \* what the scan returned, a set of at most one match

vars == <<pc, late, txs, ledger, balance, calm, dust, before, sigs, matched>>

Spend == SpendKey(spend_scalar)
Scan == ScanKey(scan_secret)
payment == derive_payment(for_label(Spend, Scan, 0), ephemeral)
PaymentNote == [ephemeral_pub |-> payment.ephemeral_pub, view_tag |-> payment.view_tag]

Wallets == {"sender", "recipient"}
Txs == Wallets \cup {"payment", "sweep"}   \* an airdrop is named for its wallet

\* The notes of a transaction that the keys recognise.
Recognised(lines) ==
  {found \in notes_from_log_lines(lines) :
     scan_note(Spend, Scan, found.note.ephemeral_pub, found.note.view_tag) # {}}

\* Places are pairs of what main does and with what.
At(place, what) == pc = <<place, what>>
Goto(place, what) == pc' = <<place, what>> /\ late' = FALSE
Done == <<"done", "all">>
Panicked == <<"panicked", "all">>

------------------------------------------------------------------------------
(* The cluster *)

PaymentLog == <<[kind |-> "text"], [kind |-> "note", note |-> PaymentNote]>>

\* Faulty: the transaction holds the transfer only.
TransferOnly ==
  /\ balance' = [balance EXCEPT !["sender"] = @ - ONE_SOL - TX_FEE, !["stealth"] = @ + ONE_SOL]
  /\ UNCHANGED ledger

\* A transfer and the post of its note, in one transaction: both or neither.
ExecutePayment ==
  /\ balance' = [balance EXCEPT !["sender"] = @ - ONE_SOL - TX_FEE, !["stealth"] = @ + ONE_SOL]
  /\ ledger' = Append(ledger, PaymentLog)

\* Faulty: the fee is reserved twice.
SweepLess == before.stealth - 2 * TX_FEE

\* The stealth address pays the fee itself.
sweep_amount == before.stealth - TX_FEE

\* An address is emptied, or keeps at least the minimum.
RentExempt(lamports) == lamports = 0 \/ lamports >= RENT_EXEMPT_MIN
SweepLeaves == balance["stealth"] - sweep_amount - TX_FEE

ExecuteSweep ==
  /\ RentExempt(SweepLeaves)
  /\ balance' = [balance EXCEPT !["stealth"] = SweepLeaves, !["recipient"] = @ + sweep_amount]
  /\ UNCHANGED ledger

ExecuteAirdrop(who) ==
  /\ balance' = [balance EXCEPT ![who] = @ + Airdrop]
  /\ UNCHANGED ledger

Land ==
  /\ \E tx \in Txs :
       /\ txs[tx] = "sent"
       /\ txs' = [txs EXCEPT ![tx] = "landed"]
       /\ \/ tx \in Wallets /\ ExecuteAirdrop(tx)
          \/ tx = "payment" /\ ExecutePayment
          \/ tx = "sweep" /\ ExecuteSweep
  /\ UNCHANGED <<pc, late, dust, calm, before, sigs, matched>>

\* A sweep that would leave less at the address than may stay there fails and pays its fee.
SweepFails ==
  /\ txs["sweep"] = "sent" /\ ~RentExempt(SweepLeaves)
  /\ txs' = [txs EXCEPT !["sweep"] = "failed"]
  /\ balance' = [balance EXCEPT !["stealth"] = @ - TX_FEE]
  /\ UNCHANGED <<pc, late, ledger, dust, calm, before, sigs, matched>>

Expire ==
  /\ ~calm
  /\ \E tx \in Txs : txs[tx] = "sent" /\ txs' = [txs EXCEPT ![tx] = "expired"]
  /\ UNCHANGED <<pc, late, ledger, balance, dust, calm, before, sigs, matched>>

\* In a calm time strangers leave the payment among the newest Limit transactions, and
\* post no note that the keys take for theirs.
StrangerPosts ==
  \E lines \in Strangers :
    /\ calm => Recognised(lines) = {}
    /\ Len(ledger) < (IF calm THEN Limit - 1 ELSE MaxStrangers)
                       + (IF txs["payment"] = "landed" THEN 1 ELSE 0)
    /\ ledger' = Append(ledger, lines)
    /\ UNCHANGED <<pc, late, txs, balance, dust, calm, before, sigs, matched>>

StrangerPays ==
  /\ ~calm
  /\ \E gift \in 1..(MaxDust - dust) :
       /\ RentExempt(balance["stealth"] + gift)
       /\ dust' = dust + gift
       /\ balance' = [balance EXCEPT !["stealth"] = @ + gift]
  /\ UNCHANGED <<pc, late, txs, ledger, calm, before, sigs, matched>>

\* Time passes in a loop that has a deadline.
Tick ==
  /\ ~late
  /\ pc[1] \in {"confirm airdrop", "await balance", "list", "look"}
  /\ late' = TRUE
  /\ UNCHANGED <<pc, txs, ledger, balance, dust, calm, before, sigs, matched>>

------------------------------------------------------------------------------
(* main *)

Send(tx) == txs' = [txs EXCEPT ![tx] = "sent"]

\* An expect of an RPC call that fails, before or after a transaction was sent.
Fail ==
  /\ ~calm
  /\ pc[1] \in {"airdrop", "send", "confirm", "check"}
  /\ Goto("panicked", "all")
  /\ UNCHANGED <<txs, ledger, balance, dust, calm, before, sigs, matched>>

\* airdrop_blocking: a request, and two polls in which an RPC error counts as a no.
RequestAirdrop(who) ==
  /\ At("airdrop", who)
  /\ Goto("confirm airdrop", who)
  /\ Send(who)
  /\ UNCHANGED <<ledger, balance, dust, calm, before, sigs, matched>>

SeeAirdrop(who) ==
  /\ At("confirm airdrop", who) /\ txs[who] = "landed"
  /\ Goto("await balance", who)
  /\ UNCHANGED <<txs, ledger, balance, dust, calm, before, sigs, matched>>

SeeBalance(who) ==
  /\ At("await balance", who) /\ balance[who] >= Airdrop
  /\ IF who = "sender" THEN Goto("airdrop", "recipient") ELSE Goto("send", "payment")
  /\ UNCHANGED <<txs, ledger, balance, dust, calm, before, sigs, matched>>

\* Faulty: after the deadline main goes on as if the lamports were there.
AirdropGoesOn ==
  /\ pc[1] \in {"confirm airdrop", "await balance"} /\ late
  /\ IF pc[2] = "sender" THEN Goto("airdrop", "recipient") ELSE Goto("send", "payment")
  /\ UNCHANGED <<txs, ledger, balance, dust, calm, before, sigs, matched>>

AirdropTimesOut ==
  /\ pc[1] \in {"confirm airdrop", "await balance"} /\ late
  /\ Goto("panicked", "all")
  /\ UNCHANGED <<txs, ledger, balance, dust, calm, before, sigs, matched>>

SendPayment ==
  /\ At("send", "payment")
  /\ Goto("confirm", "payment")
  /\ Send("payment")
  /\ UNCHANGED <<ledger, balance, dust, calm, before, sigs, matched>>

\* send_and_confirm_transaction returns: landed, failed, or no longer able to land.
Confirm(tx) ==
  /\ At("confirm", tx)
  /\ \/ txs[tx] = "landed" /\ Goto("check", tx)
     \/ txs[tx] \in {"failed", "expired"} /\ Goto("panicked", "all")
  /\ UNCHANGED <<txs, ledger, balance, dust, calm, before, sigs, matched>>

CheckPayment ==
  /\ At("check", "payment")
  /\ IF balance["stealth"] = ONE_SOL THEN Goto("list", "all") ELSE Goto("panicked", "all")
  /\ UNCHANGED <<txs, ledger, balance, dust, calm, before, sigs, matched>>

------------------------------------------------------------------------------
(* scan_pinboard_for_match *)

\* The newest transactions, up to Limit.
Newest == LET n == IF Len(ledger) < Limit THEN Len(ledger) ELSE Limit
          IN  [i \in 1..n |-> Len(ledger) + 1 - i]

List ==
  /\ At("list", "all")
  /\ sigs' \in {Newest} \cup (IF calm THEN {} ELSE {<<>>})
  /\ pc' = <<"look", "all">>
  /\ UNCHANGED <<late, txs, ledger, balance, dust, calm, before, matched>>

\* What the first of the notes that the keys recognise gives.
FirstMatch(lines) ==
  LET first == CHOOSE f \in Recognised(lines) : \A g \in Recognised(lines) : f.at <= g.at
  IN  scan_note(Spend, Scan, first.note.ephemeral_pub, first.note.view_tag)

\* A transaction without a match, or one that the node does not return.
Skip ==
  /\ At("look", "all") /\ sigs # <<>>
  /\ ~calm \/ Recognised(ledger[Head(sigs)]) = {}
  /\ sigs' = Tail(sigs)
  /\ UNCHANGED <<pc, late, txs, ledger, balance, dust, calm, before, matched>>

Match ==
  /\ At("look", "all") /\ sigs # <<>>
  /\ Recognised(ledger[Head(sigs)]) # {}
  /\ matched' = FirstMatch(ledger[Head(sigs)])
  /\ Goto("send", "sweep")
  /\ UNCHANGED <<txs, ledger, balance, dust, calm, before, sigs>>

\* Faulty: the search has no end.
PassForever ==
  /\ At("look", "all") /\ sigs = <<>>
  /\ pc' = <<"list", "all">> /\ UNCHANGED late
  /\ UNCHANGED <<txs, ledger, balance, dust, calm, before, sigs, matched>>

\* Faulty: the deadline ends a pass that is not over.
PassCut ==
  /\ At("look", "all")
  /\ \/ late /\ Goto("panicked", "all")
     \/ ~late /\ sigs = <<>> /\ pc' = <<"list", "all">> /\ UNCHANGED late
  /\ UNCHANGED <<txs, ledger, balance, dust, calm, before, sigs, matched>>

\* A pass is over: the deadline is looked at, and main expects a match.
PassEnds ==
  /\ At("look", "all") /\ sigs = <<>>
  /\ \/ late /\ Goto("panicked", "all")
     \/ ~late /\ pc' = <<"list", "all">> /\ UNCHANGED late
  /\ UNCHANGED <<txs, ledger, balance, dust, calm, before, sigs, matched>>

------------------------------------------------------------------------------
(* The sweep *)

\* The match is the payment, and its key signs for the address.
SweepAsserts ==
  \E m \in matched : /\ m.stealth_address = payment.stealth_address
                     /\ BaseTimes(m.stealth_scalar) = payment.stealth_address

SendSweep ==
  /\ At("send", "sweep")
  /\ IF SweepAsserts
     THEN /\ before' = [stealth |-> balance["stealth"], recipient |-> balance["recipient"]]
          /\ Send("sweep")
          /\ Goto("confirm", "sweep")
     ELSE UNCHANGED <<before, txs>> /\ Goto("panicked", "all")
  /\ UNCHANGED <<ledger, balance, dust, calm, sigs, matched>>

CheckSweep ==
  /\ At("check", "sweep")
  /\ IF balance["stealth"] = 0 /\ balance["recipient"] - before.recipient = sweep_amount
     THEN Goto("done", "all") ELSE Goto("panicked", "all")
  /\ UNCHANGED <<txs, ledger, balance, dust, calm, before, sigs, matched>>

\* The process has ended.
Ended ==
  /\ pc \in {Done, Panicked}
  /\ UNCHANGED vars

------------------------------------------------------------------------------
Init ==
  /\ pc = <<"airdrop", "sender">> /\ late = FALSE
  /\ txs = [tx \in Txs |-> "unsent"] /\ ledger = <<>>
  /\ balance = [a \in Wallets \cup {"stealth"} |-> 0] /\ dust = 0 /\ calm \in BOOLEAN
  /\ before = [stealth |-> 0, recipient |-> 0] /\ sigs = <<>> /\ matched = {}

Main ==
  \/ \E who \in Wallets : RequestAirdrop(who) \/ SeeAirdrop(who) \/ SeeBalance(who)
  \/ AirdropTimesOut \/ Fail
  \/ SendPayment \/ CheckPayment \/ SendSweep \/ CheckSweep
  \/ \E tx \in {"payment", "sweep"} : Confirm(tx)
  \/ List \/ Skip \/ Match \/ PassEnds

Next == Main \/ Land \/ SweepFails \/ Expire \/ StrangerPosts \/ StrangerPays \/ Tick \/ Ended

Spec == Init /\ [][Next]_vars

\* main runs on, the cluster decides about each transaction, and clocks do not stop.
FairSpec == Spec /\ WF_vars(Main) /\ WF_vars(Land \/ SweepFails \/ Expire) /\ WF_vars(Tick)

------------------------------------------------------------------------------
(* Properties *)

Places ==
  ({"airdrop", "confirm airdrop", "await balance"} \X Wallets)
    \cup ({"send", "confirm", "check"} \X {"payment", "sweep"})
    \cup {<<"list", "all">>, <<"look", "all">>, Done, Panicked}

\* Types; no balance is ever negative, and what is listed exists.
TypeOK ==
  /\ pc \in Places /\ late \in BOOLEAN
  /\ txs \in [Txs -> {"unsent", "sent", "landed", "failed", "expired"}]
  /\ balance \in [Wallets \cup {"stealth"} -> Nat]
  /\ calm \in BOOLEAN /\ dust \in 0..MaxDust
  /\ before \in [stealth : Nat, recipient : Nat]
  /\ \A i \in DOMAIN sigs : sigs[i] \in DOMAIN ledger
  /\ Cardinality(matched) <= 1

\* Whenever main stops, value paid to the stealth address can be found again: its note is
\* on the ledger as soon as the value is there.
ValueHasItsNote ==
  balance["stealth"] > dust =>
    \E i \in DOMAIN ledger : \E j \in DOMAIN ledger[i] : ledger[i][j] = PaymentLog[2]

\* The sweep leaves nothing but what came after the balance was read, and the recipient
\* gets all of the rest but the fee.
NothingLeftBehind ==
  txs["sweep"] = "landed" =>
    /\ balance["stealth"] <= dust
    /\ balance["recipient"] + balance["stealth"] = Airdrop + ONE_SOL + dust - TX_FEE

\* The demo ends, with success or a panic, whatever the cluster does.
Terminates == <>(pc \in {Done, Panicked})

\* In a calm time, and with the airdrops in time, it ends with the recipient paid, however
\* slow all other calls are: the search is not given up before one list is looked through.
FundedInTime == pc[1] \in {"confirm airdrop", "await balance"} => ~late
Succeeds == calm /\ []FundedInTime => <>(pc = Done)
===============================================================================
