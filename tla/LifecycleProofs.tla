--------------------------- MODULE LifecycleProofs ---------------------------
(***************************************************************************)
(* Theorems about Lifecycle, for every value of its constants.             *)
(***************************************************************************)
EXTENDS Lifecycle, FiniteSetTheorems, SequenceTheorems, TLAPS

------------------------------------------------------------------------------
(* The inductive invariant *)

IsLanded(tx) == txs[tx] = "landed"
IsUnsent(tx) == txs[tx] = "unsent"

\* What tx has moved: nothing before it lands.
Moved(tx, lamports) == IF IsLanded(tx) THEN lamports ELSE 0

\* Where what main does presupposes that a transaction has landed.
AfterAirdrop(who) ==
  ({"send", "confirm", "check"} \X {"payment", "sweep"})
    \cup {<<"list", "all">>, <<"look", "all">>, Done, <<"await balance", who>>}
    \cup (IF who = "sender"
          THEN {"airdrop", "confirm airdrop", "await balance"} \X {"recipient"} ELSE {})
AfterPayment ==
  {<<"check", "payment">>, <<"list", "all">>, <<"look", "all">>, Done}
    \cup ({"send", "confirm", "check"} \X {"sweep"})

\* Where it presupposes that a transaction has not been sent.
BeforeAirdrop(who) ==
  {<<"airdrop", who>>}
    \cup (IF who = "recipient"
          THEN {"airdrop", "confirm airdrop", "await balance"} \X {"sender"} ELSE {})
BeforePayment ==
  ({"airdrop", "confirm airdrop", "await balance"} \X Wallets) \cup {<<"send", "payment">>}
BeforeSweep ==
  BeforePayment \cup ({"confirm", "check"} \X {"payment"})
    \cup {<<"list", "all">>, <<"look", "all">>, <<"send", "sweep">>}

\* Where main is tells which transactions it has sent and seen land.
Progress ==
  /\ \A who \in Wallets : /\ pc \in AfterAirdrop(who) => IsLanded(who)
                          /\ pc \in BeforeAirdrop(who) => IsUnsent(who)
  /\ pc \in AfterPayment => IsLanded("payment")
  /\ pc \in BeforePayment => IsUnsent("payment")
  /\ pc \in BeforeSweep => IsUnsent("sweep")

\* A transaction is sent once those that it spends from have landed, and the sweep after
\* a look at the balance that has the payment in it.
SpendsWhatLanded ==
  /\ ~IsUnsent("payment") => IsLanded("sender")
  /\ ~IsUnsent("sweep") =>
       /\ IsLanded("payment") /\ IsLanded("recipient")
       /\ ONE_SOL <= before.stealth /\ before.stealth <= ONE_SOL + dust

\* The fee of a sweep that failed.
Burnt == IF txs["sweep"] = "failed" THEN TX_FEE ELSE 0

\* Each balance is the sum of what has landed, less that fee.
Balances ==
  /\ balance["sender"] = Moved("sender", Airdrop) - Moved("payment", ONE_SOL + TX_FEE)
  /\ balance["stealth"] = dust + Moved("payment", ONE_SOL) - Moved("sweep", before.stealth) - Burnt
  /\ balance["recipient"] = Moved("recipient", Airdrop) + Moved("sweep", sweep_amount)

\* The note of a payment that landed is on the ledger, and what is listed is, too.
Ledger ==
  /\ ledger \in Seq(Strangers \cup {PaymentLog})
  /\ sigs \in Seq(1..Len(ledger))
  /\ IsLanded("payment") => \E i \in 1..Len(ledger) : ledger[i] = PaymentLog

LifecycleInv == TypeOK /\ Progress /\ SpendsWhatLanded /\ Balances /\ Ledger

------------------------------------------------------------------------------
(* It holds, and every step preserves it *)

LEMMA LifecycleInvInit == Init => LifecycleInv
<1> SUFFICES ASSUME Init PROVE LifecycleInv
  OBVIOUS
<1>1. TypeOK
  <2>1. sigs = <<>> /\ ledger = <<>> /\ matched = {} /\ dust = 0
    BY DEF Init
  <2>2. Cardinality(matched) <= 1
    BY <2>1, FS_EmptySet
  <2>3. DOMAIN sigs = {}
    BY <2>1
  <2>4. pc \in Places /\ late \in BOOLEAN /\ calm \in BOOLEAN
    BY DEF Init, Places, Wallets
  <2>5. /\ txs \in [Txs -> {"unsent", "sent", "landed", "failed", "expired"}]
        /\ balance \in [Wallets \cup {"stealth"} -> Nat]
        /\ before \in [stealth : Nat, recipient : Nat]
    BY DEF Init
  <2>6. dust \in 0..MaxDust
    BY <2>1, LifecycleConstants
  <2> QED
    BY <2>2, <2>3, <2>4, <2>5, <2>6 DEF TypeOK
<1>2. Progress
  BY DEF Init, Progress, IsLanded, IsUnsent, AfterAirdrop, AfterPayment, BeforeAirdrop,
         BeforePayment, BeforeSweep, Txs, Wallets, Done
<1>3. SpendsWhatLanded /\ Balances
  BY LifecycleConstants DEF Init, SpendsWhatLanded, Balances, Moved, Burnt, IsLanded, IsUnsent, Txs, Wallets
<1>4. Ledger
  BY EmptySeq DEF Init, Ledger, IsLanded, Txs, Wallets
<1> QED
  BY <1>1, <1>2, <1>3, <1>4 DEF LifecycleInv

\* A line of text more leaves the lines before it, and the places listed.
LEMMA LedgerGrows ==
  ASSUME Ledger, NEW lines \in Strangers \cup {PaymentLog}, ledger' = Append(ledger, lines),
         UNCHANGED sigs
  PROVE  /\ ledger' \in Seq(Strangers \cup {PaymentLog}) /\ Len(ledger') = Len(ledger) + 1
         /\ \A i \in 1..Len(ledger) : ledger'[i] = ledger[i] /\ i \in 1..Len(ledger')
         /\ Len(ledger') \in 1..Len(ledger') /\ ledger'[Len(ledger')] = lines
         /\ sigs' \in Seq(1..Len(ledger'))
<1> DEFINE Logs == Strangers \cup {PaymentLog}
<1>1. ledger \in Seq(Logs) /\ lines \in Logs /\ sigs \in Seq(1..Len(ledger))
  BY DEF Ledger
<1> HIDE DEF Logs
<1>2. /\ ledger' \in Seq(Logs) /\ Len(ledger') = Len(ledger) + 1
      /\ \A i \in 1..Len(ledger) : ledger'[i] = ledger[i]
      /\ ledger'[Len(ledger) + 1] = lines
  BY <1>1, AppendProperties
<1>3. Len(ledger) \in Nat
  BY <1>1, LenProperties
<1>4. 1..Len(ledger) \subseteq 1..Len(ledger')
  BY <1>2, <1>3
<1>5. sigs' \in Seq(1..Len(ledger'))
  BY <1>1, <1>4, SeqMonotonic
<1> QED
  BY <1>2, <1>3, <1>4, <1>5 DEF Logs

\* Of what is listed, each is on the ledger.
LEMMA ListedIsLogged ==
  ASSUME NEW Logs, NEW logged \in Seq(Logs), NEW listed \in Seq(1..Len(logged))
  PROVE  \A i \in DOMAIN listed : listed[i] \in DOMAIN logged
<1>1. DOMAIN listed = 1..Len(listed) /\ DOMAIN logged = 1..Len(logged)
  BY LenProperties
<1> QED
  BY <1>1, ElementOfSeq

\* What a transaction does when it lands.
LEMMA LandStep ==
  ASSUME LifecycleInv, Land
  PROVE  LifecycleInv'
<1>i. TypeOK /\ Progress /\ SpendsWhatLanded /\ Balances /\ Ledger
  BY DEF LifecycleInv
<1>0. UNCHANGED <<pc, late, dust, calm, before, sigs, matched>>
  BY DEF Land
<1>1. PICK tx \in Txs :
        /\ txs[tx] = "sent"
        /\ txs' = [txs EXCEPT ![tx] = "landed"]
        /\ \/ tx \in Wallets /\ ExecuteAirdrop(tx)
           \/ tx = "payment" /\ ExecutePayment
           \/ tx = "sweep" /\ ExecuteSweep
  BY DEF Land
<1>2. /\ \A other \in Txs : txs'[other] = IF other = tx THEN "landed" ELSE txs[other]
      /\ txs' \in [Txs -> {"unsent", "sent", "landed", "failed", "expired"}]
      /\ \A other \in Txs : IsUnsent(other)' <=> IsUnsent(other)
      /\ \A other \in Txs : IsLanded(other) => IsLanded(other)'
  BY <1>i, <1>1 DEF TypeOK, IsLanded, IsUnsent
<1>t. {"sender", "recipient", "payment", "sweep"} = Txs /\ Wallets = {"sender", "recipient"}
  BY DEF Txs, Wallets
<1>b. Burnt' = Burnt /\ Burnt \in Nat
  BY <1>1, <1>2, <1>t, LifecycleConstants DEF Burnt
<1>3. Progress'
  BY <1>i, <1>0, <1>2, <1>t DEF Progress, Wallets, AfterAirdrop, BeforeAirdrop, AfterPayment, BeforePayment,
                          BeforeSweep
<1>4. SpendsWhatLanded'
  BY <1>i, <1>0, <1>2, <1>t DEF SpendsWhatLanded
<1>5. Ledger'
  <2>1. CASE tx = "payment"
    <3>1. ledger' = Append(ledger, PaymentLog) /\ UNCHANGED sigs
      BY <1>0, <1>1, <2>1 DEF ExecutePayment, Wallets
    <3> QED
      BY <1>i, <3>1, LedgerGrows DEF Ledger
  <2>2. CASE tx # "payment"
    <3>1. UNCHANGED <<ledger, sigs>> /\ IsLanded("payment")' = IsLanded("payment")
      BY <1>0, <1>1, <1>2, <1>t, <2>2 DEF ExecuteSweep, ExecuteAirdrop, IsLanded
    <3> QED
      BY <1>i, <3>1 DEF Ledger
  <2> QED
    BY <2>1, <2>2
<1>6. /\ balance["sender"] \in Nat /\ balance["stealth"] \in Nat /\ balance["recipient"] \in Nat
      /\ DOMAIN balance = {"sender", "recipient", "stealth"} /\ dust \in Nat
      /\ before.stealth \in Nat
  BY <1>i, LifecycleConstants DEF TypeOK, Wallets
<1>7. Balances' /\ balance' \in [Wallets \cup {"stealth"} -> Nat]
  <2>1. CASE tx \in Wallets
    <3>1. balance' = [balance EXCEPT ![tx] = @ + Airdrop] /\ txs[tx] = "sent"
      BY <1>1, <2>1 DEF ExecuteAirdrop, Wallets
    <3>2. CASE tx = "sender"
      <4>1. ~IsLanded("sender") /\ IsLanded("sender")'
        BY <1>2, <3>1, <3>2 DEF IsLanded
      <4>2. /\ balance'["sender"] = balance["sender"] + Airdrop
            /\ balance'["stealth"] = balance["stealth"]
            /\ balance'["recipient"] = balance["recipient"]
            /\ balance' \in [Wallets \cup {"stealth"} -> Nat]
        BY <1>i, <1>t, <1>6, <3>1, <3>2, LifecycleConstants DEF TypeOK
      <4> QED
        BY <1>i, <1>0, <1>2, <1>b, <1>t, <1>6, <3>2, <4>1, <4>2, LifecycleConstants
           DEF Balances, Moved, IsLanded, sweep_amount
    <3>3. CASE tx = "recipient"
      <4>1. ~IsLanded("recipient") /\ IsLanded("recipient")'
        BY <1>2, <3>1, <3>3 DEF IsLanded
      <4>2. /\ balance'["recipient"] = balance["recipient"] + Airdrop
            /\ balance'["stealth"] = balance["stealth"]
            /\ balance'["sender"] = balance["sender"]
            /\ balance' \in [Wallets \cup {"stealth"} -> Nat]
        BY <1>i, <1>t, <1>6, <3>1, <3>3, LifecycleConstants DEF TypeOK
      <4>3. ~IsLanded("sweep") /\ ~IsLanded("sweep")'
        BY <1>i, <1>2, <1>t, <3>1, <3>3 DEF SpendsWhatLanded, IsLanded, IsUnsent
      <4>4. balance["recipient"] = 0
        BY <1>i, <4>1, <4>3 DEF Balances, Moved
      <4>5. /\ IsLanded("sender")' <=> IsLanded("sender")
            /\ IsLanded("payment")' <=> IsLanded("payment")
        BY <1>2, <1>t, <3>3 DEF IsLanded
      <4>6. /\ balance'["recipient"] = Moved("recipient", Airdrop)' + Moved("sweep", sweep_amount)'
            /\ Moved("sender", Airdrop)' = Moved("sender", Airdrop)
            /\ Moved("payment", ONE_SOL)' = Moved("payment", ONE_SOL)
            /\ Moved("payment", ONE_SOL + TX_FEE)' = Moved("payment", ONE_SOL + TX_FEE)
            /\ Moved("sweep", before.stealth)' = Moved("sweep", before.stealth)
        BY <4>1, <4>2, <4>3, <4>4, <4>5, LifecycleConstants DEF Moved
      <4> QED
        BY <1>i, <1>0, <1>b, <4>2, <4>6 DEF Balances
    <3> QED
      BY <1>t, <2>1, <3>2, <3>3
  <2>2. CASE tx = "payment"
    <3>1. balance' = [balance EXCEPT !["sender"] = @ - ONE_SOL - TX_FEE,
                                     !["stealth"] = @ + ONE_SOL]
      BY <1>1, <2>2 DEF ExecutePayment, Wallets
    <3>2. IsLanded("sender") /\ txs["payment"] = "sent"
      BY <1>i, <1>1, <2>2 DEF SpendsWhatLanded, IsUnsent
    <3> QED
      BY <1>i, <1>0, <1>1, <1>2, <1>b, <1>t, <1>6, <2>2, <3>1, <3>2, LifecycleConstants
         DEF Balances, TypeOK, Moved, IsLanded, sweep_amount
  <2>3. CASE tx = "sweep"
    <3>1. balance' = [balance EXCEPT !["stealth"] = @ - sweep_amount - TX_FEE,
                                     !["recipient"] = @ + sweep_amount]
      BY <1>1, <2>3 DEF ExecuteSweep, SweepLeaves, Wallets
    <3>2. /\ IsLanded("payment") /\ IsLanded("recipient") /\ txs["sweep"] = "sent"
          /\ ONE_SOL <= before.stealth /\ before.stealth <= ONE_SOL + dust
      BY <1>i, <1>1, <2>3 DEF SpendsWhatLanded, IsUnsent
    <3>3. /\ IsLanded("sweep")' /\ ~IsLanded("sweep") /\ sweep_amount' = sweep_amount
          /\ \A other \in {"sender", "recipient", "payment"} : IsLanded(other)' <=> IsLanded(other)
      BY <1>0, <1>2, <1>t, <2>3, <3>2 DEF IsLanded, sweep_amount
    <3>4. sweep_amount = before.stealth - TX_FEE /\ sweep_amount \in Nat
      BY <1>6, <3>2, LifecycleConstants DEF sweep_amount
    <3>5. /\ balance'["sender"] = balance["sender"]
          /\ balance'["stealth"] = balance["stealth"] - sweep_amount - TX_FEE
          /\ balance'["recipient"] = balance["recipient"] + sweep_amount
          /\ DOMAIN balance' = {"sender", "recipient", "stealth"}
      BY <1>i, <1>6, <3>1 DEF TypeOK
    <3>6. balance["stealth"] = dust + ONE_SOL - Burnt /\ Burnt = 0
      <4>1. Burnt = 0
        BY <3>2 DEF Burnt
      <4> QED
        BY <1>i, <1>6, <3>2, <3>3, <4>1, LifecycleConstants DEF Balances, Moved
    <3>7. Balances'
      BY <1>i, <1>0, <1>6, <1>b, <3>2, <3>3, <3>4, <3>5, LifecycleConstants DEF Balances, Moved
    <3>8. balance'["stealth"] \in Nat /\ balance'["recipient"] \in Nat
      BY <1>6, <3>2, <3>4, <3>5, <3>6, LifecycleConstants
    <3> QED
      BY <1>i, <1>6, <3>1, <3>5, <3>7, <3>8 DEF TypeOK, Wallets
  <2> QED
    BY <1>1, <2>1, <2>2, <2>3
<1>8. TypeOK'
  <2>1. ledger' \in Seq(Strangers \cup {PaymentLog}) /\ sigs' \in Seq(1..Len(ledger'))
    BY <1>5 DEF Ledger
  <2>2. \A i \in DOMAIN sigs' : sigs'[i] \in DOMAIN ledger'
    BY <2>1, ListedIsLogged
  <2> QED
    BY <1>i, <1>0, <1>2, <1>7, <2>2 DEF TypeOK
<1> QED
  BY <1>3, <1>4, <1>5, <1>7, <1>8 DEF LifecycleInv

\* The cluster's other steps, and time that passes.
LEMMA ClusterStep ==
  ASSUME LifecycleInv, SweepFails \/ Expire \/ StrangerPosts \/ StrangerPays \/ Tick
  PROVE  LifecycleInv'
<1>i. TypeOK /\ Progress /\ SpendsWhatLanded /\ Balances /\ Ledger
  BY DEF LifecycleInv
<1>0. UNCHANGED <<pc, calm, before, sigs, matched>>
  BY DEF SweepFails, Expire, StrangerPosts, StrangerPays, Tick
<1>1. Ledger'
  <2>1. CASE UNCHANGED ledger
    <3>1. IsLanded("payment")' => IsLanded("payment")
      <4>1. CASE Expire
        <5>1. PICK tx \in Txs : txs' = [txs EXCEPT ![tx] = "expired"]
          BY <4>1 DEF Expire
        <5>2. "payment" \in Txs
          BY DEF Txs
        <5> QED
          BY <1>i, <5>1, <5>2 DEF TypeOK, IsLanded
      <4>2. CASE SweepFails
        BY <1>i, <4>2 DEF SweepFails, TypeOK, IsLanded, Txs
      <4> QED
        BY <4>1, <4>2 DEF StrangerPosts, StrangerPays, Tick, IsLanded
    <3> QED
      BY <1>i, <1>0, <2>1, <3>1 DEF Ledger
  <2>2. CASE StrangerPosts
    <3>1. PICK lines \in Strangers : ledger' = Append(ledger, lines) /\ txs' = txs
      BY <2>2 DEF StrangerPosts
    <3> QED
      BY <1>i, <1>0, <3>1, LedgerGrows DEF Ledger, IsLanded
  <2> QED
    BY <2>1, <2>2 DEF SweepFails, Expire, StrangerPays, Tick
<1>2. \A i \in DOMAIN sigs' : sigs'[i] \in DOMAIN ledger'
  <2>1. ledger' \in Seq(Strangers \cup {PaymentLog}) /\ sigs' \in Seq(1..Len(ledger'))
    BY <1>1 DEF Ledger
  <2> QED
    BY <2>1, ListedIsLogged
<1>3. CASE Expire
  <2>1. UNCHANGED <<pc, late, ledger, balance, dust, calm, before, sigs, matched>>
    BY <1>3 DEF Expire
  <2>2. PICK tx \in Txs : txs[tx] = "sent" /\ txs' = [txs EXCEPT ![tx] = "expired"]
    BY <1>3 DEF Expire
  <2>3. /\ txs' \in [Txs -> {"unsent", "sent", "landed", "failed", "expired"}]
        /\ \A other \in Txs : (IsUnsent(other)' <=> IsUnsent(other)) /\ (IsLanded(other)' <=> IsLanded(other))
    BY <1>i, <2>2 DEF TypeOK, IsLanded, IsUnsent
  <2>4. {"sender", "recipient", "payment", "sweep"} = Txs /\ Wallets = {"sender", "recipient"}
    BY DEF Txs, Wallets
  <2>5. Progress' /\ SpendsWhatLanded'
    BY <1>i, <2>1, <2>3, <2>4 DEF Progress, SpendsWhatLanded, AfterAirdrop, AfterPayment, BeforeAirdrop,
                                  BeforePayment, BeforeSweep, Wallets
  <2>6. Burnt' = Burnt
    BY <1>i, <2>2, <2>4 DEF Burnt, TypeOK
  <2>7. Balances'
    BY <1>i, <2>1, <2>3, <2>4, <2>6 DEF Balances, Moved, sweep_amount
  <2> QED
    BY <1>i, <1>1, <1>2, <2>1, <2>3, <2>5, <2>7 DEF LifecycleInv, TypeOK
<1>4. CASE StrangerPosts \/ Tick
  <2>1. UNCHANGED <<pc, txs, balance, dust, calm, before, matched>> /\ late' \in BOOLEAN
    BY <1>i, <1>4 DEF StrangerPosts, Tick, TypeOK
  <2> QED
    BY <1>i, <1>1, <1>2, <2>1 DEF LifecycleInv, TypeOK, Progress, SpendsWhatLanded, Balances, Moved, Burnt,
      IsLanded, IsUnsent, sweep_amount
<1>5. CASE StrangerPays
  <2>0. dust \in 0..MaxDust /\ dust \in Nat /\ MaxDust \in Nat
    BY <1>i, LifecycleConstants DEF TypeOK
  <2>1. PICK gift \in 1..(MaxDust - dust) :
          /\ dust' = dust + gift
          /\ balance' = [balance EXCEPT !["stealth"] = @ + gift]
          /\ UNCHANGED <<pc, late, txs, ledger, calm, before, sigs, matched>>
    BY <1>5 DEF StrangerPays
  <2>2. /\ gift \in Nat /\ dust \in Nat /\ dust' \in 0..MaxDust
        /\ balance["stealth"] \in Nat /\ before.stealth \in Nat
        /\ balance' \in [Wallets \cup {"stealth"} -> Nat]
        /\ balance'["stealth"] = balance["stealth"] + gift
        /\ balance'["sender"] = balance["sender"]
        /\ balance'["recipient"] = balance["recipient"]
    BY <1>i, <2>0, <2>1, LifecycleConstants DEF TypeOK, Wallets
  <2>3. Progress'
    BY <1>i, <2>1 DEF Progress, IsLanded, IsUnsent
  <2>4. SpendsWhatLanded'
    BY <1>i, <2>1, <2>2, LifecycleConstants DEF SpendsWhatLanded, IsLanded, IsUnsent
  <2>5. Balances'
    <3>1. /\ Moved("sender", Airdrop)' = Moved("sender", Airdrop)
          /\ Moved("payment", ONE_SOL + TX_FEE)' = Moved("payment", ONE_SOL + TX_FEE)
          /\ Moved("payment", ONE_SOL)' = Moved("payment", ONE_SOL)
          /\ Moved("sweep", before.stealth)' = Moved("sweep", before.stealth)
          /\ Moved("recipient", Airdrop)' = Moved("recipient", Airdrop)
          /\ Moved("sweep", sweep_amount)' = Moved("sweep", sweep_amount)
          /\ Burnt' = Burnt
      BY <2>1 DEF Moved, Burnt, IsLanded, sweep_amount
    <3>2. Moved("payment", ONE_SOL) \in Nat /\ Moved("sweep", before.stealth) \in Nat /\ Burnt \in Nat
      BY <2>2, LifecycleConstants DEF Moved, Burnt
    <3>3. balance'["stealth"] = dust + gift + Moved("payment", ONE_SOL) - Moved("sweep", before.stealth) - Burnt
      BY <1>i, <2>2, <3>2 DEF Balances
    <3> QED
      BY <1>i, <2>1, <2>2, <3>1, <3>3 DEF Balances
  <2> QED
    BY <1>i, <1>1, <1>2, <2>1, <2>2, <2>3, <2>4, <2>5 DEF LifecycleInv, TypeOK
<1>6. CASE SweepFails
  <2>1. /\ txs["sweep"] = "sent" /\ txs' = [txs EXCEPT !["sweep"] = "failed"]
        /\ balance' = [balance EXCEPT !["stealth"] = @ - TX_FEE]
        /\ UNCHANGED <<pc, late, ledger, dust, calm, before, sigs, matched>>
    BY <1>6 DEF SweepFails
  <2>2. {"sender", "recipient", "payment", "sweep"} = Txs /\ Wallets = {"sender", "recipient"}
    BY DEF Txs, Wallets
  <2>3. /\ txs' \in [Txs -> {"unsent", "sent", "landed", "failed", "expired"}]
        /\ \A other \in Txs : (IsUnsent(other)' <=> IsUnsent(other)) /\ (IsLanded(other)' <=> IsLanded(other))
        /\ txs'["sweep"] = "failed"
    BY <1>i, <2>1, <2>2 DEF TypeOK, IsLanded, IsUnsent
  <2>4. Progress' /\ SpendsWhatLanded'
    BY <1>i, <2>1, <2>2, <2>3 DEF Progress, SpendsWhatLanded, AfterAirdrop, AfterPayment, BeforeAirdrop,
                                  BeforePayment, BeforeSweep, Wallets
  <2>5. /\ IsLanded("payment") /\ ~IsLanded("sweep") /\ Burnt = 0 /\ Burnt' = TX_FEE
        /\ dust \in Nat
    BY <1>i, <2>1, <2>3, LifecycleConstants DEF SpendsWhatLanded, IsLanded, IsUnsent, Burnt, TypeOK
  <2>6. balance["stealth"] = dust + ONE_SOL
    BY <1>i, <2>5, LifecycleConstants DEF Balances, Moved
  <2>7. /\ balance'["stealth"] = dust + ONE_SOL - TX_FEE
        /\ balance'["sender"] = balance["sender"] /\ balance'["recipient"] = balance["recipient"]
        /\ balance' \in [Wallets \cup {"stealth"} -> Nat]
    BY <1>i, <2>1, <2>2, <2>5, <2>6, LifecycleConstants DEF TypeOK
  <2>8. Balances'
    <3>1. /\ Moved("sender", Airdrop)' = Moved("sender", Airdrop)
          /\ Moved("payment", ONE_SOL + TX_FEE)' = Moved("payment", ONE_SOL + TX_FEE)
          /\ Moved("recipient", Airdrop)' = Moved("recipient", Airdrop)
          /\ Moved("sweep", sweep_amount)' = Moved("sweep", sweep_amount)
          /\ Moved("payment", ONE_SOL)' = ONE_SOL /\ Moved("sweep", before.stealth)' = 0
      BY <2>1, <2>2, <2>3, <2>5 DEF Moved, sweep_amount
    <3>2. dust' = dust
      BY <2>1
    <3>3. balance'["stealth"] = dust' + ONE_SOL - 0 - TX_FEE
      BY <2>5, <2>7, <3>2, LifecycleConstants
    <3> QED
      BY <1>i, <2>5, <2>7, <3>1, <3>3 DEF Balances
  <2> QED
    BY <1>i, <1>1, <1>2, <2>1, <2>3, <2>4, <2>7, <2>8 DEF LifecycleInv, TypeOK
<1> QED
  BY <1>3, <1>4, <1>5, <1>6

\* A step of main that sends nothing, from a place to one that presupposes no more.
LEMMA MovesOn ==
  ASSUME LifecycleInv, UNCHANGED <<txs, ledger, balance, dust, calm, before>>,
         pc' \in Places, late' \in BOOLEAN, sigs' \in Seq(1..Len(ledger)),
         Cardinality(matched') <= 1, Progress'
  PROVE  LifecycleInv'
<1>i. TypeOK /\ Progress /\ SpendsWhatLanded /\ Balances /\ Ledger
  BY DEF LifecycleInv
<1>1. Ledger'
  BY <1>i DEF Ledger, IsLanded
<1>2. \A i \in DOMAIN sigs' : sigs'[i] \in DOMAIN ledger'
  BY <1>i, ListedIsLogged DEF Ledger
<1>3. TypeOK'
  BY <1>i, <1>2 DEF TypeOK
<1> QED
  BY <1>i, <1>1, <1>3 DEF LifecycleInv, SpendsWhatLanded, Balances, Moved, Burnt, IsLanded, IsUnsent, sweep_amount

\* What is listed are places of the ledger.
LEMMA NewestIsListed ==
  ASSUME Len(ledger) \in Nat
  PROVE  Newest \in Seq(1..Len(ledger)) /\ <<>> \in Seq(1..Len(ledger))
<1> DEFINE n == IF Len(ledger) < Limit THEN Len(ledger) ELSE Limit
           place(i) == Len(ledger) + 1 - i
<1>1. n \in Nat /\ n <= Len(ledger)
  BY LifecycleConstants
<1>2. \A i \in 1..n : place(i) \in 1..Len(ledger)
  BY <1>1
<1> HIDE DEF n
<1>3. [i \in 1..n |-> place(i)] \in Seq(1..Len(ledger))
  BY <1>1, <1>2, IsASeq
<1> QED
  BY <1>3, EmptySeq DEF Newest, n

\* A scan of a note returns at most one match.
LEMMA OneMatch ==
  ASSUME NEW lines
  PROVE  Cardinality(FirstMatch(lines)) <= 1
<1>1. ASSUME NEW ephemeral_pub, NEW view_tag
      PROVE  LET found == scan_note(Spend, Scan, ephemeral_pub, view_tag)
             IN  found = {} \/ \E m : found = {m}
  <2>1. CASE view_tag_matches(Scan, ephemeral_pub, view_tag)
    BY <2>1 DEF scan_note
  <2>2. CASE ~view_tag_matches(Scan, ephemeral_pub, view_tag)
    BY <2>2 DEF scan_note
  <2> QED
    BY <2>1, <2>2
<1>2. PICK first : FirstMatch(lines) = scan_note(Spend, Scan, first.note.ephemeral_pub, first.note.view_tag)
  BY DEF FirstMatch
<1>3. FirstMatch(lines) = {} \/ \E m : FirstMatch(lines) = {m}
  BY <1>1, <1>2
<1> QED
  <2>1. CASE FirstMatch(lines) = {}
    BY <2>1, FS_EmptySet
  <2>2. ASSUME NEW m, FirstMatch(lines) = {m}
        PROVE  Cardinality(FirstMatch(lines)) <= 1
    <3>1. Cardinality({m}) = 1
      BY FS_Singleton
    <3> QED
      BY <2>2, <3>1
  <2> QED
    BY <1>3, <2>1, <2>2

\* A step of main that sends a transaction.
LEMMA SendStep ==
  ASSUME LifecycleInv,
         (\E who \in Wallets : RequestAirdrop(who)) \/ SendPayment \/ SendSweep
  PROVE  LifecycleInv'
<1>i. TypeOK /\ Progress /\ SpendsWhatLanded /\ Balances /\ Ledger
  BY DEF LifecycleInv
<1>t. {"sender", "recipient", "payment", "sweep"} = Txs /\ Wallets = {"sender", "recipient"}
  BY DEF Txs, Wallets
<1>0. UNCHANGED <<ledger, balance, dust, calm, sigs, matched>>
  BY DEF RequestAirdrop, SendPayment, SendSweep
<1>1. ASSUME NEW tx \in Txs, IsUnsent(tx), Send(tx)
      PROVE  /\ txs' \in [Txs -> {"unsent", "sent", "landed", "failed", "expired"}]
             /\ ~IsUnsent(tx)' /\ ~IsLanded(tx)'
             /\ \A other \in Txs : IsLanded(other)' <=> IsLanded(other)
             /\ \A other \in Txs \ {tx} : IsUnsent(other)' <=> IsUnsent(other)
             /\ Burnt' = Burnt
  <2>1. "sweep" \in Txs /\ txs' = [txs EXCEPT ![tx] = "sent"] /\ txs[tx] = "unsent"
    BY <1>1 DEF Send, Txs, IsUnsent
  <2>2. Burnt' = Burnt
    BY <1>i, <2>1 DEF TypeOK, Burnt
  <2> QED
    BY <1>i, <2>1, <2>2 DEF TypeOK, IsLanded, IsUnsent
<1>2. ASSUME NEW who \in Wallets, RequestAirdrop(who)
      PROVE  LifecycleInv'
  <2>1. /\ pc = <<"airdrop", who>> /\ pc' = <<"confirm airdrop", who>> /\ late' = FALSE
        /\ Send(who) /\ before' = before
    BY <1>2 DEF RequestAirdrop, At, Goto
  <2>2. who \in Txs /\ IsUnsent(who)
    BY <1>i, <1>t, <2>1 DEF Progress, BeforeAirdrop
  <2>3. Progress'
    BY <1>i, <1>t, <1>1, <2>1, <2>2 DEF Progress, AfterAirdrop, AfterPayment, BeforeAirdrop,
                                        BeforePayment, BeforeSweep, Done
  <2>4. SpendsWhatLanded'
    BY <1>i, <1>0, <1>t, <1>1, <2>1, <2>2 DEF SpendsWhatLanded
  <2>5. Balances' /\ Ledger'
    BY <1>i, <1>0, <1>t, <1>1, <2>1, <2>2 DEF Balances, Ledger, Moved, sweep_amount
  <2>6. TypeOK'
    BY <1>i, <1>0, <1>1, <2>1, <2>2 DEF TypeOK, Places
  <2> QED
    BY <2>3, <2>4, <2>5, <2>6 DEF LifecycleInv
<1>3. CASE SendPayment
  <2>1. /\ pc = <<"send", "payment">> /\ pc' = <<"confirm", "payment">> /\ late' = FALSE
        /\ Send("payment") /\ before' = before
    BY <1>3 DEF SendPayment, At, Goto
  <2>2. "payment" \in Txs /\ IsUnsent("payment") /\ IsLanded("sender") /\ IsLanded("recipient")
    BY <1>i, <1>t, <2>1 DEF Progress, BeforePayment, AfterAirdrop
  <2>3. Progress'
    BY <1>i, <1>t, <1>1, <2>1, <2>2 DEF Progress, AfterAirdrop, AfterPayment, BeforeAirdrop,
                                        BeforePayment, BeforeSweep, Done
  <2>4. SpendsWhatLanded'
    BY <1>i, <1>0, <1>t, <1>1, <2>1, <2>2 DEF SpendsWhatLanded
  <2>5. Balances' /\ Ledger'
    BY <1>i, <1>0, <1>t, <1>1, <2>1, <2>2 DEF Balances, Ledger, Moved, sweep_amount
  <2>6. TypeOK'
    BY <1>i, <1>0, <1>1, <2>1, <2>2 DEF TypeOK, Places
  <2> QED
    BY <2>3, <2>4, <2>5, <2>6 DEF LifecycleInv
<1>4. CASE SendSweep /\ SweepAsserts
  <2>1. /\ pc = <<"send", "sweep">> /\ pc' = <<"confirm", "sweep">> /\ late' = FALSE
        /\ Send("sweep")
        /\ before' = [stealth |-> balance["stealth"], recipient |-> balance["recipient"]]
    BY <1>4 DEF SendSweep, At, Goto
  <2>2. /\ "sweep" \in Txs /\ IsUnsent("sweep") /\ ~IsLanded("sweep")
        /\ IsLanded("payment") /\ IsLanded("sender") /\ IsLanded("recipient")
    BY <1>i, <1>t, <2>1 DEF Progress, BeforeSweep, AfterPayment, AfterAirdrop, IsUnsent, IsLanded
  <2>3. Progress'
    BY <1>i, <1>t, <1>1, <2>1, <2>2 DEF Progress, AfterAirdrop, AfterPayment, BeforeAirdrop,
                                        BeforePayment, BeforeSweep, Done
  <2>4. dust \in Nat /\ before'.stealth = ONE_SOL + dust
    <3>1. Burnt = 0
      BY <2>2 DEF Burnt, IsUnsent
    <3> QED
      BY <1>i, <2>1, <2>2, <3>1, LifecycleConstants DEF Balances, Moved, TypeOK
  <2>5. SpendsWhatLanded'
    BY <1>i, <1>0, <1>t, <1>1, <2>1, <2>2, <2>4, LifecycleConstants DEF SpendsWhatLanded
  <2>6. Balances' /\ Ledger'
    BY <1>i, <1>0, <1>t, <1>1, <2>1, <2>2 DEF Balances, Ledger, Moved
  <2>7. TypeOK'
    BY <1>i, <1>0, <1>t, <1>1, <2>1, <2>2 DEF TypeOK, Places
  <2> QED
    BY <2>3, <2>5, <2>6, <2>7 DEF LifecycleInv
<1>5. CASE SendSweep /\ ~SweepAsserts
  <2>1. UNCHANGED <<txs, before>> /\ pc' = Panicked /\ late' = FALSE
    BY <1>5 DEF SendSweep, Goto, Panicked
  <2>2. Progress'
    BY <2>1, <1>t DEF Progress, AfterAirdrop, AfterPayment, BeforeAirdrop, BeforePayment,
                      BeforeSweep, Done, Panicked
  <2>3. pc' \in Places
    BY <2>1 DEF Places
  <2> QED
    BY <1>i, <1>0, <2>1, <2>2, <2>3, MovesOn DEF Ledger, TypeOK
<1> QED
  BY <1>2, <1>3, <1>4, <1>5

\* A step of main that looks, waits or gives up.
LEMMA LookStep ==
  ASSUME LifecycleInv,
         \/ \E who \in Wallets : SeeAirdrop(who) \/ SeeBalance(who)
         \/ AirdropTimesOut \/ Fail \/ CheckPayment \/ CheckSweep
         \/ \E tx \in {"payment", "sweep"} : Confirm(tx)
         \/ List \/ Skip \/ Match \/ PassEnds
  PROVE  LifecycleInv'
<1>i. TypeOK /\ Progress /\ Ledger
  BY DEF LifecycleInv
<1>0. UNCHANGED <<txs, ledger, balance, dust, calm, before>>
  BY DEF SeeAirdrop, SeeBalance, AirdropTimesOut, Fail, CheckPayment, CheckSweep, Confirm, List, Skip,
         Match, PassEnds
<1>1. late' \in BOOLEAN
  BY <1>i DEF SeeAirdrop, SeeBalance, AirdropTimesOut, Fail, CheckPayment, CheckSweep, Confirm, List,
              Skip, Match, PassEnds, Goto, TypeOK
<1>2. sigs' \in Seq(1..Len(ledger))
  <2>1. CASE List
    BY <1>i, <2>1, NewestIsListed, LenProperties DEF List, Ledger
  <2>2. CASE Skip
    BY <1>i, <2>2, HeadTailProperties DEF Skip, Ledger
  <2> QED
    BY <1>i, <2>1, <2>2 DEF SeeAirdrop, SeeBalance, AirdropTimesOut, Fail, CheckPayment, CheckSweep,
                            Confirm, Match, PassEnds, Ledger
<1>3. Cardinality(matched') <= 1
  <2>1. CASE Match
    BY <2>1, OneMatch DEF Match
  <2> QED
    BY <1>i, <2>1 DEF SeeAirdrop, SeeBalance, AirdropTimesOut, Fail, CheckPayment, CheckSweep,
                      Confirm, List, Skip, PassEnds, TypeOK
<1>4. pc' \in Places /\ Progress'
  <2>1. CASE AirdropTimesOut \/ Fail \/ pc' = Panicked
    <3>1. pc' = Panicked
      BY <2>1 DEF AirdropTimesOut, Fail, Goto, Panicked
    <3> QED
      BY <3>1 DEF Places, Progress, AfterAirdrop, AfterPayment, BeforeAirdrop, BeforePayment,
                  BeforeSweep, Wallets, Done, Panicked
  <2>2. ASSUME NEW who \in Wallets, SeeAirdrop(who)
        PROVE  pc' \in Places /\ Progress'
    <3>1. /\ pc = <<"confirm airdrop", who>> /\ pc' = <<"await balance", who>> /\ IsLanded(who)
      BY <2>2 DEF SeeAirdrop, At, Goto, IsLanded
    <3> QED
      BY <1>i, <1>0, <3>1 DEF Places, Progress, AfterAirdrop, AfterPayment, BeforeAirdrop,
                              BeforePayment, BeforeSweep, Wallets, Done, IsLanded, IsUnsent
  <2>3. ASSUME NEW who \in Wallets, SeeBalance(who)
        PROVE  pc' \in Places /\ Progress'
    <3>1. /\ pc = <<"await balance", who>>
          /\ pc' = IF who = "sender" THEN <<"airdrop", "recipient">> ELSE <<"send", "payment">>
      BY <2>3 DEF SeeBalance, At, Goto
    <3> QED
      BY <1>i, <1>0, <3>1 DEF Places, Progress, AfterAirdrop, AfterPayment, BeforeAirdrop,
                              BeforePayment, BeforeSweep, Wallets, Done, IsLanded, IsUnsent
  <2>4. ASSUME NEW tx \in {"payment", "sweep"}, Confirm(tx), pc' # Panicked
        PROVE  pc' \in Places /\ Progress'
    <3>1. pc = <<"confirm", tx>> /\ pc' = <<"check", tx>> /\ IsLanded(tx)
      BY <2>4 DEF Confirm, At, Goto, IsLanded, Panicked
    <3> QED
      BY <1>i, <1>0, <3>1 DEF Places, Progress, AfterAirdrop, AfterPayment, BeforeAirdrop,
                              BeforePayment, BeforeSweep, Wallets, Done, IsLanded, IsUnsent
  <2>5. CASE CheckPayment /\ pc' # Panicked
    <3>1. pc = <<"check", "payment">> /\ pc' = <<"list", "all">>
      BY <2>5 DEF CheckPayment, At, Goto, Panicked
    <3> QED
      BY <1>i, <1>0, <3>1 DEF Places, Progress, AfterAirdrop, AfterPayment, BeforeAirdrop,
                              BeforePayment, BeforeSweep, Wallets, Done, IsLanded, IsUnsent
  <2>6. CASE CheckSweep /\ pc' # Panicked
    <3>1. pc = <<"check", "sweep">> /\ pc' = Done
      BY <2>6 DEF CheckSweep, At, Goto, Panicked, Done
    <3> QED
      BY <1>i, <1>0, <3>1 DEF Places, Progress, AfterAirdrop, AfterPayment, BeforeAirdrop,
                              BeforePayment, BeforeSweep, Wallets, Done, IsLanded, IsUnsent
  <2>7. CASE (List \/ Skip \/ Match \/ PassEnds) /\ pc' # Panicked
    <3>1. /\ pc \in {<<"list", "all">>, <<"look", "all">>}
          /\ pc' \in {<<"list", "all">>, <<"look", "all">>, <<"send", "sweep">>}
      BY <2>7 DEF List, Skip, Match, PassEnds, At, Goto, Panicked
    <3>2. /\ IsLanded("sender") /\ IsLanded("recipient") /\ IsLanded("payment")
          /\ IsUnsent("sweep")
      BY <1>i, <3>1 DEF Progress, AfterAirdrop, AfterPayment, BeforeSweep, Wallets
    <3>3. /\ IsLanded("sender")' /\ IsLanded("recipient")' /\ IsLanded("payment")'
          /\ IsUnsent("sweep")'
      BY <1>0, <3>2 DEF IsLanded, IsUnsent
    <3>4. CASE pc' = <<"list", "all">>
      BY <3>3, <3>4 DEF Places, Progress, BeforeAirdrop, BeforePayment, Wallets
    <3>5. CASE pc' = <<"look", "all">>
      BY <3>3, <3>5 DEF Places, Progress, BeforeAirdrop, BeforePayment, Wallets
    <3>6. CASE pc' = <<"send", "sweep">>
      BY <3>3, <3>6 DEF Places, Progress, BeforeAirdrop, BeforePayment, Wallets
    <3> QED
      BY <3>1, <3>4, <3>5, <3>6
  <2> QED
    BY <2>1, <2>2, <2>3, <2>4, <2>5, <2>6, <2>7
<1> QED
  BY <1>0, <1>1, <1>2, <1>3, <1>4, MovesOn

LEMMA LifecycleInvStep == LifecycleInv /\ [Next]_vars => LifecycleInv'
<1> SUFFICES ASSUME LifecycleInv, [Next]_vars PROVE LifecycleInv'
  OBVIOUS
<1>1. CASE Main
  BY <1>1, SendStep, LookStep DEF Main
<1>2. CASE Land \/ SweepFails \/ Expire \/ StrangerPosts \/ StrangerPays \/ Tick
  BY <1>2, LandStep, ClusterStep
<1>3. CASE Ended \/ UNCHANGED vars
  <2>1. UNCHANGED vars /\ Burnt' = Burnt
    BY <1>3 DEF Ended, vars, Burnt
  <2> QED
    BY <2>1 DEF vars, LifecycleInv, TypeOK, Progress, SpendsWhatLanded, Balances, Ledger, Moved,
                IsLanded, IsUnsent, sweep_amount
<1> QED
  BY <1>1, <1>2, <1>3 DEF Next

LEMMA LifecycleInvHolds == Spec => []LifecycleInv
  BY LifecycleInvInit, LifecycleInvStep, PTL DEF Spec

------------------------------------------------------------------------------
(* Theorems *)

\* Types; no balance is ever negative, and what the search has yet to look at is on the
\* ledger.
THEOREM LifecycleTypes == Spec => []TypeOK
<1>1. LifecycleInv => TypeOK
  BY DEF LifecycleInv
<1> QED
  BY <1>1, LifecycleInvHolds, PTL

\* The transfer and the post are one transaction: whenever main stops or the cluster drops
\* a transaction, value at the stealth address has its note on the ledger.
THEOREM DemoValueHasItsNote == Spec => []ValueHasItsNote
<1>1. LifecycleInv => ValueHasItsNote
  <2> SUFFICES ASSUME LifecycleInv, balance["stealth"] > dust
               PROVE  \E i \in DOMAIN ledger : \E j \in DOMAIN ledger[i] : ledger[i][j] = PaymentLog[2]
    BY DEF ValueHasItsNote
  <2>i. TypeOK /\ SpendsWhatLanded /\ Balances /\ Ledger
    BY DEF LifecycleInv
  <2>1. IsLanded("payment")
    <3> SUFFICES ASSUME ~IsLanded("payment") PROVE FALSE
      OBVIOUS
    <3>1. ~IsLanded("sweep")
      BY <2>i DEF SpendsWhatLanded, IsLanded, IsUnsent
    <3>2. balance["stealth"] = dust /\ dust \in Nat
      BY <2>i, <3>1, LifecycleConstants DEF Balances, Moved, Burnt, TypeOK
    <3> QED
      BY <3>2
  <2>2. PICK i \in DOMAIN ledger : ledger[i] = PaymentLog
    BY <2>i, <2>1, LenProperties DEF Ledger
  <2>3. 2 \in DOMAIN PaymentLog
    BY DEF PaymentLog
  <2> QED
    BY <2>2, <2>3
<1> QED
  BY <1>1, LifecycleInvHolds, PTL

\* The sweep moves all that was there when the balance was read, the fee included, so
\* nothing of the payment stays behind, and no lamport comes from nowhere.
THEOREM DemoLeavesNothingBehind == Spec => []NothingLeftBehind
<1>1. LifecycleInv => NothingLeftBehind
  <2> SUFFICES ASSUME LifecycleInv, IsLanded("sweep") PROVE NothingLeftBehind
    BY DEF NothingLeftBehind, IsLanded
  <2>i. TypeOK /\ SpendsWhatLanded /\ Balances
    BY DEF LifecycleInv
  <2>1. /\ IsLanded("payment") /\ IsLanded("recipient") /\ ONE_SOL <= before.stealth
    BY <2>i DEF SpendsWhatLanded, IsLanded, IsUnsent
  <2>2. dust \in Nat /\ before.stealth \in Nat
    BY <2>i, LifecycleConstants DEF TypeOK
  <2>3. Burnt = 0
    BY DEF Burnt, IsLanded
  <2>4. /\ balance["stealth"] = dust + ONE_SOL - before.stealth
        /\ balance["recipient"] = Airdrop + (before.stealth - TX_FEE)
    BY <2>i, <2>1, <2>2, <2>3, LifecycleConstants DEF Balances, Moved, sweep_amount
  <2> QED
    BY <2>1, <2>2, <2>4, LifecycleConstants DEF NothingLeftBehind
<1> QED
  BY <1>1, LifecycleInvHolds, PTL
==============================================================================
