--------------------------- MODULE RegistryProofs ----------------------------
(***************************************************************************)
(* Theorems about Registry, for every value of its constants.              *)
(***************************************************************************)
EXTENDS RegistryInvariant, SequenceTheorems, FiniteSetTheorems, TLAPS

Transaction ==
  [err : BOOLEAN, logs : Seq(LogItem), signers : SUBSET Registrants, accounts : AccountState]

------------------------------------------------------------------------------
(* Items and ledgers *)

\* One more item that starts where the others lead to.
LEMMA LeadsAppend ==
  ASSUME NEW items \in Seq(LogItem), NEW item \in LogItem, NEW first,
         Leads(first, items, item.before), Sound(items),
         item.after = ApplyEvent(item.before, item.event)
  PROVE  /\ Append(items, item) \in Seq(LogItem)
         /\ Leads(first, Append(items, item), item.after)
         /\ Sound(Append(items, item))
<1> DEFINE longer == Append(items, item)
<1>1. /\ longer \in Seq(LogItem) /\ Len(longer) = Len(items) + 1 /\ Len(items) \in Nat
      /\ \A i \in 1..Len(items) : longer[i] = items[i]
      /\ longer[Len(items) + 1] = item
  BY AppendProperties, LenProperties
<1>2. longer # <<>>
  BY <1>1, EmptySeq
<1> HIDE DEF longer
<1>3. Sound(longer)
  BY <1>1 DEF Sound
<1>4. CASE items = <<>>
  <2>1. Len(items) = 0
    BY <1>4
  <2> QED
    BY <1>1, <1>2, <1>3, <1>4, <2>1 DEF Leads, longer
<1>5. CASE items # <<>>
  <2>1. Len(items) > 0
    BY <1>1, <1>5, EmptySeq
  <2>2. longer[1].before = first /\ longer[Len(longer)].after = item.after
    BY <1>1, <1>5, <2>1 DEF Leads
  <2>3. ASSUME NEW i \in 1..(Len(longer) - 1)
        PROVE  longer[i].after = longer[i + 1].before
    <3>1. CASE i = Len(items)
      BY <1>1, <1>5, <2>1, <3>1 DEF Leads
    <3>2. CASE i # Len(items)
      <4>1. i \in 1..(Len(items) - 1) /\ i \in 1..Len(items) /\ i + 1 \in 1..Len(items)
        BY <1>1, <3>2
      <4> QED
        BY <1>1, <1>5, <4>1 DEF Leads
    <3> QED
      BY <3>1, <3>2
  <2> QED
    BY <1>1, <1>2, <1>3, <2>2, <2>3 DEF Leads, longer
<1> QED
  BY <1>4, <1>5

\* The first item taken off.
LEMMA LeadsTail ==
  ASSUME NEW items \in Seq(LogItem), items # <<>>, NEW first, NEW last,
         Leads(first, items, last), Sound(items)
  PROVE  /\ items[1] \in LogItem
         /\ Tail(items) \in Seq(LogItem)
         /\ items[1].before = first
         /\ items[1].after = ApplyEvent(first, items[1].event)
         /\ Leads(items[1].after, Tail(items), last)
         /\ Sound(Tail(items))
<1> DEFINE rest == Tail(items)
<1>1. /\ rest \in Seq(LogItem) /\ Len(rest) = Len(items) - 1
      /\ \A i \in 1..Len(rest) : rest[i] = items[i + 1]
  BY HeadTailProperties
<1>2. Len(items) \in Nat /\ Len(items) > 0 /\ Len(rest) \in Nat
  BY <1>1, EmptySeq, LenProperties
<1>3. 1 \in 1..Len(items) /\ \A i \in 1..Len(rest) : i + 1 \in 1..Len(items)
  BY <1>1, <1>2
<1>4. items[1] \in LogItem
  BY <1>3, ElementOfSeq
<1>5. items[1].before = first /\ items[1].after = ApplyEvent(first, items[1].event)
  BY <1>3 DEF Leads, Sound
<1> HIDE DEF rest
<1>6. Sound(rest)
  BY <1>1, <1>3 DEF Sound
<1>7. Leads(items[1].after, rest, last)
  <2>1. CASE rest = <<>>
    <3>1. Len(items) = 1
      BY <1>1, <1>2, <2>1
    <3> QED
      BY <2>1, <3>1 DEF Leads
  <2>2. CASE rest # <<>>
    <3>1. Len(rest) > 0
      BY <1>1, <1>2, <2>2, EmptySeq
    <3>2. 1 \in 1..Len(rest) /\ Len(rest) \in 1..Len(rest) /\ 1 \in 1..(Len(items) - 1)
          /\ Len(rest) + 1 = Len(items)
      BY <1>1, <1>2, <3>1
    <3>3. rest[1].before = items[1].after /\ rest[Len(rest)].after = last
      BY <1>1, <3>2 DEF Leads
    <3>4. ASSUME NEW i \in 1..(Len(rest) - 1)
          PROVE  rest[i].after = rest[i + 1].before
      <4>1. i \in 1..Len(rest) /\ i + 1 \in 1..Len(rest) /\ i + 1 \in 1..(Len(items) - 1)
        BY <1>1, <1>2
      <4> QED
        BY <1>1, <4>1 DEF Leads
    <3> QED
      BY <2>2, <3>3, <3>4 DEF Leads
  <2> QED
    BY <2>1, <2>2
<1> QED
  BY <1>1, <1>4, <1>5, <1>6, <1>7 DEF rest

\* The state before the first transaction.
LEMMA GenesisType == Genesis \in AccountState
BY RegistryConstants DEF Genesis, AccountState

\* Accounts after any transaction are accounts.
LEMMA AccountsType ==
  ASSUME ledger \in Seq(Transaction)
  PROVE  /\ \A n \in 0..Len(ledger) : AccountsAt(n) \in AccountState
         /\ Accounts \in AccountState
         /\ Len(ledger) \in Nat
<1>1. Len(ledger) \in Nat
  BY LenProperties
<1>2. ASSUME NEW n \in 0..Len(ledger)
      PROVE  AccountsAt(n) \in AccountState
  <2>1. CASE n = 0
    BY <2>1, GenesisType DEF AccountsAt
  <2>2. CASE n # 0
    <3>1. n \in 1..Len(ledger)
      BY <1>1, <2>2
    <3>2. ledger[n] \in Transaction
      BY <3>1, ElementOfSeq
    <3> QED
      BY <2>2, <3>2 DEF AccountsAt, Transaction
  <2> QED
    BY <2>1, <2>2
<1> QED
  BY <1>1, <1>2 DEF Accounts

\* The past stays when the ledger grows.
LEMMA LongerLedger ==
  ASSUME ledger \in Seq(Transaction), NEW t \in Transaction, ledger' = Append(ledger, t)
  PROVE  /\ ledger' \in Seq(Transaction)
         /\ Len(ledger') = Len(ledger) + 1
         /\ \A n \in 1..Len(ledger) : ledger'[n] = ledger[n]
         /\ ledger'[Len(ledger) + 1] = t
         /\ \A n \in 0..Len(ledger) : AccountsAt(n)' = AccountsAt(n)
         /\ \A n : n = Len(ledger) + 1 => AccountsAt(n)' = t.accounts
         /\ Accounts' = t.accounts
<1>1. /\ ledger' \in Seq(Transaction) /\ Len(ledger') = Len(ledger) + 1 /\ Len(ledger) \in Nat
      /\ \A n \in 1..Len(ledger) : ledger'[n] = ledger[n]
      /\ ledger'[Len(ledger) + 1] = t
  BY AppendProperties, LenProperties
<1>2. \A n \in 0..Len(ledger) : AccountsAt(n)' = AccountsAt(n)
  <2> TAKE n \in 0..Len(ledger)
  <2>1. n = 0 \/ n \in 1..Len(ledger)
    BY <1>1
  <2> QED
    BY <1>1, <2>1 DEF AccountsAt
<1>3. Len(ledger) + 1 # 0
  BY <1>1
<1>4. \A n : n = Len(ledger) + 1 => AccountsAt(n)' = t.accounts
  BY <1>1, <1>3 DEF AccountsAt
<1>5. Accounts' = t.accounts
  BY <1>1, <1>3 DEF AccountsAt, Accounts
<1> QED
  BY <1>1, <1>2, <1>4, <1>5

\* And is what it was when the ledger stays.
LEMMA SameLedger ==
  ASSUME ledger' = ledger
  PROVE  Accounts' = Accounts /\ \A n : AccountsAt(n)' = AccountsAt(n)
BY DEF Accounts, AccountsAt

------------------------------------------------------------------------------
(* The steps *)

\* What the invariant says stays when neither the chain nor what reads it moves.
LEMMA ChainStays ==
  ASSUME RegistryInv, UNCHANGED ledger
  PROVE  LedgerShape' /\ EveryEntryWasPut'
<1>1. ledger' = ledger /\ LedgerShape /\ EveryEntryWasPut
  BY DEF RegistryInv
<1>2. \A n : AccountsAt(n)' = AccountsAt(n)
  BY <1>1, SameLedger
<1>3. LedgerShape'
  BY <1>1, <1>2 DEF LedgerShape
<1>4. ASSUME NEW m \in 0..Len(ledger), NEW p \in Pdas, AccountsAt(m)'.entries[p] # NoEntry
      PROVE  \E n \in 1..m : PutBy(n, p, AccountsAt(m).entries[p])'
  <2>1. PICK entry : entry = AccountsAt(m).entries[p]
    OBVIOUS
  <2>2. PICK n \in 1..m : PutBy(n, p, entry)
    BY <1>1, <1>2, <1>4, <2>1 DEF EveryEntryWasPut
  <2>3. PutBy(n, p, entry)'
    BY <1>1, <1>2, <2>2 DEF PutBy
  <2>4. AccountsAt(m)'.entries[p] = entry
    BY <1>2, <2>1
  <2> QED
    BY <2>3, <2>4 DEF PutBy
<1>5. EveryEntryWasPut'
  BY <1>1, <1>4 DEF EveryEntryWasPut
<1> QED
  BY <1>3, <1>5

LEMMA TxStays ==
  ASSUME RegistryInv, UNCHANGED <<ledger, tx>>
  PROVE  TxShape'
BY SameLedger DEF RegistryInv, TxShape

LEMMA IndexerStays ==
  ASSUME RegistryInv, UNCHANGED <<ledger, pos, logs, followed>>
  PROVE  IndexerShape'
BY SameLedger DEF RegistryInv, IndexerShape

LEMMA SendersStay ==
  ASSUME RegistryInv, UNCHANGED <<ledger, senders>>
  PROVE  SendersShape' /\ RefusedForKeyOnly'
BY SameLedger DEF RegistryInv, SendersShape, PutBy, RefusedForKeyOnly

\* An instruction that sets the entry at its own address and logs just that.
LEMMA EffectKeeps ==
  ASSUME RegistryInv, NEW ix \in Instruction, NEW paid \in Int,
         NEW entry \in Entry \cup {NoEntry},
         Runs(ix), AtSeeds(ix),
         entry # NoEntry => /\ <<entry.registrant, entry.scheme_id>> = ix.entry
                            /\ entry.version = 1 /\ entry.flags = 0,
         Effect(ix, entry, paid, [pda |-> ix.entry, entry |-> entry]),
         UNCHANGED <<ledger, indexerVars, senders>>
  PROVE  RegistryInv'
<1> DEFINE old == tx.accounts.entries
           entries == [old EXCEPT ![ix.entry] = entry]
           lamports == [tx.accounts.lamports EXCEPT ![ix.registrant] = @ + paid]
           item == [event |-> [pda |-> ix.entry, entry |-> entry], before |-> old, after |-> entries]
<1>1. /\ tx.open /\ ix.registrant \in tx.signers
      /\ ix.entry \in Pdas /\ ix.entry[1] = ix.registrant /\ ix.registrant \in Registrants
  BY DEF Runs, AtSeeds, registry_pda, Instruction
<1>2. /\ tx \in [open : BOOLEAN, signers : SUBSET Registrants, logs : Seq(LogItem),
                 accounts : AccountState]
      /\ old \in EntryMap /\ tx.accounts.lamports \in [Registrants -> Int]
  BY DEF RegistryInv, TypeOK, AccountState, EntryMap
<1>3. entries \in EntryMap /\ lamports \in [Registrants -> Int]
  BY <1>1, <1>2 DEF EntryMap
<1>4. item \in LogItem
  BY <1>1, <1>2, <1>3 DEF LogItem
<1>5. tx' = [tx EXCEPT !.accounts = [entries |-> entries, lamports |-> lamports],
                       !.logs = Append(tx.logs, item)]
  BY DEF Effect
<1>6. /\ WellPlaced(old) /\ Sound(tx.logs) /\ Leads(Accounts.entries, tx.logs, old)
      /\ \A p \in Pdas : old[p] # Accounts.entries[p] => p[1] \in tx.signers
  BY <1>1 DEF RegistryInv, TxShape
<1>7. item.after = ApplyEvent(item.before, item.event) /\ item.before = old /\ item.after = entries
  BY DEF ApplyEvent
<1>8. \A p \in Pdas : entries[p] = IF p = ix.entry THEN entry ELSE old[p]
  BY <1>2 DEF EntryMap
<1> HIDE DEF entries, lamports, item, old
<1>9. /\ tx'.open = tx.open /\ tx'.signers = tx.signers
      /\ tx'.accounts = [entries |-> entries, lamports |-> lamports]
      /\ tx'.logs = Append(tx.logs, item)
      /\ tx'.accounts.entries = entries
  BY <1>2, <1>5
<1>10. /\ Append(tx.logs, item) \in Seq(LogItem)
       /\ Leads(Accounts.entries, Append(tx.logs, item), entries)
       /\ Sound(Append(tx.logs, item))
  <2>1. tx.logs \in Seq(LogItem)
    BY <1>2
  <2> QED
    BY <2>1, <1>4, <1>6, <1>7, LeadsAppend
<1>11. WellPlaced(entries)
  BY <1>6, <1>8 DEF WellPlaced
<1>12. \A p \in Pdas : entries[p] # Accounts.entries[p] => p[1] \in tx.signers
  BY <1>1, <1>6, <1>8
<1>13. TypeOK'
  <2>1. [entries |-> entries, lamports |-> lamports] \in AccountState
    BY <1>3 DEF AccountState, EntryMap
  <2>2. tx' \in [open : BOOLEAN, signers : SUBSET Registrants, logs : Seq(LogItem),
                 accounts : AccountState]
    BY <1>2, <1>5, <1>10, <2>1
  <2> QED
    BY <2>2 DEF RegistryInv, TypeOK, indexerVars
<1>14. TxShape'
  BY <1>9, <1>10, <1>11, <1>12, SameLedger DEF TxShape
<1>15. LedgerShape' /\ EveryEntryWasPut' /\ IndexerShape' /\ SendersShape' /\ RefusedForKeyOnly'
  BY ChainStays, IndexerStays, SendersStay DEF indexerVars
<1> QED
  BY <1>13, <1>14, <1>15 DEF RegistryInv

LEMMA RegisterKeeps ==
  ASSUME RegistryInv, NEW ix \in Instruction, register(ix)
  PROVE  RegistryInv'
<1> DEFINE entry == RegisteredEntry(ix)
<1>1. /\ entry \in Entry
      /\ <<entry.registrant, entry.scheme_id>> = ix.entry
      /\ entry.version = 1 /\ entry.flags = 0
      /\ EntrySet(entry) = [pda |-> ix.entry, entry |-> entry]
  BY DEF register, RegisteredEntry, Entry, Instruction, Payload, AtSeeds, registry_pda,
         ValidArguments, EntrySet
<1>2. -Rent \in Int
  BY RegistryConstants
<1> HIDE DEF entry
<1>3. Effect(ix, entry, -Rent, [pda |-> ix.entry, entry |-> entry])
  BY <1>1 DEF register, entry
<1>4. Runs(ix) /\ AtSeeds(ix) /\ UNCHANGED <<ledger, indexerVars, senders>>
  BY DEF register
<1> QED
  BY <1>1, <1>2, <1>3, <1>4, EffectKeeps

LEMMA UpdateKeeps ==
  ASSUME RegistryInv, NEW ix \in Instruction, update(ix)
  PROVE  RegistryInv'
<1> DEFINE old == tx.accounts.entries[ix.entry]
           entry == UpdatedEntry(old, ix)
<1>1. Runs(ix) /\ OwnEntry(tx.accounts, ix) /\ ValidArguments(ix)
      /\ Effect(ix, entry, 0, EntrySet(entry)) /\ UNCHANGED <<ledger, indexerVars, senders>>
  BY DEF update
<1>2. ix.entry \in Pdas /\ ix.payload \in Payload
  BY DEF Instruction
<1>3. old \in Entry /\ <<old.registrant, old.scheme_id>> = ix.entry
  BY <1>1, <1>2 DEF OwnEntry, Runs, RegistryInv, TypeOK, AccountState, TxShape, WellPlaced
<1> HIDE DEF old
<1>4. /\ entry \in Entry
      /\ entry.registrant = old.registrant /\ entry.scheme_id = old.scheme_id
      /\ entry.version = 1 /\ entry.flags = 0
  BY <1>1, <1>2, <1>3 DEF UpdatedEntry, Entry, Payload, ValidArguments
<1>5. EntrySet(entry) = [pda |-> ix.entry, entry |-> entry]
  BY <1>3, <1>4 DEF EntrySet, registry_pda
<1> HIDE DEF entry
<1>6. Effect(ix, entry, 0, [pda |-> ix.entry, entry |-> entry])
  BY <1>1, <1>5
<1>7. AtSeeds(ix)
  BY <1>1 DEF OwnEntry
<1> QED
  BY <1>1, <1>3, <1>4, <1>6, <1>7, EffectKeeps

LEMMA CloseKeeps ==
  ASSUME RegistryInv, NEW ix \in Instruction, close(ix)
  PROVE  RegistryInv'
<1> DEFINE old == tx.accounts.entries[ix.entry]
<1>1. Runs(ix) /\ OwnEntry(tx.accounts, ix)
      /\ Effect(ix, NoEntry, Rent, EntryClosed(old, ix.scheme_id))
      /\ UNCHANGED <<ledger, indexerVars, senders>>
  BY DEF close
<1>2. EntryClosed(old, ix.scheme_id) = [pda |-> ix.entry, entry |-> NoEntry] /\ AtSeeds(ix)
  BY <1>1 DEF OwnEntry, EntryClosed, AtSeeds, registry_pda
<1> HIDE DEF old
<1>3. Effect(ix, NoEntry, Rent, [pda |-> ix.entry, entry |-> NoEntry])
  BY <1>1, <1>2
<1>4. Rent \in Int
  BY RegistryConstants
<1> QED
  BY <1>1, <1>2, <1>3, <1>4, EffectKeeps

LEMMA BeginKeeps ==
  ASSUME RegistryInv, NEW signers \in SUBSET Registrants, Begin(signers)
  PROVE  RegistryInv'
<1>1. /\ tx' = [open |-> TRUE, signers |-> signers, logs |-> <<>>, accounts |-> Accounts]
      /\ UNCHANGED <<ledger, pos, logs, followed, senders>>
  BY DEF Begin, indexerVars
<1>2. ledger \in Seq(Transaction)
  BY DEF RegistryInv, TypeOK, Transaction
<1>3. Accounts \in AccountState
  BY <1>2, AccountsType
<1>4. TypeOK'
  BY <1>1, <1>3 DEF RegistryInv, TypeOK
<1>5. WellPlaced(Accounts.entries)
  <2>1. CASE Len(ledger) = 0
    BY <2>1 DEF Accounts, AccountsAt, Genesis, WellPlaced
  <2>2. CASE Len(ledger) # 0
    <3>1. Len(ledger) \in 1..Len(ledger)
      BY <1>2, <2>2, LenProperties
    <3> QED
      BY <2>2, <3>1 DEF RegistryInv, LedgerShape, Accounts, AccountsAt
  <2> QED
    BY <2>1, <2>2
<1>6. TxShape'
  <2>1. tx'.logs = <<>> /\ Len(tx'.logs) = 0 /\ tx'.accounts = Accounts
    BY <1>1
  <2>2. Sound(tx'.logs) /\ Leads(Accounts.entries, tx'.logs, tx'.accounts.entries)
    BY <2>1 DEF Sound, Leads
  <2> QED
    BY <1>1, <1>5, <2>1, <2>2, SameLedger DEF TxShape
<1> QED
  BY <1>1, <1>4, <1>6, ChainStays, IndexerStays, SendersStay DEF RegistryInv

\* The end of a transaction, whichever way.
LEMMA RecordKeeps ==
  ASSUME RegistryInv, NEW err \in BOOLEAN, tx.open,
         Record(err, IF err THEN Accounts ELSE tx.accounts),
         UNCHANGED <<indexerVars, senders>>
  PROVE  RegistryInv'
<1> DEFINE after == IF err THEN Accounts ELSE tx.accounts
           t == [err |-> err, logs |-> tx.logs, signers |-> tx.signers, accounts |-> after]
           last == Len(ledger) + 1
<1>1. ledger' = Append(ledger, t) /\ tx' = Idle /\ UNCHANGED <<pos, logs, followed, senders>>
  BY DEF Record, indexerVars
<1>2. ledger \in Seq(Transaction) /\ pos \in 0..Len(ledger)
  BY DEF RegistryInv, TypeOK, Transaction
<1>3. Accounts \in AccountState /\ Len(ledger) \in Nat
  BY <1>2, AccountsType
<1>4. t \in Transaction
  BY <1>3 DEF Transaction, RegistryInv, TypeOK
<1>5. /\ t.err = err /\ t.logs = tx.logs /\ t.signers = tx.signers /\ t.accounts = after
  OBVIOUS
<1>6. /\ WellPlaced(tx.accounts.entries) /\ Sound(tx.logs)
      /\ Leads(Accounts.entries, tx.logs, tx.accounts.entries)
      /\ \A p \in Pdas : tx.accounts.entries[p] # Accounts.entries[p] => p[1] \in tx.signers
  BY DEF RegistryInv, TxShape
<1>7. WellPlaced(Accounts.entries)
  <2>1. CASE Len(ledger) = 0
    BY <2>1 DEF Accounts, AccountsAt, Genesis, WellPlaced
  <2>2. CASE Len(ledger) # 0
    <3>1. Len(ledger) \in 1..Len(ledger)
      BY <1>3, <2>2
    <3> QED
      BY <2>2, <3>1 DEF RegistryInv, LedgerShape, Accounts, AccountsAt
  <2> QED
    BY <2>1, <2>2
<1>8. WellPlaced(after.entries) /\ after \in AccountState
  BY <1>3, <1>6, <1>7 DEF RegistryInv, TypeOK
<1>9. \A p \in Pdas : after.entries[p] # Accounts.entries[p] => ~err /\ p[1] \in tx.signers
  BY <1>6
<1>10. IF err THEN after.entries = Accounts.entries
              ELSE Leads(Accounts.entries, tx.logs, after.entries)
  BY <1>6
<1> HIDE DEF t, after
<1>11. /\ ledger' \in Seq(Transaction) /\ Len(ledger') = last /\ ledger'[last] = t
       /\ \A n \in 1..Len(ledger) : ledger'[n] = ledger[n]
       /\ \A n \in 0..Len(ledger) : AccountsAt(n)' = AccountsAt(n)
       /\ \A n : n = last => AccountsAt(n)' = after
  BY <1>1, <1>2, <1>4, <1>5, LongerLedger
<1>12. /\ last \in Nat /\ last - 1 = Len(ledger) /\ AccountsAt(last - 1) = Accounts
       /\ \A n \in 1..last : n \in 1..Len(ledger) \/ n = last
       /\ \A n \in 1..Len(ledger) : n \in 0..Len(ledger) /\ n - 1 \in 0..Len(ledger)
       /\ Len(ledger) \in 0..Len(ledger)
  BY <1>3 DEF Accounts
<1> HIDE DEF last
<1>13. TypeOK'
  <2>2. Idle \in [open : BOOLEAN, signers : SUBSET Registrants, logs : Seq(LogItem),
                  accounts : AccountState]
    BY GenesisType DEF Idle
  <2>3. pos \in 0..Len(ledger')
    BY <1>2, <1>3, <1>11 DEF last
  <2> QED
    BY <1>1, <1>11, <2>2, <2>3 DEF RegistryInv, TypeOK, Transaction
<1>14. LedgerShape'
  <2> SUFFICES ASSUME NEW n \in 1..last
               PROVE  /\ WellPlaced(ledger'[n].accounts.entries)
                      /\ Sound(ledger'[n].logs)
                      /\ IF ledger'[n].err
                           THEN ledger'[n].accounts.entries = AccountsAt(n - 1)'.entries
                           ELSE Leads(AccountsAt(n - 1)'.entries, ledger'[n].logs,
                                      ledger'[n].accounts.entries)
                      /\ \A p \in Pdas :
                           ledger'[n].accounts.entries[p] # AccountsAt(n - 1)'.entries[p] =>
                             ~ledger'[n].err /\ p[1] \in ledger'[n].signers
    BY <1>11 DEF LedgerShape
  <2>1. CASE n \in 1..Len(ledger)
    <3>1. ledger'[n] = ledger[n] /\ AccountsAt(n - 1)' = AccountsAt(n - 1)
      BY <1>11, <1>12, <2>1
    <3> QED
      BY <2>1, <3>1 DEF RegistryInv, LedgerShape
  <2>2. CASE n = last
    <3>1. ledger'[n] = t /\ AccountsAt(n - 1)' = Accounts
      BY <1>11, <1>12, <2>2
    <3> QED
      BY <1>5, <1>6, <1>8, <1>9, <1>10, <3>1
  <2> QED
    BY <1>12, <2>1, <2>2
<1>15. \A n \in 1..Len(ledger) : \A p, entry : PutBy(n, p, entry) => PutBy(n, p, entry)'
  BY <1>11, <1>12 DEF PutBy
<1>16. EveryEntryWasPut'
  <2> SUFFICES ASSUME NEW m \in 0..Len(ledger'), NEW p \in Pdas, (AccountsAt(m).entries[p] # NoEntry)'
               PROVE  (\E n \in 1..m : PutBy(n, p, AccountsAt(m).entries[p]))'
    BY DEF EveryEntryWasPut
  <2> PICK entry : entry = AccountsAt(m)'.entries[p]
    OBVIOUS
  <2>a. m \in 0..last /\ entry # NoEntry
    BY <1>11
  <2> SUFFICES \E n \in 1..m : PutBy(n, p, entry)'
    BY DEF PutBy
  <2>1. ASSUME NEW k \in 0..Len(ledger), k <= m, AccountsAt(k).entries[p] = entry
        PROVE  \E n \in 1..m : PutBy(n, p, entry)'
    <3>1. PICK n \in 1..k : PutBy(n, p, entry)
      BY <2>1 DEF RegistryInv, EveryEntryWasPut
    <3>2. n \in 1..Len(ledger) /\ n \in 1..m
      BY <1>3, <1>12, <2>1, <3>1
    <3> QED
      BY <1>15, <3>1, <3>2
  <2>2. CASE m # last
    <3>1. m \in 0..Len(ledger) /\ m <= m
      BY <1>3, <1>12, <2>a, <2>2 DEF last
    <3> QED
      BY <1>11, <2>1, <3>1
  <2>3. CASE m = last
    <3>1. entry = after.entries[p] /\ m \in 1..m /\ Len(ledger) <= m
      BY <1>3, <1>11, <1>12, <2>3 DEF last
    <3>2. CASE Accounts.entries[p] = entry
      BY <1>12, <2>1, <3>1, <3>2 DEF Accounts
    <3>3. CASE Accounts.entries[p] # entry
      <4>1. ~err /\ p[1] \in tx.signers
        BY <1>9, <3>1, <3>3
      <4>2. ledger'[m] = t /\ AccountsAt(m - 1)' = Accounts /\ AccountsAt(m)' = after
        BY <1>11, <1>12, <2>3
      <4>3. PutBy(m, p, entry)'
        BY <1>5, <3>1, <3>3, <4>1, <4>2 DEF PutBy
      <4> QED
        BY <3>1, <4>3
    <3> QED
      BY <3>2, <3>3
  <2> QED
    BY <2>2, <2>3
<1>17. SendersShape' /\ RefusedForKeyOnly'
  <2>1. RefusedForKeyOnly'
    BY <1>1 DEF RegistryInv, RefusedForKeyOnly
  <2> SUFFICES ASSUME NEW s \in Senders, senders[s].st \in {"found", "paid", "refused"}
               PROVE  /\ senders[s].entry.version = 1 /\ senders[s].entry.flags = 0
                      /\ \E n \in 1..last :
                           PutBy(n, <<senders[s].to, SCHEME_ID_V1>>, senders[s].entry)'
    BY <1>1, <1>11, <2>1 DEF SendersShape, PutBy
  <2>2. PICK n \in 1..Len(ledger) : PutBy(n, <<senders[s].to, SCHEME_ID_V1>>, senders[s].entry)
    BY DEF RegistryInv, SendersShape
  <2>3. n \in 1..last
    BY <1>3, <2>2 DEF last
  <2>4. PutBy(n, <<senders[s].to, SCHEME_ID_V1>>, senders[s].entry)'
    BY <1>1, <1>11, <1>12, <2>2 DEF PutBy
  <2> QED
    BY <2>3, <2>4 DEF RegistryInv, SendersShape
<1>18. TxShape' /\ IndexerShape'
  BY <1>1, <1>2, <1>11 DEF RegistryInv, TxShape, Idle, IndexerShape
<1> QED
  BY <1>13, <1>14, <1>16, <1>17, <1>18 DEF RegistryInv

LEMMA ReadKeeps ==
  ASSUME RegistryInv, ReadTransaction
  PROVE  RegistryInv'
<1>1. /\ logs = <<>> /\ pos < Len(ledger) /\ pos' = pos + 1
      /\ logs' = IF ledger[pos + 1].err THEN <<>> ELSE ledger[pos + 1].logs
      /\ UNCHANGED <<ledger, tx, followed, senders>>
  BY DEF ReadTransaction, chainVars
<1>2. ledger \in Seq(Transaction) /\ pos \in 0..Len(ledger) /\ Len(ledger) \in Nat
  BY LenProperties DEF RegistryInv, TypeOK, Transaction
<1>3. pos + 1 \in 1..Len(ledger) /\ (pos + 1) - 1 = pos /\ pos + 1 # 0
  BY <1>1, <1>2
<1>4. ledger[pos + 1] \in Transaction
  BY <1>2, <1>3, ElementOfSeq
<1>5. TypeOK'
  <2>1. logs' \in Seq(LogItem)
    BY <1>1, <1>4 DEF Transaction
  <2>2. pos' \in 0..Len(ledger)
    BY <1>1, <1>2
  <2> QED
    BY <1>1, <2>1, <2>2 DEF RegistryInv, TypeOK
<1>6. followed = AccountsAt(pos).entries
  BY <1>1 DEF RegistryInv, IndexerShape, Leads
<1>7. AccountsAt(pos + 1) = ledger[pos + 1].accounts
  BY <1>3 DEF AccountsAt
<1>8. Sound(logs') /\ Leads(followed, logs', AccountsAt(pos + 1).entries)
  <2>1. CASE ledger[pos + 1].err
    <3>1. logs' = <<>> /\ Len(logs') = 0
      BY <1>1, <2>1
    <3>2. AccountsAt(pos + 1).entries = followed
      BY <1>3, <1>6, <1>7, <2>1 DEF RegistryInv, LedgerShape
    <3> QED
      BY <3>1, <3>2 DEF Sound, Leads
  <2>2. CASE ~ledger[pos + 1].err
    BY <1>1, <1>3, <1>6, <1>7, <2>2 DEF RegistryInv, LedgerShape
  <2> QED
    BY <2>1, <2>2
<1>9. IndexerShape'
  <2>1. AccountsAt(pos)' = AccountsAt(pos + 1)
    BY <1>1 DEF AccountsAt
  <2> QED
    BY <1>1, <1>8, <2>1 DEF IndexerShape
<1> QED
  BY <1>1, <1>5, <1>9, ChainStays, TxStays, SendersStay DEF RegistryInv

LEMMA FoldKeeps ==
  ASSUME RegistryInv, Fold
  PROVE  RegistryInv'
<1>1. /\ logs # <<>> /\ logs' = Tail(logs) /\ followed' = ApplyEvent(followed, Head(logs).event)
      /\ UNCHANGED <<ledger, tx, pos, senders>>
  BY DEF Fold, chainVars
<1>2. logs \in Seq(LogItem) /\ followed \in EntryMap
  BY DEF RegistryInv, TypeOK
<1>3. Sound(logs) /\ Leads(followed, logs, AccountsAt(pos).entries)
  BY DEF RegistryInv, IndexerShape
<1>4. /\ logs[1] \in LogItem /\ logs' \in Seq(LogItem)
      /\ logs[1].after = ApplyEvent(followed, logs[1].event)
      /\ Leads(logs[1].after, logs', AccountsAt(pos).entries)
      /\ Sound(logs')
  BY <1>1, <1>2, <1>3, LeadsTail
<1>5. Head(logs) = logs[1]
  BY <1>1, <1>2, HeadTailProperties
<1>6. followed' = logs[1].after /\ followed' \in EntryMap
  BY <1>1, <1>4, <1>5 DEF LogItem
<1>7. TypeOK'
  BY <1>1, <1>4, <1>6 DEF RegistryInv, TypeOK
<1>8. IndexerShape'
  BY <1>1, <1>4, <1>6, SameLedger DEF IndexerShape
<1> QED
  BY <1>1, <1>7, <1>8, ChainStays, TxStays, SendersStay DEF RegistryInv

LEMMA FetchKeeps ==
  ASSUME RegistryInv, NEW s \in Senders, NEW recipient \in Registrants, NEW n \in 0..Len(ledger),
         fetch_meta_address(s, recipient, n)
  PROVE  RegistryInv'
<1> DEFINE p == <<recipient, SCHEME_ID_V1>>
           entry == AccountsAt(n).entries[p]
           r == [st |-> IF entry = NoEntry THEN "missing" ELSE "found",
                 to |-> recipient, entry |-> entry]
<1>1. senders' = [senders EXCEPT ![s] = r] /\ UNCHANGED <<ledger, tx, pos, logs, followed>>
  BY DEF fetch_meta_address, registry_pda, chainVars, indexerVars
<1>2. ledger \in Seq(Transaction)
  BY DEF RegistryInv, TypeOK, Transaction
<1>3. AccountsAt(n) \in AccountState /\ Len(ledger) \in Nat
  BY <1>2, AccountsType
<1>4. p \in Pdas
  BY RegistryConstants DEF Pdas
<1>5. entry \in Entry \cup {NoEntry}
  BY <1>3, <1>4 DEF AccountState
<1>6. entry # NoEntry =>
        /\ entry.version = 1 /\ entry.flags = 0
        /\ \E m \in 1..Len(ledger) : PutBy(m, p, entry)
  <2> SUFFICES ASSUME entry # NoEntry
               PROVE  /\ entry.version = 1 /\ entry.flags = 0
                      /\ \E m \in 1..Len(ledger) : PutBy(m, p, entry)
    OBVIOUS
  <2>1. PICK m \in 1..n : PutBy(m, p, entry)
    BY <1>4 DEF RegistryInv, EveryEntryWasPut
  <2>2. m \in 1..Len(ledger)
    BY <1>3, <2>1
  <2>3. n # 0
    BY <1>3, <2>1
  <2>4. n \in 1..Len(ledger) /\ AccountsAt(n) = ledger[n].accounts
    BY <1>3, <2>3 DEF AccountsAt
  <2>5. entry.version = 1 /\ entry.flags = 0
    BY <1>4, <2>4 DEF RegistryInv, LedgerShape, WellPlaced
  <2> QED
    BY <2>1, <2>2, <2>5
<1> HIDE DEF entry
<1>7. r.st \in {"missing", "found"} /\ r.to = recipient /\ r.entry = entry
      /\ (r.st = "found" => entry # NoEntry)
      /\ r \in [st : {"idle", "missing", "found", "paid", "refused"},
               to : Registrants, entry : Entry \cup {NoEntry}]
  BY <1>5
<1> HIDE DEF r
<1>8. \A q \in Senders : senders'[q] = IF q = s THEN r ELSE senders[q]
  BY <1>1 DEF RegistryInv, TypeOK
<1>9. TypeOK'
  BY <1>1, <1>7 DEF RegistryInv, TypeOK
<1>10. SendersShape'
  <2> SUFFICES ASSUME NEW q \in Senders, senders'[q].st \in {"found", "paid", "refused"}
               PROVE  /\ senders'[q].entry.version = 1 /\ senders'[q].entry.flags = 0
                      /\ \E m \in 1..Len(ledger) :
                           PutBy(m, <<senders'[q].to, SCHEME_ID_V1>>, senders'[q].entry)
    BY <1>1, SameLedger DEF SendersShape, PutBy
  <2>1. CASE q = s
    BY <1>6, <1>7, <1>8, <2>1
  <2>2. CASE q # s
    BY <1>8, <2>2 DEF RegistryInv, SendersShape
  <2> QED
    BY <2>1, <2>2
<1>11. RefusedForKeyOnly'
  BY <1>7, <1>8 DEF RegistryInv, RefusedForKeyOnly
<1> QED
  BY <1>1, <1>9, <1>10, <1>11, ChainStays, TxStays, IndexerStays DEF RegistryInv

LEMMA DeriveKeeps ==
  ASSUME RegistryInv, NEW s \in Senders, derive_payment(s)
  PROVE  RegistryInv'
<1> DEFINE st == IF Payable(senders[s].entry) THEN "paid" ELSE "refused"
<1>1. /\ senders[s].st = "found" /\ senders' = [senders EXCEPT ![s].st = st]
      /\ UNCHANGED <<ledger, tx, pos, logs, followed>>
  BY DEF derive_payment, chainVars, indexerVars
<1>2. /\ st \in {"paid", "refused"}
      /\ st = "refused" => senders[s].entry.key \notin GoodKeys
  BY <1>1 DEF RegistryInv, SendersShape, Payable
<1> HIDE DEF st
<1>3. \A q \in Senders :
        /\ senders'[q].to = senders[q].to /\ senders'[q].entry = senders[q].entry
        /\ senders'[q].st = IF q = s THEN st ELSE senders[q].st
  BY <1>1 DEF RegistryInv, TypeOK
<1>4. TypeOK'
  BY <1>1, <1>2 DEF RegistryInv, TypeOK
<1>5. SendersShape'
  BY <1>1, <1>3, SameLedger DEF RegistryInv, SendersShape, PutBy
<1>6. RefusedForKeyOnly'
  BY <1>2, <1>3 DEF RegistryInv, RefusedForKeyOnly
<1> QED
  BY <1>1, <1>4, <1>5, <1>6, ChainStays, TxStays, IndexerStays DEF RegistryInv

------------------------------------------------------------------------------
(* Theorems *)

LEMMA InitHolds == Init => RegistryInv
<1> SUFFICES ASSUME Init PROVE RegistryInv
  OBVIOUS
<1>1. /\ ledger = <<>> /\ Len(ledger) = 0 /\ tx = Idle /\ pos = 0 /\ logs = <<>> /\ Len(logs) = 0
      /\ followed = Genesis.entries
      /\ senders \in [Senders -> [st : {"idle"}, to : Registrants, entry : {NoEntry}]]
  BY DEF Init
<1>2. \A n \in 0..0 : AccountsAt(n) = Genesis
  BY DEF AccountsAt
<1>3. Idle \in [open : BOOLEAN, signers : SUBSET Registrants, logs : Seq(LogItem),
               accounts : AccountState]
  BY GenesisType DEF Idle
<1>4. followed \in EntryMap
  BY <1>1, GenesisType DEF AccountState, EntryMap
<1>5. TypeOK
  BY <1>1, <1>3, <1>4 DEF TypeOK
<1>6. LedgerShape /\ TxShape
  BY <1>1 DEF LedgerShape, TxShape, Idle
<1>7. IndexerShape
  BY <1>1, <1>2 DEF IndexerShape, Sound, Leads
<1>8. EveryEntryWasPut
  BY <1>1, <1>2 DEF EveryEntryWasPut, Genesis
<1>9. SendersShape /\ RefusedForKeyOnly
  BY <1>1 DEF SendersShape, RefusedForKeyOnly
<1> QED
  BY <1>5, <1>6, <1>7, <1>8, <1>9 DEF RegistryInv

LEMMA NextKeeps == RegistryInv /\ [Next]_vars => RegistryInv'
<1> SUFFICES ASSUME RegistryInv, [Next]_vars PROVE RegistryInv'
  OBVIOUS
<1>1. ASSUME NEW signers \in SUBSET Registrants, Begin(signers) PROVE RegistryInv'
  BY <1>1, BeginKeeps
<1>2. ASSUME NEW ix \in Instruction, register(ix) \/ update(ix) \/ close(ix) PROVE RegistryInv'
  BY <1>2, RegisterKeeps, UpdateKeeps, CloseKeeps
<1>3. CASE Land
  <2>1. tx.open /\ Record(FALSE, IF FALSE THEN Accounts ELSE tx.accounts)
        /\ UNCHANGED <<indexerVars, senders>>
    BY <1>3 DEF Land
  <2> QED
    BY <2>1, RecordKeeps
<1>4. CASE Fail
  <2>1. tx.open /\ Record(TRUE, IF TRUE THEN Accounts ELSE tx.accounts)
        /\ UNCHANGED <<indexerVars, senders>>
    BY <1>4 DEF Fail
  <2> QED
    BY <2>1, RecordKeeps
<1>5. CASE ReadTransaction
  BY <1>5, ReadKeeps
<1>6. CASE Fold
  BY <1>6, FoldKeeps
<1>7. ASSUME NEW s \in Senders, NEW recipient \in Registrants, NEW n \in 0..Len(ledger),
             fetch_meta_address(s, recipient, n)
      PROVE  RegistryInv'
  BY <1>7, FetchKeeps
<1>8. ASSUME NEW s \in Senders, derive_payment(s) PROVE RegistryInv'
  BY <1>8, DeriveKeeps
<1>9. CASE UNCHANGED vars
  <2>1. UNCHANGED <<ledger, tx, pos, logs, followed, senders>>
    BY <1>9 DEF vars
  <2>2. TypeOK'
    BY <2>1 DEF RegistryInv, TypeOK
  <2> QED
    BY <2>1, <2>2, ChainStays, TxStays, IndexerStays, SendersStay DEF RegistryInv
<1> QED
  BY <1>1, <1>2, <1>3, <1>4, <1>5, <1>6, <1>7, <1>8, <1>9 DEF Next

LEMMA RegistryInvHolds == Spec => []RegistryInv
BY InitHolds, NextKeeps, PTL DEF Spec

\* Types of the program's accounts, of the ledger and of what its readers keep
\* (lib.rs, registry.rs).
THEOREM RegistryTypes == Spec => []TypeOK
<1>1. RegistryInv => TypeOK
  BY DEF RegistryInv
<1> QED
  BY <1>1, RegistryInvHolds, PTL

\* The events of register, update and close are enough to rebuild the accounts,
\* whatever transactions there are.
THEOREM EventsRebuildAccounts == Spec => []MirrorsAccounts
<1>1. RegistryInv => MirrorsAccounts
  BY DEF RegistryInv, IndexerShape, Leads, MirrorsAccounts
<1> QED
  BY <1>1, RegistryInvHolds, PTL

\* A sender that went through fetch_meta_address and derive_payment pays to
\* what the recipient's own signature put there.
THEOREM PaymentsHaveConsent == Spec => []PaidWithConsent
<1>1. RegistryInv => PaidWithConsent
  BY DEF RegistryInv, SendersShape, PutBy, PaidWithConsent
<1> QED
  BY <1>1, RegistryInvHolds, PTL

\* What the program's requires let through, derive_payment refuses for its key
\* at most.
THEOREM ChecksAgree == Spec => []RefusedForKeyOnly
<1>1. RegistryInv => RefusedForKeyOnly
  BY DEF RegistryInv
<1> QED
  BY <1>1, RegistryInvHolds, PTL

\* The seeds and has_one constraints with the signature: an entry changes only
\* in a transaction that the wallet of its address signed.
THEOREM OnlyOwnersChange == Spec => OnlyRegistrantChanges
<1> DEFINE Changes == \A p \in Pdas : Accounts'.entries[p] # Accounts.entries[p] => p[1] \in tx.signers
<1>1. RegistryInv /\ [Next]_vars => [Changes]_vars
  <2> SUFFICES ASSUME RegistryInv, Next PROVE Changes
    OBVIOUS
  <2>1. CASE UNCHANGED ledger
    BY <2>1, SameLedger
  <2>2. ASSUME tx.open, NEW err \in BOOLEAN, Record(err, IF err THEN Accounts ELSE tx.accounts)
        PROVE  Changes
    <3> DEFINE after == IF err THEN Accounts ELSE tx.accounts
               t == [err |-> err, logs |-> tx.logs, signers |-> tx.signers, accounts |-> after]
    <3>1. ledger \in Seq(Transaction) /\ ledger' = Append(ledger, t) /\ t.accounts = after
      BY <2>2 DEF RegistryInv, TypeOK, Transaction, Record
    <3>2. t \in Transaction
      BY <3>1, AccountsType DEF Transaction, RegistryInv, TypeOK
    <3>3. \A p \in Pdas : after.entries[p] # Accounts.entries[p] => p[1] \in tx.signers
      BY <2>2 DEF RegistryInv, TxShape
    <3> HIDE DEF t, after
    <3>4. Accounts' = after
      BY <3>1, <3>2, LongerLedger
    <3> QED
      BY <3>3, <3>4
  <2>3. CASE Land
    <3>1. tx.open /\ Record(FALSE, IF FALSE THEN Accounts ELSE tx.accounts)
      BY <2>3 DEF Land
    <3> QED
      BY <2>2, <3>1
  <2>4. CASE Fail
    <3>1. tx.open /\ Record(TRUE, IF TRUE THEN Accounts ELSE tx.accounts)
      BY <2>4 DEF Fail
    <3> QED
      BY <2>2, <3>1
  <2> QED
    BY <2>1, <2>3, <2>4 DEF Next, Begin, register, update, close, ReadTransaction, Fold,
       fetch_meta_address, derive_payment, chainVars, indexerVars
<1> QED
  BY <1>1, RegistryInvHolds, PTL DEF Spec, OnlyRegistrantChanges

------------------------------------------------------------------------------
(* Rent *)

\* One entry more or less at an address of r, with its rent moved, leaves r
\* as well off; the others are not concerned.
LEMMA EffectMovesRent ==
  ASSUME RegistryInv, NEW ix \in Instruction, NEW entry \in Entry \cup {NoEntry}, NEW paid \in Int,
         NEW event,
         Runs(ix), AtSeeds(ix), Effect(ix, entry, paid, event),
         LET old == tx.accounts.entries[ix.entry]
         IN  paid = (IF old = NoEntry THEN 0 ELSE Rent) - (IF entry = NoEntry THEN 0 ELSE Rent),
         \A r \in Registrants : Held(tx.accounts, r) = Funds
  PROVE  \A r \in Registrants : Held(tx'.accounts, r) = Funds
<1> DEFINE old == tx.accounts.entries
           entries == [old EXCEPT ![ix.entry] = entry]
           lamports == [tx.accounts.lamports EXCEPT ![ix.registrant] = @ + paid]
           Open(map, r) == {s \in SchemeIds : map[<<r, s>>] # NoEntry}
<1>1. /\ ix.entry = <<ix.registrant, ix.scheme_id>> /\ ix.entry \in Pdas
      /\ ix.registrant \in Registrants /\ ix.scheme_id \in SchemeIds
  BY DEF AtSeeds, registry_pda, Instruction
<1>2. old \in [Pdas -> Entry \cup {NoEntry}] /\ tx.accounts.lamports \in [Registrants -> Int]
  BY DEF RegistryInv, TypeOK, AccountState
<1>3. tx'.accounts.entries = entries /\ tx'.accounts.lamports = lamports
  BY DEF Effect, RegistryInv, TypeOK
<1>4. /\ \A p \in Pdas : entries[p] = IF p = ix.entry THEN entry ELSE old[p]
      /\ \A r \in Registrants :
           lamports[r] = tx.accounts.lamports[r] + (IF r = ix.registrant THEN paid ELSE 0)
  BY <1>1, <1>2
<1>5. \A r \in Registrants :
        /\ Held(tx.accounts, r) = tx.accounts.lamports[r] + Rent * Cardinality(Open(old, r))
        /\ Held(tx'.accounts, r) = lamports[r] + Rent * Cardinality(Open(entries, r))
  BY <1>3 DEF Held
<1>6. paid = (IF old[ix.entry] = NoEntry THEN 0 ELSE Rent) - (IF entry = NoEntry THEN 0 ELSE Rent)
  OBVIOUS
<1> HIDE DEF entries, lamports, old
<1>7. ASSUME NEW r \in Registrants
      PROVE  /\ Open(old, r) \in SUBSET SchemeIds /\ Open(entries, r) \in SUBSET SchemeIds
             /\ IsFiniteSet(Open(old, r)) /\ IsFiniteSet(Open(entries, r))
             /\ Cardinality(Open(old, r)) \in Nat /\ Cardinality(Open(entries, r)) \in Nat
  <2>1. Open(old, r) \in SUBSET SchemeIds /\ Open(entries, r) \in SUBSET SchemeIds
    OBVIOUS
  <2>2. IsFiniteSet(SchemeIds)
    BY RegistryConstants
  <2>3. IsFiniteSet(Open(old, r)) /\ IsFiniteSet(Open(entries, r))
    BY <2>1, <2>2, FS_Subset
  <2> QED
    BY <2>1, <2>3, FS_CardinalityType
<1>8. ASSUME NEW r \in Registrants, r # ix.registrant
      PROVE  Held(tx'.accounts, r) = Funds
  <2>1. \A s \in SchemeIds : <<r, s>> \in Pdas /\ <<r, s>> # ix.entry
    BY <1>1, <1>8 DEF Pdas
  <2>2. Open(entries, r) = Open(old, r)
    BY <1>4, <2>1
  <2>3. lamports[r] = tx.accounts.lamports[r]
    BY <1>2, <1>4, <1>8
  <2> QED
    BY <1>5, <2>2, <2>3
<1>9. Held(tx'.accounts, ix.registrant) = Funds
  <2> DEFINE r == ix.registrant
             s == ix.scheme_id
             was == Open(old, r)
             is == Open(entries, r)
  <2>1. /\ s \in was <=> old[ix.entry] # NoEntry
        /\ s \in is <=> entry # NoEntry
        /\ \A q \in SchemeIds : q # s => (q \in is <=> q \in was)
    BY <1>1, <1>4 DEF Pdas
  <2>2. was \subseteq SchemeIds /\ is \subseteq SchemeIds /\ s \in SchemeIds
    BY <1>1
  <2>3. /\ IsFiniteSet(was) /\ IsFiniteSet(is)
        /\ Cardinality(was) \in Nat /\ Cardinality(is) \in Nat
    BY <1>1, <1>7
  <2>4. /\ tx.accounts.lamports[r] + Rent * Cardinality(was) = Funds
        /\ Held(tx'.accounts, r) = tx.accounts.lamports[r] + paid + Rent * Cardinality(is)
        /\ tx.accounts.lamports[r] \in Int
    BY <1>1, <1>2, <1>4, <1>5
  <2> HIDE DEF was, is, r, s
  <2> DEFINE rentWas == Rent * Cardinality(was)
             rentIs == Rent * Cardinality(is)
  <2>8. /\ tx.accounts.lamports[r] + rentWas = Funds
        /\ Held(tx'.accounts, ix.registrant) = tx.accounts.lamports[r] + paid + rentIs
        /\ tx.accounts.lamports[r] \in Int /\ rentWas \in Int /\ rentIs \in Int
    BY <2>3, <2>4, RegistryConstants DEF r
  <2> HIDE DEF rentWas, rentIs
  <2>5. CASE s \in was <=> s \in is
    <3>1. was = is
      BY <2>1, <2>2, <2>5
    <3>2. paid = 0
      BY <1>6, <2>1, <2>5, RegistryConstants
    <3> QED
      BY <2>8, <3>1, <3>2, RegistryConstants DEF rentIs, rentWas
  <2>6. CASE s \notin was /\ s \in is
    <3>1. is = was \cup {s}
      BY <2>1, <2>2, <2>6
    <3>2. Cardinality(is) = Cardinality(was) + 1
      BY <2>3, <2>6, <3>1, FS_AddElement
    <3>3. paid = 0 - Rent
      BY <1>6, <2>1, <2>6, RegistryConstants
    <3>4. rentIs = rentWas + Rent
      BY <2>3, <3>2, RegistryConstants DEF rentIs, rentWas
    <3>5. paid + rentIs = rentWas
      BY <2>8, <3>3, <3>4, RegistryConstants
    <3>6. PICK had \in Int : had = tx.accounts.lamports[r]
      BY <2>8
    <3>7. /\ had + rentWas = Funds /\ rentWas \in Int /\ rentIs \in Int
          /\ Held(tx'.accounts, ix.registrant) = had + paid + rentIs
      BY <2>8, <3>6
    <3>8. had + paid + rentIs = had + (paid + rentIs)
      BY <3>7
    <3> QED
      BY <3>5, <3>7, <3>8
  <2>7. CASE s \in was /\ s \notin is
    <3>1. is = was \ {s}
      BY <2>1, <2>2, <2>7
    <3>2. Cardinality(is) = Cardinality(was) - 1
      BY <2>3, <2>7, <3>1, FS_RemoveElement
    <3>3. paid = Rent
      BY <1>6, <2>1, <2>7, RegistryConstants
    <3>4. rentIs = rentWas - Rent
      BY <2>3, <3>2, RegistryConstants DEF rentIs, rentWas
    <3> QED
      BY <2>8, <3>3, <3>4, RegistryConstants
  <2> QED
    BY <2>5, <2>6, <2>7
<1> QED
  BY <1>8, <1>9

\* Instructions keep the rent of the transaction's copy.
LEMMA InstructionsKeepRent ==
  ASSUME RegistryInv, RentShape, NEW ix \in Instruction, register(ix) \/ update(ix) \/ close(ix)
  PROVE  RentShape'
<1>1. tx.open /\ ledger' = ledger /\ tx'.open
  BY DEF register, update, close, Runs, Effect, RegistryInv, TypeOK
<1>2. \A r \in Registrants : Held(tx.accounts, r) = Funds
  BY <1>1 DEF RentShape
<1>3. ix.entry \in Pdas
  BY DEF Instruction
<1>4. Rent \in Nat /\ NoEntry \notin Entry /\ -Rent = 0 - Rent /\ -Rent \in Int
  BY RegistryConstants
<1>5. ASSUME register(ix) PROVE \A r \in Registrants : Held(tx'.accounts, r) = Funds
  <2>1. /\ Runs(ix) /\ AtSeeds(ix) /\ tx.accounts.entries[ix.entry] = NoEntry
        /\ Effect(ix, RegisteredEntry(ix), -Rent, EntrySet(RegisteredEntry(ix)))
    BY <1>5 DEF register
  <2>2. RegisteredEntry(ix) \in Entry
    BY DEF RegisteredEntry, Entry, Instruction, Payload
  <2>3. RegisteredEntry(ix) # NoEntry
    BY <1>4, <2>2
  <2> QED
    BY <1>2, <1>4, <2>1, <2>2, <2>3, EffectMovesRent
<1>6. ASSUME update(ix) PROVE \A r \in Registrants : Held(tx'.accounts, r) = Funds
  <2> DEFINE old == tx.accounts.entries[ix.entry]
             entry == UpdatedEntry(old, ix)
  <2>1. /\ Runs(ix) /\ AtSeeds(ix) /\ old # NoEntry /\ Effect(ix, entry, 0, EntrySet(entry))
    BY <1>6 DEF update, OwnEntry
  <2>2. old \in Entry
    BY <1>3, <2>1 DEF RegistryInv, TypeOK, AccountState
  <2>3. ix.payload \in Payload
    BY DEF Instruction
  <2>4. entry \in Entry /\ entry # NoEntry
    BY <1>4, <2>2, <2>3 DEF UpdatedEntry, Entry, Payload
  <2> HIDE DEF entry
  <2>5. 0 = Rent - Rent /\ 0 \in Int
    BY <1>4
  <2> QED
    BY <1>2, <2>1, <2>4, <2>5, EffectMovesRent
<1>7. ASSUME close(ix) PROVE \A r \in Registrants : Held(tx'.accounts, r) = Funds
  <2> DEFINE old == tx.accounts.entries[ix.entry]
  <2>1. /\ Runs(ix) /\ AtSeeds(ix) /\ old # NoEntry
        /\ Effect(ix, NoEntry, Rent, EntryClosed(old, ix.scheme_id))
    BY <1>7 DEF close, OwnEntry
  <2>2. Rent = Rent - 0 /\ Rent \in Int
    BY <1>4
  <2> QED
    BY <1>2, <2>1, <2>2, EffectMovesRent
<1>8. \A r \in Registrants : Held(tx'.accounts, r) = Funds
  BY <1>5, <1>6, <1>7
<1>9. \A n \in 0..Len(ledger), r \in Registrants : Held(AccountsAt(n)', r) = Funds
  BY <1>1, SameLedger DEF RentShape
<1> QED
  BY <1>1, <1>8, <1>9 DEF RentShape, Held

\* However often addresses are registered, closed and registered again, the
\* rent of an entry is its registrant's and comes back to it.
THEOREM RentIsTheRegistrants == Spec => []RentReturns
<1>1. Init => RentShape
  <2> SUFFICES ASSUME Init, NEW r \in Registrants
               PROVE  Held(Genesis, r) = Funds
    BY DEF Init, RentShape, AccountsAt, Idle
  <2>1. {s \in SchemeIds : Genesis.entries[<<r, s>>] # NoEntry} = {}
    BY DEF Genesis, Pdas
  <2>2. Cardinality({}) = 0
    BY FS_EmptySet
  <2>3. Genesis.lamports[r] = Funds /\ Funds + Rent * 0 = Funds
    BY RegistryConstants DEF Genesis
  <2> QED
    BY <2>1, <2>2, <2>3 DEF Held
<1>2. RegistryInv /\ RentShape /\ [Next]_vars => RentShape'
  <2> SUFFICES ASSUME RegistryInv, RentShape, [Next]_vars PROVE RentShape'
    OBVIOUS
  <2>1. CASE UNCHANGED <<ledger, tx>>
    BY <2>1, SameLedger DEF RentShape, Held
  <2>2. ASSUME NEW signers \in SUBSET Registrants, Begin(signers) PROVE RentShape'
    <3>1. ledger' = ledger /\ tx'.accounts = Accounts
      BY <2>2 DEF Begin
    <3>2. ledger \in Seq(Transaction)
      BY DEF RegistryInv, TypeOK, Transaction
    <3>3. Len(ledger) \in 0..Len(ledger)
      BY <3>2, LenProperties
    <3>4. \A r \in Registrants : Held(Accounts, r) = Funds
      BY <3>3 DEF RentShape, Accounts
    <3>5. \A n \in 0..Len(ledger), r \in Registrants : Held(AccountsAt(n)', r) = Funds
      BY <3>1, SameLedger DEF RentShape
    <3> QED
      BY <3>1, <3>4, <3>5 DEF RentShape, Held
  <2>3. ASSUME NEW ix \in Instruction, register(ix) \/ update(ix) \/ close(ix) PROVE RentShape'
    BY <2>3, InstructionsKeepRent
  <2>4. ASSUME tx.open, NEW err \in BOOLEAN, Record(err, IF err THEN Accounts ELSE tx.accounts)
        PROVE  RentShape'
    <3> DEFINE after == IF err THEN Accounts ELSE tx.accounts
               t == [err |-> err, logs |-> tx.logs, signers |-> tx.signers, accounts |-> after]
    <3>1. /\ ledger \in Seq(Transaction) /\ ledger' = Append(ledger, t) /\ t.accounts = after
          /\ ~tx'.open
      BY <2>4 DEF RegistryInv, TypeOK, Transaction, Record, Idle
    <3>2. Len(ledger) \in Nat /\ Len(ledger) \in 0..Len(ledger)
      BY <3>1, LenProperties
    <3>3. t \in Transaction
      BY <3>1, AccountsType DEF Transaction, RegistryInv, TypeOK
    <3>4. \A r \in Registrants : Held(after, r) = Funds
      BY <2>4, <3>2 DEF RentShape, Accounts
    <3> HIDE DEF t, after
    <3>5. /\ Len(ledger') = Len(ledger) + 1
          /\ \A n \in 0..Len(ledger) : AccountsAt(n)' = AccountsAt(n)
          /\ \A n : n = Len(ledger) + 1 => AccountsAt(n)' = after
      BY <3>1, <3>3, LongerLedger
    <3>6. \A n \in 0..Len(ledger') : n \in 0..Len(ledger) \/ n = Len(ledger) + 1
      BY <3>2, <3>5
    <3>7. ASSUME NEW n \in 0..Len(ledger'), NEW r \in Registrants
          PROVE  Held(AccountsAt(n)', r) = Funds
      BY <3>4, <3>5, <3>6 DEF RentShape
    <3> QED
      BY <3>1, <3>7 DEF RentShape, Held
  <2>5. CASE Land
    <3>1. tx.open /\ Record(FALSE, IF FALSE THEN Accounts ELSE tx.accounts)
      BY <2>5 DEF Land
    <3> QED
      BY <2>4, <3>1
  <2>6. CASE Fail
    <3>1. tx.open /\ Record(TRUE, IF TRUE THEN Accounts ELSE tx.accounts)
      BY <2>6 DEF Fail
    <3> QED
      BY <2>4, <3>1
  <2> QED
    BY <2>1, <2>2, <2>3, <2>5, <2>6 DEF Next, ReadTransaction, Fold, fetch_meta_address,
       derive_payment, chainVars, vars
<1>3. RegistryInv /\ RentShape => RentReturns
  <2> SUFFICES ASSUME RegistryInv, RentShape PROVE RentReturns
    OBVIOUS
  <2>1. Len(ledger) \in 0..Len(ledger)
    BY LenProperties DEF RegistryInv, TypeOK
  <2> QED
    BY <2>1 DEF RentShape, RentReturns, Accounts
<1> QED
  BY <1>1, <1>2, <1>3, RegistryInvHolds, PTL DEF Spec
==============================================================================
