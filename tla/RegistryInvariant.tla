------------------------- MODULE RegistryInvariant ---------------------------
(***************************************************************************)
(* The inductive invariant behind the theorems of RegistryProofs, here     *)
(* where TLC can check it too.                                             *)
(***************************************************************************)
EXTENDS Registry

\* Entries stand at the address of their own fields and are what ValidArguments
\* lets through.
WellPlaced(entries) ==
  \A p \in Pdas : entries[p] # NoEntry =>
    /\ <<entries[p].registrant, entries[p].scheme_id>> = p
    /\ entries[p].version = 1 /\ entries[p].flags = 0

\* Each event says what happened between the two states beside it.
Sound(items) ==
  \A i \in 1..Len(items) : items[i].after = ApplyEvent(items[i].before, items[i].event)

\* The items lead from one state of the entries to another without a gap.
Leads(first, items, last) ==
  IF items = <<>>
    THEN first = last
    ELSE /\ items[1].before = first
         /\ items[Len(items)].after = last
         /\ \A i \in 1..(Len(items) - 1) : items[i].after = items[i + 1].before

LedgerShape ==
  \A n \in 1..Len(ledger) :
    /\ WellPlaced(ledger[n].accounts.entries)
    /\ Sound(ledger[n].logs)
    /\ IF ledger[n].err
         THEN ledger[n].accounts.entries = AccountsAt(n - 1).entries
         ELSE Leads(AccountsAt(n - 1).entries, ledger[n].logs, ledger[n].accounts.entries)
    /\ \A p \in Pdas :
         ledger[n].accounts.entries[p] # AccountsAt(n - 1).entries[p] =>
           ~ledger[n].err /\ p[1] \in ledger[n].signers

TxShape ==
  tx.open =>
    /\ WellPlaced(tx.accounts.entries)
    /\ Sound(tx.logs)
    /\ Leads(Accounts.entries, tx.logs, tx.accounts.entries)
    /\ \A p \in Pdas : tx.accounts.entries[p] # Accounts.entries[p] => p[1] \in tx.signers

\* What the indexer has in hand leads from its map to the chain's.
IndexerShape == Sound(logs) /\ Leads(followed, logs, AccountsAt(pos).entries)

\* Transaction n put this entry at p.
PutBy(n, p, entry) ==
  /\ ~ledger[n].err /\ p[1] \in ledger[n].signers
  /\ AccountsAt(n - 1).entries[p] # entry
  /\ AccountsAt(n).entries[p] = entry

EveryEntryWasPut ==
  \A m \in 0..Len(ledger), p \in Pdas : AccountsAt(m).entries[p] # NoEntry =>
    \E n \in 1..m : PutBy(n, p, AccountsAt(m).entries[p])

SendersShape ==
  \A s \in Senders : senders[s].st \in {"found", "paid", "refused"} =>
    /\ senders[s].entry.version = 1 /\ senders[s].entry.flags = 0
    /\ \E n \in 1..Len(ledger) : PutBy(n, <<senders[s].to, SCHEME_ID_V1>>, senders[s].entry)

RentShape ==
  /\ \A n \in 0..Len(ledger), r \in Registrants : Held(AccountsAt(n), r) = Funds
  /\ tx.open => \A r \in Registrants : Held(tx.accounts, r) = Funds

RegistryInv ==
  TypeOK /\ LedgerShape /\ TxShape /\ IndexerShape /\ EveryEntryWasPut /\ SendersShape
    /\ RefusedForKeyOnly
==============================================================================
