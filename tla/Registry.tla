------------------------------ MODULE Registry -------------------------------
(***************************************************************************)
(* The registry program (programs/registry/src/lib.rs), the cluster that   *)
(* executes transactions of its instructions, and two readers: a sender    *)
(* that looks a recipient up and pays (slnt-sdk registry.rs, sender.rs),   *)
(* and an indexer that rebuilds the accounts from the program's events.    *)
(*                                                                         *)
(* A transaction runs its instructions one by one on its own copy of the   *)
(* accounts, logging events, and lands as a whole or fails.  What it       *)
(* logged stays in the ledger either way.                                  *)
(***************************************************************************)
EXTENDS Integers, Sequences, FiniteSets

CONSTANTS
  Registrants,   \* wallets that sign
  SchemeIds,     \* scheme ids of instructions, 0 among them
  SCHEME_ID_V1,  \* the scheme senders look up
  Keys,          \* (b_spend, b_scan) pairs a payload may carry
  GoodKeys,      \* those derive_payment accepts: b_spend of prime order, b_scan of no small order
  Versions,      \* version bytes of payloads
  Flags,         \* flags bytes of payloads
  NoEntry,       \* no account at an address
  Rent,          \* lamports an entry account is created with
  Funds,         \* lamports every registrant starts with
  Senders,       \* senders, one payment each
  MaxTxs,        \* bound: transactions
  MaxIxs         \* bound: registry instructions in a transaction

Pdas == Registrants \X SchemeIds
Entry == [registrant : Registrants, scheme_id : SchemeIds, version : Versions, key : Keys, flags : Flags]
Payload == [version : Versions, key : Keys, flags : Flags]
Instruction ==
  [registrant : Registrants, entry : Pdas, scheme_id : SchemeIds, payload : Payload]

ASSUME RegistryConstants ==
  /\ SCHEME_ID_V1 \in SchemeIds \ {0}
  /\ NoEntry \notin Entry
  /\ IsFiniteSet(SchemeIds)
  /\ Rent \in Nat /\ Funds \in Nat
  /\ MaxTxs \in Nat /\ MaxIxs \in Nat

VARIABLES
  ledger,    \* transactions that landed or failed: outcome, logs, signers, accounts after
  tx,        \* the transaction being executed
  pos,       \* indexer: transactions it has read
  logs,      \* indexer: logs of the last of them it still has to apply
  followed,  \* indexer: its map from addresses to entries
  senders    \* where each sender is

vars == <<ledger, tx, pos, logs, followed, senders>>
chainVars == <<ledger, tx>>
indexerVars == <<pos, logs, followed>>

------------------------------------------------------------------------------
(* The program *)

\* One address for each registrant and scheme; seeds that differ give
\* addresses that differ.
registry_pda(registrant, scheme_id) == <<registrant, scheme_id>>

\* Faulty: flags not looked at.
ValidArgumentsButFlags(ix) == ix.scheme_id # 0 /\ ix.payload.version = 1

\* The requires of register and update.
ValidArguments(ix) ==
  /\ ix.scheme_id # 0
  /\ ix.payload.version = 1
  /\ ix.payload.flags = 0

\* Faulty: the address of any registrant.
AtSchemeSeed(ix) == ix.entry[2] = ix.scheme_id

\* The seeds constraint of each of the three account lists.
AtSeeds(ix) == ix.entry = registry_pda(ix.registrant, ix.scheme_id)

\* Faulty: any entry account, whosever it is.
AnyEntry(accounts, ix) == accounts.entries[ix.entry] # NoEntry

\* The account of update and close: there, at the seeds, of this registrant.
OwnEntry(accounts, ix) ==
  /\ accounts.entries[ix.entry] # NoEntry
  /\ AtSeeds(ix)
  /\ accounts.entries[ix.entry].registrant = ix.registrant

RegisteredEntry(ix) ==
  [registrant |-> ix.registrant, scheme_id |-> ix.scheme_id, version |-> ix.payload.version,
   key |-> ix.payload.key, flags |-> ix.payload.flags]

UpdatedEntry(old, ix) ==
  [old EXCEPT !.version = ix.payload.version, !.key = ix.payload.key, !.flags = ix.payload.flags]

\* Events: the entry registered or updated names its own address, and a closed
\* one is named by what the account held.
EntrySet(entry) == [pda |-> registry_pda(entry.registrant, entry.scheme_id), entry |-> entry]
EntryClosed(entry, scheme_id) == [pda |-> registry_pda(entry.registrant, scheme_id), entry |-> NoEntry]

------------------------------------------------------------------------------
(* Execution of a transaction *)

Genesis ==
  [entries |-> [p \in Pdas |-> NoEntry], lamports |-> [r \in Registrants |-> Funds]]

\* The accounts after the first n transactions.
AccountsAt(n) == IF n = 0 THEN Genesis ELSE ledger[n].accounts
Accounts == AccountsAt(Len(ledger))

Idle == [open |-> FALSE, signers |-> {}, logs |-> <<>>, accounts |-> Genesis]

\* Transactions that no registrant signs change nothing here.
Begin(signers) ==
  /\ signers # {}
  /\ ~tx.open /\ Len(ledger) < MaxTxs
  /\ tx' = [open |-> TRUE, signers |-> signers, logs |-> <<>>, accounts |-> Accounts]
  /\ UNCHANGED <<ledger, indexerVars, senders>>

\* An instruction takes effect: the entry at its address becomes entry, the
\* registrant is charged or paid, and its event is logged.  Beside the event
\* stand the entries before and after, which no reader sees.
Effect(ix, entry, paid, event) ==
  LET entries == [tx.accounts.entries EXCEPT ![ix.entry] = entry]
  IN  tx' = [tx EXCEPT
        !.accounts = [entries |-> entries,
                      lamports |-> [tx.accounts.lamports EXCEPT ![ix.registrant] = @ + paid]],
        !.logs = Append(@, [event |-> event, before |-> tx.accounts.entries, after |-> entries])]

\* The registrant's signature is part of the transaction.
Runs(ix) == tx.open /\ Len(tx.logs) < MaxIxs /\ ix.registrant \in tx.signers

register(ix) ==
  /\ Runs(ix)
  /\ AtSeeds(ix) /\ tx.accounts.entries[ix.entry] = NoEntry
  /\ tx.accounts.lamports[ix.registrant] >= Rent
  /\ ValidArguments(ix)
  /\ Effect(ix, RegisteredEntry(ix), -Rent, EntrySet(RegisteredEntry(ix)))
  /\ UNCHANGED <<ledger, indexerVars, senders>>

\* Faulty: the event carries the entry as it was.
UpdateLogsOld(ix) ==
  /\ Runs(ix)
  /\ OwnEntry(tx.accounts, ix)
  /\ ValidArguments(ix)
  /\ LET old == tx.accounts.entries[ix.entry]
     IN  Effect(ix, UpdatedEntry(old, ix), 0, EntrySet(old))
  /\ UNCHANGED <<ledger, indexerVars, senders>>

update(ix) ==
  /\ Runs(ix)
  /\ OwnEntry(tx.accounts, ix)
  /\ ValidArguments(ix)
  /\ LET entry == UpdatedEntry(tx.accounts.entries[ix.entry], ix)
     IN  Effect(ix, entry, 0, EntrySet(entry))
  /\ UNCHANGED <<ledger, indexerVars, senders>>

close(ix) ==
  /\ Runs(ix)
  /\ OwnEntry(tx.accounts, ix)
  /\ Effect(ix, NoEntry, Rent, EntryClosed(tx.accounts.entries[ix.entry], ix.scheme_id))
  /\ UNCHANGED <<ledger, indexerVars, senders>>

Record(err, accounts) ==
  /\ ledger' = Append(ledger, [err |-> err, logs |-> tx.logs, signers |-> tx.signers,
                               accounts |-> accounts])
  /\ tx' = Idle

Land ==
  /\ tx.open
  /\ Record(FALSE, tx.accounts)
  /\ UNCHANGED <<indexerVars, senders>>

\* An instruction fails, one of the registry's or another program's: every
\* account is as before, the logs up to there are kept.
Fail ==
  /\ tx.open
  /\ Record(TRUE, Accounts)
  /\ UNCHANGED <<indexerVars, senders>>

------------------------------------------------------------------------------
(* The indexer: events set or delete entries, in ledger order.  It is not   *)
(* part of the repository; it folds what the program promises to emit, and  *)
(* leaves the logs of failed transactions out.                              *)

ReadTransaction ==
  /\ logs = <<>> /\ pos < Len(ledger)
  /\ pos' = pos + 1
  /\ logs' = IF ledger[pos + 1].err THEN <<>> ELSE ledger[pos + 1].logs
  /\ UNCHANGED <<chainVars, followed, senders>>

ApplyEvent(map, event) == [map EXCEPT ![event.pda] = event.entry]

Fold ==
  /\ logs # <<>>
  /\ followed' = ApplyEvent(followed, Head(logs).event)
  /\ logs' = Tail(logs)
  /\ UNCHANGED <<chainVars, pos, senders>>

------------------------------------------------------------------------------
(* The sender *)

\* Faulty: the entry of whatever scheme the recipient has one for.
FetchAnyScheme(s, recipient, n) ==
  /\ senders[s].st = "idle"
  /\ \E scheme_id \in SchemeIds :
       LET entry == AccountsAt(n).entries[registry_pda(recipient, scheme_id)]
       IN  senders' = [senders EXCEPT ![s] =
             [st |-> IF entry = NoEntry THEN "missing" ELSE "found", to |-> recipient, entry |-> entry]]
  /\ UNCHANGED <<chainVars, indexerVars>>

\* fetch_meta_address: one get_account of the derived address, answered by a
\* node that has got as far as transaction n.  An RPC error leaves the sender
\* where it is.
fetch_meta_address(s, recipient, n) ==
  /\ senders[s].st = "idle"
  /\ LET entry == AccountsAt(n).entries[registry_pda(recipient, SCHEME_ID_V1)]
     IN  senders' = [senders EXCEPT ![s] =
           [st |-> IF entry = NoEntry THEN "missing" ELSE "found", to |-> recipient, entry |-> entry]]
  /\ UNCHANGED <<chainVars, indexerVars>>

\* The checks derive_payment makes before anything is paid.
Payable(entry) == entry.version = 1 /\ entry.flags = 0 /\ entry.key \in GoodKeys

derive_payment(s) ==
  /\ senders[s].st = "found"
  /\ senders' = [senders EXCEPT ![s].st = IF Payable(senders[s].entry) THEN "paid" ELSE "refused"]
  /\ UNCHANGED <<chainVars, indexerVars>>

------------------------------------------------------------------------------

Init ==
  /\ ledger = <<>> /\ tx = Idle
  /\ pos = 0 /\ logs = <<>> /\ followed = Genesis.entries
  /\ senders \in [Senders -> [st : {"idle"}, to : Registrants, entry : {NoEntry}]]

Next ==
  \/ \E signers \in SUBSET Registrants : Begin(signers)
  \/ \E ix \in Instruction : register(ix) \/ update(ix) \/ close(ix)
  \/ Land \/ Fail
  \/ ReadTransaction \/ Fold
  \/ \E s \in Senders, recipient \in Registrants, n \in 0..Len(ledger) :
       fetch_meta_address(s, recipient, n)
  \/ \E s \in Senders : derive_payment(s)

Spec == Init /\ [][Next]_vars

------------------------------------------------------------------------------
(* Properties *)

AccountState == [entries : [Pdas -> Entry \cup {NoEntry}], lamports : [Registrants -> Int]]
EntryMap == [Pdas -> Entry \cup {NoEntry}]
LogItem == [event : [pda : Pdas, entry : Entry \cup {NoEntry}], before : EntryMap, after : EntryMap]

\* Types of the chain, the indexer and the senders; every account on the chain
\* or under way is an entry or missing.
TypeOK ==
  /\ ledger \in Seq([err : BOOLEAN, logs : Seq(LogItem), signers : SUBSET Registrants,
                     accounts : AccountState])
  /\ tx \in [open : BOOLEAN, signers : SUBSET Registrants, logs : Seq(LogItem),
             accounts : AccountState]
  /\ pos \in 0..Len(ledger) /\ logs \in Seq(LogItem) /\ followed \in EntryMap
  /\ senders \in [Senders -> [st : {"idle", "missing", "found", "paid", "refused"},
                              to : Registrants, entry : Entry \cup {NoEntry}]]

\* Replaying the events of the transactions that landed, from nothing, gives
\* the entry accounts exactly, transaction by transaction: every change of an
\* account is in the logs, in order and complete, through updates, closes and
\* registrations of the same address again, also within one transaction.
MirrorsAccounts == logs = <<>> => followed = AccountsAt(pos).entries

\* An entry account is made, changed or closed only by a transaction which the
\* wallet of its address signed.
OnlyRegistrantChanges ==
  [][\A p \in Pdas : Accounts'.entries[p] # Accounts.entries[p] => p[1] \in tx.signers]_vars

\* The rent of an entry comes from the registrant of its address and goes back
\* to that same wallet: nobody gains or loses over any sequence of transactions.
Held(accounts, r) ==
  accounts.lamports[r] + Rent * Cardinality({s \in SchemeIds : accounts.entries[<<r, s>>] # NoEntry})
RentReturns ==
  \A r \in Registrants : Held(Accounts, r) = Funds

\* What a sender paid to was put at the recipient's address by a transaction
\* that landed and that the recipient signed.
PaidWithConsent ==
  \A s \in Senders : senders[s].st = "paid" =>
    LET p == <<senders[s].to, SCHEME_ID_V1>>
    IN  \E n \in 1..Len(ledger) :
          /\ ~ledger[n].err /\ p[1] \in ledger[n].signers
          /\ AccountsAt(n - 1).entries[p] # senders[s].entry
          /\ AccountsAt(n).entries[p] = senders[s].entry

\* The program and the SDK agree on what is a meta-address: a sender refuses an
\* entry only because of its key, which the program does not look at.
RefusedForKeyOnly ==
  \A s \in Senders : senders[s].st = "refused" => senders[s].entry.key \notin GoodKeys
==============================================================================
