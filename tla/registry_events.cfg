\* Two wallets, two schemes and the refused scheme 0, transactions of two instructions.
SPECIFICATION Spec
CONSTANTS
  alice = alice
  bob = bob
  k1 = k1
  k2 = k2
  Registrants <- TwoWallets
  SchemeIds = {0, 1, 2}
  SCHEME_ID_V1 = 1
  Keys <- TwoKeys
  GoodKeys <- OneGoodKey
  Versions = {1, 2}
  Flags = {0, 1}
  NoEntry = NoEntry
  Rent = 2
  Funds = 3
  Senders = {s1}
  MaxTxs = 2
  MaxIxs = 2
INVARIANTS
  MirrorsAccounts
  RentReturns
  PaidWithConsent
  RefusedForKeyOnly
PROPERTIES
  OnlyRegistrantChanges
\* The bounds are reached in the end.
CHECK_DEADLOCK FALSE
SYMMETRY Wallets
