\* Two networks, one seed with accounts about the hardened bit, both kinds of wallets.
SPECIFICATION Spec
CONSTANTS
  phrase = phrase
  short = short
  NoKeys = NoKeys
  NoString = NoString
  Scalars <- TheScalars
  Points <- ThePoints
  Secrets <- TheSecrets
  LabelIndexes <- TheLabels
  Plus <- ThePlus
  PlusPoint <- ThePlusPoint
  BaseTimes <- TheBaseTimes
  PublicKey <- ThePublicKey
  diffie_hellman <- TheSharedSecret
  ZeroShared = 0
  SpendablePoints <- PointsButIdentity
  compute_view_tag <- TheViewTag
  compute_tweak <- TheTweak
  label_tweak_scalar <- TheLabelTweak
  Networks <- TheNetworks
  Seeds <- TheSeeds
  SeedLen <- TheSeedLen
  Accounts <- TheAccounts
  HardenedBit = 4
  Nonces = {0, 1, 2, 3}
  WalletSign <- TheWalletSign
  SpendPart <- TheSpendPart
  ScanPart <- TheScanPart
  MasterNode <- TheMasterNode
  ChildNode <- TheChildNode
  NodeKey <- TheNodeKey
  from_bytes_mod_order <- TheReduce
  TimesScalar <- TheTimesScalar
  TimesPoint <- TheTimesPoint
  NonceHash <- TheNonceHash
  ChallengeHash <- TheChallengeHash
  GroupBase = 4
  LabelSpace = 512
  Foreign <- ForeignStrings
  Ephemerals = {7}
  Messages = {0, 1}
  MaxDerivations = 2
  MaxPaid = 1
INVARIANTS
  PaidIsRecoverable
  IdentitiesApart
  OwnStringsAreRead
  ReadAsWritten
  PaidAsWritten
CHECK_DEADLOCK FALSE
