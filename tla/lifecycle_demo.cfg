\* Faults, a stranger whose note is recognised, more transactions than are listed, gifts that stop a
\* sweep and gifts that do not.
SPECIFICATION FairSpec
CONSTANTS
  NoNote = NoNote
  ParseError = ParseError
  Scalars <- TheScalars
  Points <- ThePoints
  Secrets <- TheSecrets
  LabelIndexes <- TheLabels
  Plus <- ThePlus
  PlusPoint <- ThePlusPoint
  BaseTimes <- TheBaseTimes
  PublicKey <- ThePublicKey
  diffie_hellman <- TheSharedSecret
  ZeroShared = 0
  SpendablePoints <- PointsButIdentity
  compute_view_tag <- TheViewTag
  compute_tweak <- TheTweak
  label_tweak_scalar <- TheLabelTweak
  spend_scalar = 3
  scan_secret = 5
  ephemeral = 7
  ONE_SOL = 5
  TX_FEE = 2
  Airdrop = 20
  RENT_EXEMPT_MIN = 3
  Limit = 2
  Strangers <- Confusing
  MaxStrangers = 2
  MaxDust = 3
INVARIANTS
  TypeOK
  ValueHasItsNote
  NothingLeftBehind
PROPERTIES
  Terminates
  Succeeds
