\* A labelled payment in SOL, one in a token, and one too large to build.
SPECIFICATION FairSpec
CONSTANTS
  alice = alice
  bob = bob
  rent = rent
  token = token
  huge = huge
  Scalars <- TheScalars
  Points <- ThePoints
  Secrets <- TheSecrets
  LabelIndexes <- TheLabels
  Plus <- ThePlus
  PlusPoint <- ThePlusPoint
  BaseTimes <- TheBaseTimes
  PublicKey <- ThePublicKey
  diffie_hellman <- TheSharedSecret
  ZeroShared = 0
  SpendablePoints <- PointsButIdentity
  compute_view_tag <- TheViewTag
  compute_tweak <- TheTweak
  label_tweak_scalar <- TheLabelTweak
  Payments <- ThreePayments
  Recipients <- TwoRecipients
  SpendScalar <- Spends
  ScanSecret <- Scans
  KnownLabels <- Labels
  To <- PaidTo
  Label <- PaidLabel
  Ephemeral <- PaidWith
  Asset <- PaidIn
  Amount <- PaidAmount
  RENT_EXEMPT_MIN = 2
  MaxU64 = 10
  Takes = {1, 3}
  MaxTransfers = 2
  MaxLosses = 1
INVARIANTS
  TypeOK
  Recoverable
  CountedOnce
  LateDepositIsHarmless
PROPERTIES
  EventuallyAnnounced
  EventuallySwept
CHECK_DEADLOCK FALSE
