CONSTANTS
  shop = shop
  bank = bank
  game = game
  shop1 = shop1
  shop2 = shop2
  bank1 = bank1
  game1 = game1
  None = None
  NoSplit = NoSplit
  Source = {shop, bank, game}
  Content <- MCContent
  Checkout <- MCCheckout
  SourceSets = {{shop, bank, game}, {shop, bank}}
  Searched <- MCSearched
  Lines <- MCLines
  MaxText = 4
  Receivers = {"self", "cls"}
  Benign = {0, 1, 2}
  Rules <- MCRules
  MaxDepth = 1
  MinEntities = 3
  ControlRatio <- MCRatio
  MinControls = 0
  MaxAttempts = 2
  MinSamples = 3
  MinProjects = 2
  Kinds <- MCKinds
  Tunable = {"logistic", "forest"}
  Shares <- MCShares
  MaxChanges = 1
SPECIFICATION Spec
INVARIANTS TypeOK MetricsFollowSource DetectionFollowsValues RowsAreAsReviewed EvaluationIsSound ReportMatchesModels
PROPERTIES MoreCodeIsNotSimpler
CHECK_DEADLOCK FALSE
