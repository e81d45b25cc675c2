SPECIFICATION FairSpec
CONSTANTS
  Deployments <- MCDeployments
  Items <- MCItems
  Type <- MCType
  Sig <- MCSig
  Batchable <- MCBatchable
  Signatures <- MCSignatures
  Resolution <- MCResolution
  Cost <- MCCost
  Outputs <- MCOutputs
  Rules <- MCRules
  MaxSize = 3
  MaxErrors = 2
  MaxAhead = 1
  Components <- MCComponents
  Timeline <- MCTimeline
  Modules <- MCModules
  Params <- MCParams
  Checkpoints <- MCCheckpoints
  Base = "base"
  Dirs <- MCDirs
  Misfits <- MCMisfits
  Absent <- MCAbsent
INVARIANTS
  TypeOK
  OneAnswerWithOwnOutputs
  BatchWithinLimits
  NothingForgotten
  SameKindInOrder
  RanksAgree
  ActiveIsReady
  HeavyAlone
  NothingLeftBehind
  RolledBackMeansRestored
  UpdatedMeansLoaded
  ServesOneCheckpoint
PROPERTIES
  AlwaysReplied
CHECK_DEADLOCK FALSE
