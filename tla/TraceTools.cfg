SPECIFICATION Spec
CONSTANTS
  None = None
  Tools = {"strace", "dftracer", "checkpoint", "training", "hand"}
  Ranks = {0, 1}
  Day = 10
  Start = 8
  Steps = {0, 1, 3}
  Back = 1
  Durs = {0, 2}
  MaxLines = 5
  MaxTimed = 3
  Modes <- MCModes
  Speeds = {"same", "slow", "fast"}
  Wait = 2
  MaxHand = 4
  CkptParams <- MCCkpt
  TrainParams <- MCTrain
  HandOps <- MCHand
  Blocks = {1, 2, 3}
INVARIANTS
  TimesFaithful
  ProductsValid
  ValidatorExact
  SplitFaithful
  GeneratedWhole
  PacedFaithful
