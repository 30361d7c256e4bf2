SPECIFICATION Spec
CONSTANTS
  Header <- MCHeader
  Tails <- MCTails
  MaxTargets = 2
  Symbols <- MCSymbols
  Targets <- MCTargets
INVARIANTS
  TypeOK
  OnlyGoodFrames
  MostUrgentChosen
PROPERTIES
  NoFrameLost
