SPECIFICATION Spec
CONSTANTS
  s1 = s1
  s2 = s2
  Shells <- TwoShells
  TopLevel = 2
  MaxSets = 3
  MaxFails = 1
INVARIANTS
  TypeOK
  OneWaveform
  BeepNeverMasksRadar
PROPERTIES
  SettledLevelSounds
  SetReturns
CHECK_DEADLOCK FALSE
