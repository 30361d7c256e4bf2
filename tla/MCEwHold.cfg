SPECIFICATION Spec
CONSTANTS
  ClockMod = 9
  StaleMs = 3
  ClearMs = 2
  ConfirmFrames = 2
  MaxHits = 3
  MaxGap = 3
  MaxSilence = 5
  Horizon = 6
INVARIANTS
  TypeOK
  LatchAgeIsTrue
  NoOverhold
  EscalatesAtOnce
  ConfirmedThreatShown
  AlarmOwnsItsMeasurement
  LinkIsTrue
PROPERTIES
  NoEarlyRelease
  ConfirmedBeforeAlarm
