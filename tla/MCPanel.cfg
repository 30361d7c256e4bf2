SPECIFICATION PanelSpec
CONSTANTS
  Foci = {"chat", "config", "queue", "mirror", "stream"}
  Asks = {a1, a2}
  Questions = {q1, q2}
  Nobody = Nobody
  Empty = Empty
  Failed = Failed
  Nothing = Nothing
  Settings = {s1, s2, s3}
  Absent = Absent
  Torn = Torn
  Commands = {c1, c2}
  NoLine = NoLine
  QMax = 4
  Pixels = {black, white}
  MaxPixels = 9
  Pictures <- AllPictures
  MaxCount = 4
  Responses <- MCResponses
  Payloads <- MCPayloads
  LineMax = 6
  SizeWidth = 2
  DataMax = 11
  LinkMax = 1
INVARIANTS
  ReplyIsForQuestion
  BusyIsServed
  RollbackRestores
  MirrorIsLossless
  SplitAsSent
PROPERTIES
  AnswerComes
  ImplementsQueue
