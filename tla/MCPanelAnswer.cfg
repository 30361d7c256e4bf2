SPECIFICATION PanelSpec
CONSTANTS
  Foci = {"chat"}
  Asks = {a1, a2}
  Questions = {q1, q2}
  Nobody = Nobody
  Empty = Empty
  Failed = Failed
  Nothing = Nothing
  Settings = {s1}
  Absent = Absent
  Torn = Torn
  Commands = {c1}
  NoLine = NoLine
  QMax = 2
  Pixels = {black}
  MaxPixels = 1
  Pictures <- AllPictures
  MaxCount = 1
  Responses <- MCResponses
  Payloads <- MCPayloads
  LineMax = 6
  SizeWidth = 2
  DataMax = 1
  LinkMax = 0
INVARIANT AnswerFitsQuestion
