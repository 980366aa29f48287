SPECIFICATION FairSpec
CONSTANTS
  Items = {i1, i2}
  Token = Token
  Tokens <- OneToken
  TokenOf <- SameToken
  Paths = {p1}
  Images = {a}
  Partial = Partial
  Empty = Empty
  Absent = Absent
  Dir = Dir
  Special = Special
  Elsewhere = Elsewhere
  Nothing = Nothing
  NoItem = NoItem
  Retries = 1
  LinkRefused = FALSE
  AmbiguousReplies = FALSE
  ExposedWindows = FALSE
  Crashes = FALSE
PROPERTIES
  EveryItemReturns
