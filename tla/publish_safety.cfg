SPECIFICATION Spec
CONSTANTS
  Items = {i1, i2}
  Token = Token
  Tokens <- OneToken
  TokenOf <- SameToken
  Paths = {p1}
  Images = {a, b}
  Partial = Partial
  Empty = Empty
  Absent = Absent
  Dir = Dir
  Special = Special
  Elsewhere = Elsewhere
  Nothing = Nothing
  NoItem = NoItem
  Retries = 1
  LinkRefused = TRUE
  AmbiguousReplies = TRUE
  ExposedWindows = FALSE
  Crashes = TRUE
SYMMETRY Symmetric
INVARIANTS
  TypeOK
  PartialOnlyDuringCopy
  UploaderForgets
  TempRemoved
PROPERTIES
  NeverOverwrite
  SkippedIsSame
