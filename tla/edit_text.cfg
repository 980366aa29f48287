SPECIFICATION Spec
CONSTANTS
  x = x  c1 = c1  c2 = c2  NL = NL  Bad = Bad
  Chars <- MCChars
  Width <- MCWidth
  Controls = {c1, c2}
  Edits <- MCEdits
  MarkerWidth = 1
  DefaultLines = 2
  MaxLineChars = 2
  MaxTotalBytes = 10
  MaxDigits = 1
  MaxEdits = 2
  maxAmbiguousLines = 2
  maxListedPositions = 2
  MaxLength = 4
INVARIANTS
  EngineTypeOK
  MatchesMaximal
  AmbiguousLinesReadable
  WarningsPointAtCharacters
PROPERTIES
  ReplacedAsCounted
  FooterHonest
  PagesConsecutive
