SPECIFICATION Spec
CONSTANTS
  w1 = w1  w2 = w2
  Workers = {w1, w2}
  Items <- MCItems
  Answers <- MCAnswers
  Public <- MCPublic
  Responses <- MCResponses
  NoUrl = NoUrl  NoHost = NoHost  NoConn = NoConn
  NoTransport = NoTransport  NoResponse = NoResponse
  MaxRedirects = 2
  MaxImageBytes = 5
  SniffBytes = 2
  SVGPrologBytes = 3
  DrainBytes = 2
  MaxIdleConns = 1
INVARIANTS
  AcceptedWhole
  RefusalsAreTrue
PROPERTIES
  RequestsInPolicy
