SPECIFICATION PipeSpec
CONSTANTS
  e1 = e1
  e2 = e2
  e3 = e3
  m1 = m1
  a = a
  b = b
  Reqs = {e1, e2, e3, m1}
  Monitoring = {m1}
  Sources = {a, b}
  SourceOf <- MCSourceOf
  Limit = 1
  PerIPShare = 4
  PathOf <- MCPathOf
  Series <- MCSeries
  FrontCodes = {401}
  HandlerCodes = {200}
  Bounds = 1
  MaxArrivals = 2
INVARIANTS
  ScrapeIsCoherent
  CountedOnce
PROPERTIES
  AnswerIsFinal
  NoSourceIsShutOut
  ImplementsLimit
  EveryRequestEnds
