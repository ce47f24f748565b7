SPECIFICATION Spec
CONSTANTS
  tcp = tcp
  unix = unix
  c1 = c1
  c2 = c2
  c3 = c3
  Listeners = {tcp, unix}
  Conns = {c1, c2, c3}
  ListenerOf <- MCListenerOf
  MaxConnections = 2
INVARIANTS
  TypeOK
  SlotsAreExact
PROPERTIES
  EndsWhenAsked
  AcceptResumes
