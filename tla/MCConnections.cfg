\* A player who reconnects and another one, for two places.
SPECIFICATION Spec
CONSTANTS
  c1 = c1
  c2 = c2
  c3 = c3
  p1 = p1
  p2 = p2
  NoConn = NoConn
  Conns = {c1, c2, c3}
  Players = {p1, p2}
  PlayerOf <- MCPlayerOf
  MaxConns = 2
INVARIANTS
  CountExact
  NeverOver
  ServedIsKnown
PROPERTIES
  PlacesReturn
