SPECIFICATION Spec
CONSTANTS
  u1 = u1
  d1 = d1
  d2 = d2
  n1 = n1
  n2 = n2
  User = {u1}
  Device = {d1, d2}
  Node = {n1, n2}
  Order <- TwoNodes
  Owner <- OneOwner
  Usable <- HomeNode
  Limit <- LimitTwo
  MaxBytes <- Bytes
  Collector = {}
  Meter = {m1}
INVARIANTS NodeNotOvercharged
