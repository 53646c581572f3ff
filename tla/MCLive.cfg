\* Every component with the least number of actors that can make it wait.
SPECIFICATION LiveSpec
CONSTANTS
  Plane = "live"
  noLease = noLease
  a1 = a1
  a2 = a2
  z1 = z1
  z2 = z2
  w1 = w1
  w2 = w2
  w3 = w3
CHECK_DEADLOCK FALSE
PROPERTIES
  EverythingEnds
  NobodyForgotten
