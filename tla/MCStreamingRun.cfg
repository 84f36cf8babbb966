SPECIFICATION StreamSpec
CONSTANTS
  a0 = a0  a1 = a1  a2 = a2  b0 = b0  b1 = b1  b2 = b2  b3 = b3
  bus = bus  dma = dma  link = link
  Tasks = {a0, a1, a2, b0, b1, b2, b3}
  Resources = {bus, dma}
  Owners = {link}
  LeaseLimit = 1
  Graphs <- MCGraphs
INVARIANTS MatchesBatch
PROPERTIES StreamDrains
CHECK_DEADLOCK FALSE
