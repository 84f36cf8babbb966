SPECIFICATION KernelSpec
CONSTANTS
  a = a  b = b  c = c  d = d
  bus = bus  dma = dma  core = core
  link = link  cores = cores
  Tasks = {a, b, c, d}
  Resources = {bus, dma, core}
  Owners = {link, cores}
  LeaseLimit = 2
  Graphs <- MCGraphs
CHECK_DEADLOCK FALSE
PROPERTIES
    LeastKeyFirst
    SubmittedRuns
    ImplementsTaskGraph
