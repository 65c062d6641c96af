CONSTANTS
  d1 = d1
  d2 = d2
  Identity = identity
  Nothing = nothing
  Lbas = {0, 1}
  Data <- MCData
  MaxPolls = 2
  MaxFaults = 2
SPECIFICATION AtaSpec
PROPERTIES DiskSpec CallsReturn
