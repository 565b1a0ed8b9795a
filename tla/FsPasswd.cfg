SPECIFICATION Spec
CONSTANTS
  na = na  nb = nb  nab = nab  tx = tx  h0 = h0  h1 = h1
  NumInodes = 6
  BlockCount = 7
  SlotCount = 3
  InodeCuts = {0, 4, 6}
  BitmapCuts = {0, 4, 7}
  OverrunInodes = 4
  UserNames = {na, nb}
  SlashNames = {nab}
  Texts = {tx}
  Hashes = {h0, h1}
  DefaultHash = h0
  LengthOf <- MCLengthOf
  Decoded <- MCDecoded
  Paths <- FaultPaths
  MaxFaults = 1
  MaxAfter = 2
  MaxFormats = 1
  MaxDepth = 6
PROPERTY PasswdUpdated
CHECK_DEADLOCK FALSE
