SPECIFICATION TreeSpec
CONSTANTS
  na = na  nb = nb  nab = nab  tx = tx  h0 = h0  h1 = h1
  NumInodes = 7
  BlockCount = 7
  SlotCount = 3
  InodeCuts = {0, 4, 7}
  BitmapCuts = {0, 4, 7}
  OverrunInodes = 4
  UserNames = {na, nb}
  SlashNames = {nab}
  Texts = {tx}
  Hashes = {h0}
  DefaultHash = h0
  LengthOf <- MCLengthOf
  Decoded <- MCDecoded
  Paths <- ProgressPaths
  MaxFaults = 1
  MaxAfter = 2
  MaxFormats = 1
  MaxDepth = 6
PROPERTIES RemoveEnds BootCompletes ImplementsFileTree
CHECK_DEADLOCK FALSE
