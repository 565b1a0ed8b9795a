SPECIFICATION TreeSpec
CONSTANTS
  na = na  nb = nb  nab = nab  tx = tx  h0 = h0  h1 = h1
  NumInodes = 5
  BlockCount = 5
  SlotCount = 2
  InodeCuts = {0, 5}
  BitmapCuts = {0, 5}
  OverrunInodes = 4
  UserNames = {na, nb}
  SlashNames = {nab}
  Texts = {}
  Hashes = {h0, h1}
  DefaultHash = h0
  LengthOf <- MCLengthOf
  Decoded <- MCDecoded
  Paths <- SysPaths
  MaxFaults = 0
  MaxAfter = 0
  MaxFormats = 0
  MaxDepth = 6
INVARIANTS TablesSound
PROPERTIES LostInTwoWays ImplementsFileTree
