SPECIFICATION TreeSpec
CONSTANTS
  na = na  nb = nb  nab = nab  tx = tx  h0 = h0  h1 = h1
  NumInodes = 8
  BlockCount = 8
  SlotCount = 3
  InodeCuts = {0, 4, 8}
  BitmapCuts = {0, 4, 8}
  OverrunInodes = 4
  UserNames = {na, nb}
  SlashNames = {nab}
  Texts = {tx}
  Hashes = {h0}
  DefaultHash = h0
  LengthOf <- MCLengthOf
  Decoded <- MCDecoded
  Paths <- TreePaths
  MaxFaults = 0
  MaxAfter = 0
  MaxFormats = 0
  MaxDepth = 6
INVARIANTS NeverReentered ReadersAgree
PROPERTY ImplementsFileTree
