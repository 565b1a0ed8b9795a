SPECIFICATION ShellSpec
CONSTANTS
  h0 = h0  h1 = h1
  NumInodes = 5
  BlockCount = 6
  SlotCount = 2
  InodeCuts = {0, 4, 5}
  BitmapCuts = {0, 4, 6}
  OverrunInodes = 4
  UserNames = {"a"}
  SlashNames <- MCSlashNames
  Texts = {}
  Hashes = {h0, h1}
  DefaultHash = h0
  LengthOf <- MCLengthOf
  Decoded <- MCDecoded
  Paths = {}
  MaxFaults = 1
  MaxAfter = 1
  MaxFormats = 1
  MaxDepth = 4
  Args <- ShellArgs
  RmArgs <- ShellRmArgs
  SlashOf <- MCSlashOf
  MaxCwd = 1
  MaxMoved = 1
  SysAndEvents = FALSE
  MaxEvents = 1
INVARIANTS  ShowsWhatIs
PROPERTIES RefusedForGood StaysInside
CHECK_DEADLOCK FALSE
