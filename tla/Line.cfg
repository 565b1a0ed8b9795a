SPECIFICATION LineSpec
CONSTANTS
  Width = 2
  Height = 3
  MaxLength = 2
  QueueSize = 2
  Prompts <- MCPrompts
  Outputs <- MCOutputs
  NameMax = 2
  RootMax = 6
  PathMax = 9
  Dirs <- MCDirs
  Typed <- MCTyped
  Space <- MCSpace
  NameSize = 3
  Slots = 3
  MaxInodes = 5
  Plain <- Long
  InPaths <- Short
INVARIANTS ScreenShowsTheLine PathsAgree RootNamesADirectory WordsAreExact BytesAreEntries
PROPERTIES TypedAsMeant EnterEndsTheLine
