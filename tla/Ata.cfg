SPECIFICATION Spec
CONSTANTS
  LastLba = 1
  Data = {d0, d1}
  Zero = d0
  Identity = id
  Junk = junk
  MaxCount = 2
  Polls = 2
  MaxBoots = 1
INVARIANTS WritesOneSector WrittenIsDurable
PROPERTIES ReadsWhatWasWritten CallsReturn
