SPECIFICATION LibrarySpec
CONSTANTS
    HeapSize = 96
    Header = 4
    Align = 2
    Modulus = 1024
    ItemSize = 2
    Names = {na, nb}
    Values = {tx, h0}
    Indexes = {0, 2}
    Capacities = {2, 32}
    MaxItems = 4
    Lines <- MCLines
    Secrets = {2, 7}
    MaxInt = 1100
    Base = 4
    MaxBytes = 120
INVARIANTS StorageIsOwned MemoryAccounted NumbersAreShown
PROPERTIES ImplementsSequences RunsOut
CHECK_DEADLOCK FALSE
