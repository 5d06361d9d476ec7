\* Two monoques, block lists of 2 and then 4 blocks.
CONSTANTS
    Names = {m1, m2}
    Values = {v1, v2}
    WordBits = 4
    FirstList = 2
    Blocks = {1, 2, 3}
    MaxSize = 5
    MayThrow = TRUE
    EmptyShrinks = TRUE
    Resizes = TRUE
    Null = Null
    Raw = Raw
    Free = Free
    Absent = Absent
SPECIFICATION Spec
SYMMETRY Symmetry
INVARIANT BlocksOwned
PROPERTIES ElementsDoNotMove ShrinkLeavesTight KeepsSequence
