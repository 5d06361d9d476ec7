\* shrink_to_fit on an empty monoque, which goes on being used.
CONSTANTS
    Names = {m1, m2}
    Values = {v1}
    WordBits = 4
    FirstList = 2
    Blocks = {1, 2, 3, 4}
    MaxSize = 5
    MayThrow = FALSE
    EmptyShrinks = TRUE
    Resizes = FALSE
    Null = Null
    Raw = Raw
    Free = Free
    Absent = Absent
SPECIFICATION Spec
SYMMETRY Symmetry
INVARIANTS EmplacedIsThere
