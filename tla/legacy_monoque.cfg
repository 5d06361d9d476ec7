\* Two monoques of up to 8 elements: 8 is half the range of a 4-bit int.
CONSTANTS
    Names = {m1, m2}
    Values = {v1, v2}
    Marked = v2
    IntBits = 4
    Counts = {5}
    Blocks = {1, 2, 3, 4}
    MayThrow = TRUE
    Null = Null
    Raw = Raw
    Absent = Absent
SPECIFICATION Spec
SYMMETRY Symmetry
CONSTRAINT FewElements
INVARIANTS BlocksOwned NoHoles
PROPERTIES KeepsSequences
