\* Three derivators of void and two other alternatives.
CONSTANTS
    Names = {d1, d2, d3}
    Last = 2
    Voids = {0}
    Values = {v1, v2}
    Addresses = {a1, a2, a3, a4}
    Null = Null
    Free = Free
    Absent = Absent
SPECIFICATION Spec
SYMMETRY Symmetry
CHECK_DEADLOCK FALSE
INVARIANTS TableFitsValue OneOwner
PROPERTIES LosesOnlyWhereKnown KeepsVariants
