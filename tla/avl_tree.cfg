SPECIFICATION Spec
CONSTANTS
    Trees = {"a", "b", "r"}
    KeysOf <- MCThreeTrees
    ValuesOf <- MCValuesOf
    Joins <- MCJoins
    Splits = {"a"}
\* A failed assertion and a null dereference end the program.
CONSTRAINTS FewUnbalanced FewOtherValues
CHECK_DEADLOCK FALSE
INVARIANTS NodesHeld Threaded
PROPERTIES FailsOnlyWhereKnown SplitRootsTheHost KeepsMaps
