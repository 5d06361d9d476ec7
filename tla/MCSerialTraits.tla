--------------------------- MODULE MCSerialTraits ---------------------------
EXTENDS SerialProperties

Both == {"generator", "iterator"}
Bool == [k |-> "bool"]
Text == [k |-> "string"]
AnyUInt == [k |-> "uintany"]
IntOf(n, signed) == [k |-> "int", n |-> n, signed |-> signed]
Vector(t) == [k |-> "vector", of |-> t]
Map(k, v) == [k |-> "map", of |-> [k |-> "tuple", of |-> <<k, v>>]]
Tuple(ts) == [k |-> "tuple", of |-> ts]
Message(t, v, by) == [t |-> t, v |-> v, by |-> by]

\* The last and the first value of each length, and the longest of three groups.
Boundaries == <<0, Groups(1) - 1, Groups(1), Groups(2) - 1, Groups(2), Groups(3) - 1, Groups(3)>>

MCKinds == <<
    Message(Tuple(<<IntOf(1, FALSE), IntOf(2, TRUE), IntOf(4, FALSE), IntOf(8, TRUE), IntOf(8, TRUE),
                    IntOf(8, FALSE)>>),
            <<6, -29, 4095, -1, 5 * Byte ^ 5 + 6, 3 * Byte ^ 7 + Byte ^ 4 + 9>>, Both),
    Message(IntOf(8, TRUE), 2 * Byte ^ 6 + 4 * Byte ^ 3 + 1, Both),
    Message(IntOf(8, FALSE), 3 * Byte ^ 7 + 4 * Byte ^ 3 + 9, Both),
    Message(Text, <<7, 0, 5>>, {"generator"}),
    Message(Tuple(<<Bool, Bool, Bool, Bool, IntOf(2, TRUE), Bool, Bool>>),
            <<TRUE, FALSE, TRUE, TRUE, 5, FALSE, TRUE>>, Both),
    Message(Vector(Tuple(<<IntOf(2, TRUE), Bool, Bool>>)), <<<<4, TRUE, FALSE>>, <<-1, FALSE, TRUE>>>>,
            {"generator"}),
    Message(Vector(Vector(AnyUInt)), <<<<1, 4, 9>>, <<>>>>, {"generator"}),
    Message(Map(Text, IntOf(2, TRUE)), <<<<<<1>>, 1>>, <<<<1, 2>>, -2>>>>, {"generator"}) >>
    \o [i \in DOMAIN Boundaries |-> Message(AnyUInt, Boundaries[i], {"iterator"})]

MCLongVector == <<Message(Vector(Bool), <<TRUE, TRUE, FALSE, TRUE, TRUE>>, {"generator"})>>
=============================================================================
