\* One object of each class but two connections, three descriptors.
CONSTANTS
    Udps = {u}
    Acceptors = {a}
    Connections = {c1, c2}
    Asyncs = {s}
    Descriptors = {3, 4, 5}
    Ports = {p}
    Length = 2
    MaxWire = 2
    Absent = Absent
    None = None
    Raw = Raw
    Free = Free
    NoPort = NoPort
    AnyPort = AnyPort
SPECIFICATION Spec
SYMMETRY Symmetry
CONSTRAINT Few
INVARIANT OneOwner
PROPERTIES SendDelivers LosesOnlyWhereKnown ListensWhereAsked KeepsValues
