SPECIFICATION LiveSpec
CONSTANTS
    a = a
    Replicas = {a}
    Readers <- MCReaders
    Writers = {w1, w2}
    None = None
    Troubles = {"down", "late", "fetch"}
    MaxVersion = 2
    MaxWire = 2
INVARIANT TypeOK
INVARIANT FetchedOnce
PROPERTY ReadsEnd
PROPERTY FreshInTheEnd
