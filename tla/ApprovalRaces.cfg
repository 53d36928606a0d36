SPECIFICATION Spec
CONSTANTS
    raw = raw
    clean = clean
    bad = bad
    Drafts = {d1}
    Requests = {r1}
    Creators = {}
    Workers = {w1, w2}
    Payloads <- MCOnePayload
    NoPayload = NoPayload
    NoDraft = NoDraft
    Recompute <- MCOneRecompute
    Blocking = {}
    MaxStalls = 1
    Lapses = {"aged", "late", "stall", "crash"}
    MaxVersion = 2
    MaxNumber = 2
SYMMETRY Symmetry
INVARIANT TypeOK
 
INVARIANT NumbersNeverReused
INVARIANT RedeliverySafe
INVARIANT ApprovedHasInvoice
PROPERTY ImplementsRegister
\* Versions and numbers are bounded: a behaviour may run out of them.
CHECK_DEADLOCK FALSE
