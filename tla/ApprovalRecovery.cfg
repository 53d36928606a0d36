SPECIFICATION LiveSpec
CONSTANTS
    raw = raw
    clean = clean
    bad = bad
    Drafts = {d1}
    Requests = {r1}
    Creators = {c1}
    Workers = {w1}
    Payloads <- MCPayloads
    NoPayload = NoPayload
    NoDraft = NoDraft
    Recompute <- MCRecompute
    Blocking = {bad}
    MaxStalls = 1
    Lapses = {"aged", "late", "stall", "crash"}
    MaxVersion = 2
    MaxNumber = 1
PROPERTY ClaimResolved
\* Versions and numbers are bounded: a behaviour may run out of them.
CHECK_DEADLOCK FALSE
