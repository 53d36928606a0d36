SPECIFICATION Spec
CONSTANTS
    raw = raw
    clean = clean
    bad = bad
    Drafts = {d1}
    Requests = {r1, r2}
    Creators = {}
    Workers = {w1, w2}
    Payloads <- MCPlainPayloads
    NoPayload = NoPayload
    NoDraft = NoDraft
    Recompute <- MCPlainRecompute
    Blocking = {}
    MaxStalls = 1
    Lapses = {}
    MaxVersion = 3
    MaxNumber = 2
SYMMETRY Symmetry
INVARIANT JobMatchesClaim
PROPERTY ApprovedFinal
PROPERTY DiscardedNotApproved
PROPERTY ClaimedDraftKeepsPayload
\* Versions and numbers are bounded: a behaviour may run out of them.
CHECK_DEADLOCK FALSE
