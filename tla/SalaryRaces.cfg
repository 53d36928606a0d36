SPECIFICATION Spec
CONSTANTS
    Slips = {s1, s2}
    NoSlip = NoSlip
    Requests = {r1, r2}
    Pages = {p1}
    Amounts = {2}
    Kinds = {"deduction"}
    Absent = Absent
    Failures = TRUE
    MaxCalls = 5
SYMMETRY Symmetry
INVARIANT TypeOK
INVARIANT NoDuplicateHistory
INVARIANT SlipNumbersUnique
 
\* Calls are bounded: a behaviour runs out of them.
CHECK_DEADLOCK FALSE
