SPECIFICATION Spec
CONSTANTS
    Slips = {s1, s2}
    NoSlip = NoSlip
    Requests = {r1}
    Pages = {}
    Amounts = {0, 2}
    Kinds = {"advance", "deduction"}
    Absent = Absent
    Failures = FALSE
    MaxCalls = 4
SYMMETRY Symmetry
INVARIANT EarnedMatchesSlips
\* Calls are bounded: a behaviour runs out of them.
CHECK_DEADLOCK FALSE
