SPECIFICATION Spec
CONSTANTS
    Calls = {c1, c2}
    Codes = {k1, k2, k3}
    NoCode = NoCode
    MaxAttempts = 2
    MaxEnds = 2
    MaxTroubles = 1
SYMMETRY Symmetry
INVARIANT TypeOK
INVARIANT SessionsStayEnded
INVARIANT OldPasswordSessionsEnd
INVARIANT GuessesBounded
INVARIANT OneOwnerCompany
