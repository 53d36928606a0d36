SPECIFICATION Spec
CONSTANTS
    Requests = {"tap", "flush", "refresh"}
    Companies = {c1}
    NoCompany = NoCompany
    NoState = NoState
    Removed = Removed
    MaxDay = 1
    MaxSessions = 2
    MaxOffice = 1
    MaxTaps = 3
    Troubles = {"offline", "lost", "failed", "killed"}
    MaxTroubles = 1
    Pressed = {"checkIn", "startWork", "stopWork", "siteFinished", "startLeave", "endLeave"}
INVARIANT TypeOK
INVARIANT LeaveRemembersState
PROPERTY OfficeAssignmentKept
