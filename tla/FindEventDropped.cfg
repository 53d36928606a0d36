SPECIFICATION Spec
CONSTANTS
    Requests = {"tap", "flush", "refresh"}
    Companies = {c1}
    NoCompany = NoCompany
    NoState = NoState
    Removed = Removed
    MaxDay = 1
    MaxSessions = 4
    MaxOffice = 0
    MaxTaps = 2
    Troubles = {"offline", "lost", "failed", "killed"}
    MaxTroubles = 2
    Pressed = {"checkIn", "startWork", "stopWork", "siteFinished", "startLeave", "endLeave"}
PROPERTY NothingDropped
