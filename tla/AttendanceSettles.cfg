SPECIFICATION LiveSpec
CONSTANTS
    Requests = {"tap", "flush", "refresh"}
    Companies = {c1}
    NoCompany = NoCompany
    NoState = NoState
    Removed = Removed
    MaxDay = 2
    MaxSessions = 4
    MaxOffice = 0
    MaxTaps = 2
    Troubles = {"lost"}
    MaxTroubles = 2
    Pressed = {"checkIn", "startWork"}
 
INVARIANT StoredInOrder
PROPERTY FlushKeepsUndelivered
PROPERTY SyncSettles
PROPERTY TodayStartsFresh
