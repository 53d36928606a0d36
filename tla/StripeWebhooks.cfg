SPECIFICATION LiveSpec
CONSTANTS
    Subscriptions = {s1, s2}
    Customers = {c1, c2}
    Handlers = {h1, h2}
    Buyers = {b1}
    NoSubscription = NoSubscription
    NoCustomer = NoCustomer
    NoEvent = NoEvent
    NoCopy = NoCopy
    MaxChanges = 5
    MaxDisorder = 2
    MaxTroubles = 1
INVARIANT TypeOK
 
PROPERTY RecordCatchesUp
