SPECIFICATION FairSpec
CONSTANTS
    s1 = s1  s2 = s2  m1 = m1  m2 = m2  r1 = r1  r2 = r2
    x1 = x1  g1 = g1  g2 = g2  b1 = b1  b2 = b2
    Sessions = {s1}
    NoSession = NoSession
    Guests = {g1, g2}
    NoGuest = NoGuest
    Bookings = {b1, b2}
    NoBooking = NoBooking
    GuestOf <- Booked
    Stay <- Stays
    AnonymousTTL = 1
    PreArrivalTTL = 2
    CheckoutBuffer = 1
    Messages = {m1}
    Requests = {r1, r2}
    Replies = {x1}
    SessionOf <- OneBrowser
    MaxAttempts = 1
    MaxCodeRequests = 1
    Methods = {"booking", "email", "code"}
    HasWelcome = FALSE
    MaxDay = 5
    MaxCrashes = 0
INVARIANTS AttemptsWithinOverlap ValidThroughStay
PROPERTIES CleanupSparesActive StayOutlastsActivity ExpiredRowsGo
CHECK_DEADLOCK FALSE
