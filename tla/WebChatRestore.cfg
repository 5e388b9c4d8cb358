SPECIFICATION Spec
CONSTANTS
    s1 = s1  s2 = s2  m1 = m1  m2 = m2  r1 = r1  r2 = r2
    x1 = x1  g1 = g1  g2 = g2  b1 = b1  b2 = b2
    Sessions = {s1, s2}
    NoSession = NoSession
    Guests = {g1, g2}
    NoGuest = NoGuest
    Bookings = {b1}
    NoBooking = NoBooking
    GuestOf <- OneBooking
    Stay <- Staying
    AnonymousTTL = 1
    PreArrivalTTL = 2
    CheckoutBuffer = 1
    Messages = {m1, m2}
    Requests = {r1, r2}
    Replies = {}
    SessionOf <- TwoBrowsers
    MaxAttempts = 1
    MaxCodeRequests = 1
    Methods = {"booking"}
    HasWelcome = TRUE
    MaxDay = 0
    MaxCrashes = 1
INVARIANTS TypeOK MessagesKept
PROPERTIES RestoresOwnConversation RestoreLeavesByReply
CHECK_DEADLOCK FALSE
