SPECIFICATION Spec
CONSTANTS
    m1 = m1  m2 = m2  m3 = m3  s1 = s1  c1 = c1  g1 = g1  g2 = g2
    Messages = {m1, m2, m3}
    Replies = {}
    Channels = {c1}
    Guests = {g1, g2}
    NoGuest = NoGuest
    MaxAttempts = 2
    AddressOf <- OneAddress
    PhoneGuest <- OnPhone
    Intents = {"verification", "guestRequest"}
    Detectable = {"unknown"}
    StaffStates = {}
    MaxInFlight = 2
    MaxCrashes = 0
SYMMETRY SymmetricMessages
INVARIANTS TypeOK IdentityTasksLinked AttemptsBound
PROPERTIES RelinkOnlyByLookup IdleSparesAnswering
CHECK_DEADLOCK FALSE
