SPECIFICATION FairSpec
CONSTANTS
    m1 = m1  m2 = m2  m3 = m3  s1 = s1  c1 = c1  g1 = g1  g2 = g2
    Messages = {m1, m2}
    Replies = {s1}
    Channels = {c1}
    Guests = {g1}
    NoGuest = NoGuest
    MaxAttempts = 1
    AddressOf <- OneAddress
    PhoneGuest <- Anonymous
    Intents = {"emergency"}
    Detectable = {"foreign"}
    StaffStates = {"new", "escalated", "resolved"}
    MaxInFlight = 2
    MaxCrashes = 1
INVARIANTS SentWasSaved TasksTraceable ReceivedOnce
PROPERTIES HandlersAdvance KeepsContract AcceptedSettles QuietConversationsClose
CHECK_DEADLOCK FALSE
